------------------------- MODULE FilesystemProofs --------------------------
(***************************************************************************)
(* Theorems about Filesystem, for every set of names and every bound, in   *)
(* six parts: what the path operators return; the tables keep their types  *)
(* and their unique paths; the trash is consistent; every row keeps its    *)
(* folder; the disk and the versions agree with the rows; the requests     *)
(* implement FileTree.                                                     *)
(***************************************************************************)
EXTENDS FilesystemTree, SequenceTheorems, FiniteSetTheorems, WellFoundedInduction, TLAPS

----------------------------------------------------------------------------
(* Paths: the facts the proofs about the store rest on.                    *)

LEMMA PathElement ==
  ASSUME NEW p \in Path
  PROVE  /\ Len(p) \in Nat
         /\ \A i \in 1 .. Len(p) : p[i] \in Segments
  BY LenProperties, ElementOfSeq DEF Path

LEMMA PathEqual ==
  ASSUME NEW p \in Path, NEW q \in Path, Len(p) = Len(q),
         \A i \in 1 .. Len(p) : p[i] = q[i]
  PROVE  p = q
  BY SeqEqual DEF Path

\* Any prefix of a path is a path; past the end SubSeq is empty.
LEMMA PrefixPath ==
  ASSUME NEW p \in Path, NEW n \in Int, n <= Len(p)
  PROVE  /\ SubSeq(p, 1, n) \in Path
         /\ Len(SubSeq(p, 1, n)) = IF n >= 1 THEN n ELSE 0
         /\ \A i \in 1 .. n : SubSeq(p, 1, n)[i] = p[i]
<1>1. \A i \in 1 .. n : p[i] \in Segments
  BY PathElement
<1>2. /\ SubSeq(p, 1, n) \in Seq(Segments)
      /\ Len(SubSeq(p, 1, n)) = IF 1 <= n THEN n - 1 + 1 ELSE 0
      /\ \A i \in 1 .. n - 1 + 1 : SubSeq(p, 1, n)[i] = p[1 + i - 1]
  BY <1>1, SubSeqProperties
<1> QED
  BY <1>2, PathElement DEF Path

LEMMA SuffixPath ==
  ASSUME NEW p \in Path, NEW m \in Nat
  PROVE  /\ SubSeq(p, m + 1, Len(p)) \in Path
         /\ Len(SubSeq(p, m + 1, Len(p))) = IF m <= Len(p) THEN Len(p) - m ELSE 0
         /\ \A i \in 1 .. Len(p) - m : SubSeq(p, m + 1, Len(p))[i] = p[m + i]
<1>1. \A i \in m + 1 .. Len(p) : p[i] \in Segments
  BY PathElement
<1>2. /\ SubSeq(p, m + 1, Len(p)) \in Seq(Segments)
      /\ Len(SubSeq(p, m + 1, Len(p)))
           = IF m + 1 <= Len(p) THEN Len(p) - (m + 1) + 1 ELSE 0
      /\ \A i \in 1 .. Len(p) - (m + 1) + 1 :
           SubSeq(p, m + 1, Len(p))[i] = p[m + 1 + i - 1]
  BY <1>1, PathElement, SubSeqProperties
<1> QED
  BY <1>2, PathElement DEF Path

LEMMA ParentPath ==
  ASSUME NEW p \in Path
  PROVE  /\ ParentOf(p) \in Path
         /\ Len(ParentOf(p)) = IF p = Root THEN 0 ELSE Len(p) - 1
         /\ \A i \in 1 .. Len(p) - 1 : ParentOf(p)[i] = p[i]
<1>1. Len(p) = 0 <=> p = Root
  BY EmptySeq, PathElement DEF Path, Root
<1> QED
  BY <1>1, PrefixPath, PathElement DEF ParentOf

LEMMA ChildPath ==
  ASSUME NEW p \in Path, NEW n \in Segments
  PROVE  /\ Child(p, n) \in Path
         /\ Len(Child(p, n)) = Len(p) + 1
         /\ Child(p, n) # Root
         /\ \A i \in 1 .. Len(p) : Child(p, n)[i] = p[i]
         /\ NameOf(Child(p, n)) = n
         /\ ParentOf(Child(p, n)) = p
<1>1. /\ Child(p, n) \in Path
      /\ Len(Child(p, n)) = Len(p) + 1
      /\ \A i \in 1 .. Len(p) : Child(p, n)[i] = p[i]
      /\ Child(p, n)[Len(p) + 1] = n
  BY PathElement DEF Child, Path
<1>2. Child(p, n) # Root
  BY <1>1, EmptySeq, PathElement DEF Path, Root
<1>3. ParentOf(Child(p, n)) = p
  <2> DEFINE c == Child(p, n)
  <2>1. c \in Path /\ c # Root /\ Len(c) = Len(p) + 1
    BY <1>1, <1>2
  <2>2. \A i \in 1 .. Len(p) : c[i] = p[i]
    BY <1>1
  <2> HIDE DEF c
  <2>3. /\ ParentOf(c) \in Path
        /\ Len(ParentOf(c)) = Len(c) - 1
        /\ \A i \in 1 .. Len(c) - 1 : ParentOf(c)[i] = c[i]
    BY <2>1, ParentPath
  <2>4. Len(c) - 1 = Len(p)
    BY <2>1, PathElement
  <2>5. ParentOf(c) = p
    BY <2>2, <2>3, <2>4, PathEqual
  <2> QED
    BY <2>5 DEF c
<1> QED
  BY <1>1, <1>2, <1>3 DEF NameOf

LEMMA RebasePath ==
  ASSUME NEW old \in Path, NEW new \in Path, NEW q \in Path
  PROVE  /\ Rebase(old, new, q) \in Path
         /\ Len(Rebase(old, new, q))
              = Len(new) + IF Len(old) <= Len(q) THEN Len(q) - Len(old) ELSE 0
         /\ \A i \in 1 .. Len(new) : Rebase(old, new, q)[i] = new[i]
         /\ \A i \in 1 .. Len(q) - Len(old) :
              Rebase(old, new, q)[Len(new) + i] = q[Len(old) + i]
<1> DEFINE tail == SubSeq(q, Len(old) + 1, Len(q))
<1>1. /\ tail \in Path
      /\ Len(tail) = IF Len(old) <= Len(q) THEN Len(q) - Len(old) ELSE 0
      /\ \A i \in 1 .. Len(q) - Len(old) : tail[i] = q[Len(old) + i]
  BY SuffixPath, PathElement
<1>2. /\ new \o tail \in Seq(Segments)
      /\ Len(new \o tail) = Len(new) + Len(tail)
      /\ \A i \in 1 .. Len(new) + Len(tail) :
           (new \o tail)[i] = IF i <= Len(new) THEN new[i] ELSE tail[i - Len(new)]
  BY <1>1, ConcatProperties DEF Path
<1>3. Rebase(old, new, q) = new \o tail
  BY DEF Rebase
<1> HIDE DEF tail
<1>4. \A i \in 1 .. Len(new) : (new \o tail)[i] = new[i]
  BY <1>1, <1>2, PathElement
<1>5. \A i \in 1 .. Len(q) - Len(old) : (new \o tail)[Len(new) + i] = q[Len(old) + i]
  <2> TAKE i \in 1 .. Len(q) - Len(old)
  <2>1. Len(new) + i \in 1 .. Len(new) + Len(tail) /\ ~(Len(new) + i <= Len(new))
    BY <1>1, PathElement
  <2>2. (new \o tail)[Len(new) + i] = tail[Len(new) + i - Len(new)]
    BY <1>2, <2>1
  <2> QED
    BY <1>1, <2>2, PathElement
<1> QED
  BY <1>1, <1>2, <1>3, <1>4, <1>5, PathElement DEF Path

\* What _relocate_subtree leaves in a row is a path, and not "/".
LEMMA MovedPathType ==
  ASSUME NEW old \in Path, NEW new \in Path, Len(new) >= 1,
         NEW dir \in BOOLEAN, NEW p \in Path, Len(p) >= 1
  PROVE  MovedPath(old, new, dir, p) \in Path /\ Len(MovedPath(old, new, dir, p)) >= 1
<1> DEFINE q == IF p = old THEN new ELSE p
<1>1. q \in Path /\ Len(q) >= 1
  OBVIOUS
<1>2. Rebase(old, new, q) \in Path /\ Len(Rebase(old, new, q)) >= 1
  BY <1>1, RebasePath, PathElement
<1> QED
  BY <1>1, <1>2 DEF MovedPath

(* When no name is a pattern of another one, LIKE folder || '/%' selects   *)
(* what is below the folder on disk.                                       *)
LEMMA ExactLikeBelow ==
  ASSUME LikeIsExact, NEW p \in Path, NEW q \in Path
  PROVE  LikeBelow(p, q) <=> Below(p, q)
<1>1. ASSUME Len(p) < Len(q)
      PROVE  /\ SubSeq(q, 1, Len(p)) \in Path
             /\ Len(SubSeq(q, 1, Len(p))) = Len(p)
             /\ \A i \in 1 .. Len(p) : SubSeq(q, 1, Len(p))[i] = q[i]
             /\ \A i \in 1 .. Len(p) : p[i] \in Segments /\ q[i] \in Segments
  BY <1>1, PrefixPath, PathElement
<1>2. ASSUME LikeBelow(p, q) PROVE Below(p, q)
  <2>1. \A i \in 1 .. Len(p) : p[i] = q[i]
    BY <1>1, <1>2 DEF LikeBelow, LikeIsExact
  <2> QED
    BY <1>1, <1>2, <2>1, PathEqual DEF LikeBelow, Below
<1>3. ASSUME Below(p, q) PROVE LikeBelow(p, q)
  BY <1>1, <1>3, LikeAssumption DEF LikeBelow, Below
<1> QED
  BY <1>2, <1>3

\* A row the UPDATEs move ends up covered by the new path.
LEMMA RebaseCovered ==
  ASSUME NEW old \in Path, NEW new \in Path, NEW q \in Path, Len(old) < Len(q)
  PROVE  LikeBelow(new, Rebase(old, new, q))
<1>1. /\ Len(Rebase(old, new, q)) = Len(new) + (Len(q) - Len(old))
      /\ \A i \in 1 .. Len(new) : Rebase(old, new, q)[i] = new[i]
  BY RebasePath, PathElement
<1> QED
  BY <1>1, PathElement, LikeAssumption DEF LikeBelow

----------------------------------------------------------------------------
(* The tables.  A handler is a composition of the store operators of       *)
(* Storage, so there is one lemma per operator, saying that it preserves   *)
(* StoreInv, and the proof of an action cites those of the operators it    *)
(* calls.                                                                  *)

(***************************************************************************)
(* TypeOK alone is not inductive: a snapshot stores the checksum of the    *)
(* row it looks up by path, so keys must be unique and every file row must *)
(* have a checksum; and it stores 1 + MAX(version_no), which is a number   *)
(* only because the table is finite.                                       *)
(***************************************************************************)
KeysUnique(rows) == \A r, t \in rows : r.path = t.path => r = t
RowsInv(rows) ==
  /\ rows \subseteq RowType
  /\ KeysUnique(rows)
  /\ \A r \in rows : /\ Len(r.path) >= 1
                     /\ ~r.dir => r.sum \in Contents
                     /\ r.orig # NoPath => Len(r.orig) >= 1
VersionsInv(versions) == versions \subseteq VersionType /\ IsFiniteSet(versions)
DiskInv(disk) == disk \subseteq EntryType
StoreInv(s) ==
  /\ s \in StoreType
  /\ RowsInv(s.rows) /\ VersionsInv(s.versions) /\ DiskInv(s.disk)

----------------------------------------------------------------------------
(* A finite non-empty set of integers has a maximum.  By well-foundedness  *)
(* of strict inclusion: a smallest counterexample less one element has one.*)
LEMMA MaxOfFinite ==
  ASSUME NEW S \in SUBSET Int, IsFiniteSet(S), S # {}
  PROVE  Max(S) \in S /\ \A x \in S : x <= Max(S)
<1> DEFINE HasMax(T) == \E x \in T : \A y \in T : x >= y
           Bad == {T \in FiniteSubsetsOf(S) : T # {} /\ ~HasMax(T)}
<1>1. HasMax(S)
  <2> SUFFICES ASSUME ~HasMax(S) PROVE FALSE
    OBVIOUS
  <2>1. S \in Bad /\ Bad \subseteq FiniteSubsetsOf(S)
    BY DEF FiniteSubsetsOf
  <2>2. PICK T \in Bad : \A U \in Bad : ~(<<U, T>> \in StrictSubsetOrdering(S))
    BY <2>1, FS_StrictSubsetOrderingWellFounded, WFMin
  <2>3. T \in SUBSET S /\ IsFiniteSet(T) /\ T # {} /\ ~HasMax(T)
    BY <2>2 DEF FiniteSubsetsOf
  <2>4. PICK x \in T : TRUE
    BY <2>3
  <2> DEFINE U == T \ {x}
  <2>5. U \in SUBSET S /\ IsFiniteSet(U) /\ U # T /\ U \subseteq T
    BY <2>3, <2>4, FS_RemoveElement
  <2>6. U \notin Bad
    BY <2>2, <2>3, <2>5 DEF StrictSubsetOrdering
  <2>7. CASE U = {}
    BY <2>3, <2>4, <2>7
  <2>8. CASE U # {}
    <3>1. HasMax(U)
      BY <2>5, <2>6, <2>8 DEF FiniteSubsetsOf
    <3>2. PICK m \in U : \A y \in U : m >= y
      BY <3>1
    <3>3. m \in Int /\ x \in Int
      BY <2>3, <2>4, <2>5, <3>2
    <3>4. \A y \in T : y = x \/ m >= y
      BY <3>2
    <3>5. CASE m >= x
      BY <2>3, <2>4, <3>2, <3>4, <3>5
    <3>6. CASE ~(m >= x)
      <4>1. \A y \in T : x >= y
        BY <2>3, <3>3, <3>4, <3>6
      <4> QED
        BY <2>3, <2>4, <4>1
    <3> QED
      BY <3>5, <3>6
  <2> QED
    BY <2>7, <2>8
<1>2. PICK x \in S : \A y \in S : x >= y
  BY <1>1
<1>3. Max(S) \in S /\ \A y \in S : Max(S) >= y
  BY <1>2 DEF Max
<1> QED
  BY <1>3

LEMMA ImageFinite ==
  ASSUME NEW f, IsFiniteSet(DOMAIN f)
  PROVE  IsFiniteSet({f[x] : x \in DOMAIN f})
<1> DEFINE T == {f[x] : x \in DOMAIN f}
           g == [x \in DOMAIN f |-> f[x]]
<1>1. g \in Surjection(DOMAIN f, T)
  BY DEF Surjection
<1> HIDE DEF g
<1> QED
  BY <1>1, FS_Surjection

LEMMA NextNoType ==
  ASSUME NEW s, StoreInv(s), NEW p
  PROVE  NextNo(s, p) \in Nat \ {0}
<1> DEFINE At == VersionsAt(s, p)
           No == {v.no : v \in At} \cup {0}
<1>0. At \in SUBSET s.versions /\ IsFiniteSet(s.versions) /\ s.versions \subseteq VersionType
  BY DEF StoreInv, VersionsInv, VersionsAt
<1>1. IsFiniteSet(At) /\ \A v \in At : v.no \in Nat
  <2>1. IsFiniteSet(At)
    BY <1>0, FS_Subset
  <2>2. \A v \in VersionType : v.no \in Nat
    BY DEF VersionType
  <2> QED
    BY <1>0, <2>1, <2>2
<1>2. IsFiniteSet({v.no : v \in At})
  <2> DEFINE f == [v \in At |-> v.no]
  <2>1. DOMAIN f = At /\ {f[v] : v \in At} = {v.no : v \in At}
    OBVIOUS
  <2> QED
    BY <1>1, <2>1, ImageFinite
<1>3. IsFiniteSet(No) /\ No \in SUBSET Int /\ No # {} /\ \A x \in No : x \in Nat
  <2> DEFINE nos == {v.no : v \in At}
  <2>1. \A x \in nos \cup {0} : x \in Nat
    BY <1>1
  <2>2. IsFiniteSet(nos \cup {0})
    <3> HIDE DEF nos
    <3>1. IsFiniteSet(nos)
      BY <1>2 DEF nos
    <3> QED
      BY <3>1, FS_AddElement
  <2>3. No = nos \cup {0}
    OBVIOUS
  <2> HIDE DEF nos, No
  <2> QED
    BY <2>1, <2>2, <2>3
<1> HIDE DEF No
<1>4. Max(No) \in Nat
  BY <1>3, MaxOfFinite
<1> QED
  BY <1>4 DEF NextNo, No

\* The next number is one above the largest at the path, or 1 when there is none.
LEMMA NextNoIsNext ==
  ASSUME NEW s, StoreInv(s), NEW p
  PROVE  /\ \A u \in s.versions : u.path = p => u.no < NextNo(s, p)
         /\ NextNo(s, p) # 1 => \E u \in s.versions : u.path = p /\ u.no = NextNo(s, p) - 1
<1> DEFINE N == {u.no : u \in VersionsAt(s, p)}
<1>1. /\ \A u \in s.versions : u.no \in Nat /\ u.no >= 1
      /\ NextNo(s, p) = 1 + Max(N \cup {0})
      /\ N \in SUBSET Nat
  BY DEF StoreInv, VersionsInv, VersionType, NextNo, VersionsAt
<1>2. Max(N \cup {0}) \in N \cup {0} /\ \A k \in N \cup {0} : k <= Max(N \cup {0})
  <2>1. IsFiniteSet(VersionsAt(s, p))
    <3>1. VersionsAt(s, p) \in SUBSET s.versions /\ IsFiniteSet(s.versions)
      BY DEF VersionsAt, StoreInv, VersionsInv
    <3> QED
      BY <3>1, FS_Subset
  <2>2. IsFiniteSet(N)
    <3>1. N = {[w \in VersionsAt(s, p) |-> w.no][u] : u \in VersionsAt(s, p)}
      OBVIOUS
    <3> QED
      BY <2>1, <3>1, ImageFinite
  <2>3. IsFiniteSet(N \cup {0})
    BY <2>2, FS_AddElement
  <2>4. N \cup {0} \in SUBSET Int /\ N \cup {0} # {}
    BY <1>1
  <2> QED
    BY <2>3, <2>4, MaxOfFinite
<1>3. PICK m \in Nat : m = Max(N \cup {0})
  BY <1>1, <1>2
<1>4. NextNo(s, p) = m + 1
  BY <1>1, <1>3
<1>5. \A u \in s.versions : u.path = p => u.no \in Nat /\ u.no <= m
  BY <1>1, <1>2, <1>3 DEF VersionsAt
<1>6. m # 0 => \E u \in s.versions : u.path = p /\ u.no = m
  BY <1>2, <1>3 DEF VersionsAt
<1> QED
  BY <1>4, <1>5, <1>6

----------------------------------------------------------------------------
(* The disk operators: an entry they add has a path and a content.         *)

LEMMA MakeParentsDisk ==
  ASSUME NEW d, DiskInv(d), NEW p \in Path, Len(p) >= 1
  PROVE  DiskInv(MakeParents(d, p))
<1>1. \A i \in 1 .. Len(p) - 1 : SubSeq(p, 1, i) \in Path
  BY PrefixPath, PathElement
<1>2. \A i \in 1 .. Len(p) - 1 : [path |-> SubSeq(p, 1, i), data |-> DIR] \in EntryType
  BY <1>1 DEF EntryType
<1> QED
  BY <1>2 DEF MakeParents, DiskInv

LEMMA WriteFileDisk ==
  ASSUME NEW d, DiskInv(d), NEW p \in Path, Len(p) >= 1, NEW c \in Contents
  PROVE  DiskInv(WriteFile(d, p, c))
<1>1. [path |-> p, data |-> c] \in EntryType
  BY DEF EntryType
<1> QED
  BY <1>1, MakeParentsDisk DEF WriteFile, DiskInv

LEMMA RenameOnDisk ==
  ASSUME NEW d, DiskInv(d), NEW old \in Path, NEW new \in Path, Len(new) >= 1
  PROVE  DiskInv(RenameOn(d, old, new))
<1>1. DiskInv(MakeParents(d, new))
  BY MakeParentsDisk
<1>2. \A e \in EntryType : [e EXCEPT !.path = Rebase(old, new, e.path)] \in EntryType
  BY RebasePath DEF EntryType
<1> QED
  BY <1>1, <1>2 DEF RenameOn, DiskInv

LEMMA BlobPath ==
  ASSUME NEW ref \in Refs
  PROVE  Blob(ref) \in Path /\ Len(Blob(ref)) = 2 /\ Blob(ref)[1] = VERSIONS
  BY StorageAssumption DEF Blob, Path

----------------------------------------------------------------------------
(* The store operators preserve StoreInv.                                  *)

\* Replacing parts of a store by parts that satisfy the invariant.
LEMMA StoreUpdates ==
  ASSUME NEW s, StoreInv(s)
  PROVE  /\ \A a : RowsInv(a) => StoreInv([s EXCEPT !.rows = a])
         /\ \A a : DiskInv(a) => StoreInv([s EXCEPT !.disk = a])
         /\ \A a, b : RowsInv(a) /\ DiskInv(b) => StoreInv([s EXCEPT !.rows = a, !.disk = b])
         /\ \A a, b : RowsInv(a) /\ DiskInv(b) => StoreInv([s EXCEPT !.disk = b, !.rows = a])
         /\ \A a, b : VersionsInv(a) /\ DiskInv(b) => StoreInv([s EXCEPT !.disk = b, !.versions = a])
<1>1. /\ s \in [rows : SUBSET RowType, versions : SUBSET VersionType, disk : SUBSET EntryType]
      /\ RowsInv(s.rows) /\ VersionsInv(s.versions) /\ DiskInv(s.disk)
  BY DEF StoreInv, StoreType
<1>2. \A u : u \in [rows : SUBSET RowType, versions : SUBSET VersionType, disk : SUBSET EntryType]
               /\ RowsInv(u.rows) /\ VersionsInv(u.versions) /\ DiskInv(u.disk) => StoreInv(u)
  BY DEF StoreInv, StoreType
<1>3. /\ \A a : RowsInv(a) => a \in SUBSET RowType
      /\ \A a : VersionsInv(a) => a \in SUBSET VersionType
      /\ \A a : DiskInv(a) => a \in SUBSET EntryType
  BY DEF RowsInv, VersionsInv, DiskInv
<1>4. ASSUME NEW a, RowsInv(a) PROVE StoreInv([s EXCEPT !.rows = a])
  BY <1>1, <1>2, <1>3, <1>4
<1>5. ASSUME NEW a, DiskInv(a) PROVE StoreInv([s EXCEPT !.disk = a])
  BY <1>1, <1>2, <1>3, <1>5
<1>6. ASSUME NEW a, NEW b, RowsInv(a), DiskInv(b)
      PROVE  StoreInv([s EXCEPT !.rows = a, !.disk = b])
  BY <1>1, <1>2, <1>3, <1>6
<1>7. ASSUME NEW a, NEW b, RowsInv(a), DiskInv(b)
      PROVE  StoreInv([s EXCEPT !.disk = b, !.rows = a])
  BY <1>1, <1>2, <1>3, <1>7
<1>8. ASSUME NEW a, NEW b, VersionsInv(a), DiskInv(b)
      PROVE  StoreInv([s EXCEPT !.disk = b, !.versions = a])
  BY <1>1, <1>2, <1>3, <1>8
<1> QED
  BY <1>4, <1>5, <1>6, <1>7, <1>8

\* get_file finds one row: the one RowAt picks.
LEMMA RowAtLive ==
  ASSUME NEW s, StoreInv(s), NEW p, Live(s, p)
  PROVE  /\ RowAt(s, p) \in s.rows
         /\ RowAt(s, p).path = p
         /\ \A r \in s.rows : r.path = p => r = RowAt(s, p)
         /\ IsFile(s, p) => ~RowAt(s, p).dir /\ RowAt(s, p).sum \in Contents
         /\ p \in Path /\ Len(p) >= 1
<1>1. PICK r \in s.rows : r.path = p
  BY DEF Live
<1>2. RowAt(s, p) \in s.rows /\ RowAt(s, p).path = p
  BY <1>1 DEF RowAt
<1>3. \A t \in s.rows : t.path = p => t = RowAt(s, p)
  BY <1>2 DEF StoreInv, RowsInv, KeysUnique
<1>4. IsFile(s, p) => ~RowAt(s, p).dir /\ RowAt(s, p).sum \in Contents
  BY <1>3 DEF IsFile, StoreInv, RowsInv
<1>5. p \in Path /\ Len(p) >= 1
  BY <1>2 DEF StoreInv, RowsInv, RowType
<1> QED
  BY <1>2, <1>3, <1>4, <1>5

LEMMA SnapshotInv ==
  ASSUME NEW s, StoreInv(s), NEW p, NEW ref \in Refs
  PROVE  StoreInv(Snapshot(s, p, ref))
<1>1. CASE ~IsFile(s, p) \/ FileOn(s.disk, p) = {}
  BY <1>1 DEF Snapshot
<1>2. CASE IsFile(s, p) /\ FileOn(s.disk, p) # {}
  <2> DEFINE v == [path |-> p, no |-> NextNo(s, p), sum |-> RowAt(s, p).sum, ref |-> ref]
             copies == {[e EXCEPT !.path = Blob(ref)] : e \in FileOn(s.disk, p)}
  <2>1. v \in VersionType
    <3>1. Live(s, p)
      BY <1>2 DEF IsFile, Live
    <3> QED
      BY <1>2, <3>1, RowAtLive, NextNoType DEF VersionType
  <2>2. copies \subseteq EntryType
    <3>1. \A e \in EntryType : [e EXCEPT !.path = Blob(ref)] \in EntryType
      BY BlobPath DEF EntryType
    <3>2. FileOn(s.disk, p) \subseteq EntryType
      BY DEF StoreInv, DiskInv, FileOn
    <3> QED
      BY <3>1, <3>2
  <2>3. Snapshot(s, p, ref)
          = [s EXCEPT !.disk = s.disk \cup copies, !.versions = s.versions \cup {v}]
    BY <1>2 DEF Snapshot
  <2> HIDE DEF v, copies
  <2>4. VersionsInv(s.versions \cup {v}) /\ DiskInv(s.disk \cup copies)
    BY <2>1, <2>2, FS_AddElement DEF StoreInv, VersionsInv, DiskInv
  <2> DEFINE a == s.versions \cup {v}
             b == s.disk \cup copies
  <2>5. VersionsInv(a) /\ DiskInv(b) /\ Snapshot(s, p, ref) = [s EXCEPT !.disk = b, !.versions = a]
    BY <2>3, <2>4
  <2> HIDE DEF a, b
  <2>6. StoreInv([s EXCEPT !.disk = b, !.versions = a])
    BY <2>5, StoreUpdates
  <2> QED
    BY <2>5, <2>6
<1> QED
  BY <1>1, <1>2

LEMMA RemoveFileInv ==
  ASSUME NEW s, StoreInv(s), NEW p
  PROVE  StoreInv(RemoveFile(s, p))
<1>1. RowsInv({r \in s.rows : ~Covers(p, r.path)})
  BY DEF StoreInv, RowsInv, KeysUnique
<1>2. DiskInv(RemoveFileOn(s.disk, p))
  BY DEF StoreInv, DiskInv, RemoveFileOn
<1> QED
  BY <1>1, <1>2, StoreUpdates DEF RemoveFile

LEMMA NamePath ==
  ASSUME NEW p \in Path, Len(p) >= 1
  PROVE  NameOf(p) \in Segments
  BY PathElement DEF NameOf

\* An inserted row: the key is free, the fields have their types.
LEMMA InsertRow ==
  ASSUME NEW s, StoreInv(s), NEW p \in Path, Len(p) >= 1, ~HasKey(s, p),
         NEW dir \in BOOLEAN, NEW sum \in Contents \cup {NoSum}, NEW node \in Nodes,
         ~dir => sum \in Contents
  PROVE  RowsInv(s.rows \cup {NewRow(p, dir, sum, node)})
<1> DEFINE n == NewRow(p, dir, sum, node)
<1>1. n \in RowType
  BY ParentPath, NamePath DEF NewRow, RowType
<1>2. n.path = p /\ n.dir = dir /\ n.sum = sum /\ n.orig = NoPath
  BY DEF NewRow
<1>3. \A r \in s.rows : r.path # p
  BY DEF HasKey
<1> HIDE DEF n
<1>4. RowsInv(s.rows)
  BY DEF StoreInv
<1>5. s.rows \cup {n} \subseteq RowType
  BY <1>1, <1>4 DEF RowsInv
<1>6. KeysUnique(s.rows \cup {n})
  BY <1>2, <1>3, <1>4 DEF RowsInv, KeysUnique
<1>7. \A r \in s.rows : /\ Len(r.path) >= 1
                        /\ ~r.dir => r.sum \in Contents
                        /\ r.orig # NoPath => Len(r.orig) >= 1
  BY <1>4 DEF RowsInv
<1>8. Len(n.path) >= 1 /\ (~n.dir => n.sum \in Contents) /\ n.orig = NoPath
  BY <1>2
<1> QED
  BY <1>5, <1>6, <1>7, <1>8 DEF RowsInv, n

LEMMA AddStreamInv ==
  ASSUME NEW s, StoreInv(s), NEW p \in Path, Len(p) >= 1,
         NEW c \in Contents, NEW node \in Nodes
  PROVE  StoreInv(AddStream(s, p, c, node))
<1>1. DiskInv(WriteFile(s.disk, p, c))
  BY WriteFileDisk DEF StoreInv
<1>2. DiskInv(RemoveFileOn(WriteFile(s.disk, p, c), p))
  BY <1>1 DEF DiskInv, RemoveFileOn
<1>3. ~HasKey(s, p) => RowsInv(s.rows \cup {NewRow(p, FALSE, c, node)})
  BY InsertRow
<1> QED
  BY <1>1, <1>2, <1>3, StoreUpdates DEF AddStream

LEMMA AddBytesInv ==
  ASSUME NEW s, StoreInv(s), NEW p \in Path, Len(p) >= 1,
         NEW c \in Contents, NEW node \in Nodes
  PROVE  StoreInv(AddBytes(s, p, c, node))
<1>1. DiskInv(WriteFile(s.disk, p, c)) /\ DiskInv(s.disk)
  BY WriteFileDisk DEF StoreInv
<1>2. ~HasKey(s, p) => RowsInv(s.rows \cup {NewRow(p, FALSE, c, node)})
  BY InsertRow
<1> QED
  BY <1>1, <1>2, StoreUpdates DEF AddBytes

LEMMA AddFolderInv ==
  ASSUME NEW s, StoreInv(s), NEW p \in Path, Len(p) >= 1, NEW node \in Nodes
  PROVE  StoreInv(AddFolder(s, p, node))
<1>1. [path |-> p, data |-> DIR] \in EntryType
  BY DEF EntryType
<1>2. DiskInv(MakeParents(s.disk, p) \cup {[path |-> p, data |-> DIR]}) /\ DiskInv(s.disk)
  BY <1>1, MakeParentsDisk DEF StoreInv, DiskInv
<1>3. ~HasKey(s, p) => RowsInv(s.rows \cup {NewRow(p, TRUE, NoSum, node)})
  BY InsertRow
<1> QED
  BY <1>2, <1>3, StoreUpdates DEF AddFolder

----------------------------------------------------------------------------
(* _relocate_subtree.                                                      *)

\* What the UPDATEs leave in a row.
LEMMA MovedRowFields ==
  ASSUME NEW old \in Path, NEW new \in Path, Len(new) >= 1, NEW dir \in BOOLEAN,
         NEW r \in RowType, Len(r.path) >= 1
  PROVE  /\ MovedRow(old, new, dir, r) \in RowType
         /\ MovedRow(old, new, dir, r).path = MovedPath(old, new, dir, r.path)
         /\ MovedRow(old, new, dir, r).dir = r.dir
         /\ MovedRow(old, new, dir, r).sum = r.sum
         /\ MovedRow(old, new, dir, r).deleted = r.deleted
         /\ MovedRow(old, new, dir, r).orig = r.orig
         /\ Len(MovedRow(old, new, dir, r).path) >= 1
<1> DEFINE home == IF r.path = old
                   THEN [r EXCEPT !.path = new, !.name = NameOf(new), !.parent = ParentOf(new)]
                   ELSE r
           w == Rebase(old, new, home.path)
           v == Rebase(old, new, home.parent)
           away == [home EXCEPT !.path = w, !.parent = v]
<1>1. NameOf(new) \in Segments /\ ParentOf(new) \in Path
  BY ParentPath, NamePath
<1>2. /\ home \in RowType
      /\ home.path = IF r.path = old THEN new ELSE r.path
      /\ home.dir = r.dir /\ home.sum = r.sum /\ home.deleted = r.deleted /\ home.orig = r.orig
  BY <1>1 DEF RowType
<1>3. home.path \in Path /\ home.parent \in Path /\ Len(home.path) >= 1
  BY <1>2 DEF RowType
<1>4. w \in Path /\ v \in Path /\ Len(w) >= 1
  BY <1>3, RebasePath
<1> HIDE DEF home, w, v
<1>5. /\ away \in RowType /\ away.path = w
      /\ away.dir = r.dir /\ away.sum = r.sum /\ away.deleted = r.deleted /\ away.orig = r.orig
  BY <1>2, <1>4 DEF RowType
<1>6. MovedRow(old, new, dir, r) = IF dir /\ LikeBelow(old, home.path) THEN away ELSE home
  BY DEF MovedRow, home, w, v
<1>7. MovedPath(old, new, dir, r.path) = IF dir /\ LikeBelow(old, home.path) THEN w ELSE home.path
  BY <1>2 DEF MovedPath, w
<1> QED
  BY <1>2, <1>3, <1>4, <1>5, <1>6, <1>7

LEMMA RelocateRowsInv ==
  ASSUME NEW rows, RowsInv(rows), NEW old \in Path, NEW new \in Path, Len(new) >= 1,
         NEW dir \in BOOLEAN, ~KeyClash(rows, old, new, dir)
  PROVE  RowsInv(RelocateRows(rows, old, new, dir))
<1> DEFINE f(r) == MovedRow(old, new, dir, r)
<1>1. \A r \in rows : r \in RowType /\ Len(r.path) >= 1
  BY DEF RowsInv
<1>2. \A r \in rows : /\ f(r) \in RowType
                      /\ f(r).path = MovedPath(old, new, dir, r.path)
                      /\ f(r).dir = r.dir /\ f(r).sum = r.sum /\ f(r).orig = r.orig
                      /\ Len(f(r).path) >= 1
  BY <1>1, MovedRowFields
<1> HIDE DEF f
<1>3. RelocateRows(rows, old, new, dir) = {f(r) : r \in rows}
  BY DEF RelocateRows, f
<1>4. \A r, t \in rows : f(r).path = f(t).path => r = t
  BY <1>2 DEF KeyClash
<1>5. KeysUnique({f(r) : r \in rows})
  BY <1>4 DEF KeysUnique
<1>6. {f(r) : r \in rows} \subseteq RowType
  BY <1>2
<1>7. \A t \in {f(r) : r \in rows} : /\ Len(t.path) >= 1
                                     /\ ~t.dir => t.sum \in Contents
                                     /\ t.orig # NoPath => Len(t.orig) >= 1
  BY <1>2 DEF RowsInv
<1> QED
  BY <1>3, <1>5, <1>6, <1>7 DEF RowsInv

LEMMA RelocateVersionsInv ==
  ASSUME NEW versions, VersionsInv(versions), NEW old \in Path, NEW new \in Path,
         Len(new) >= 1, NEW dir \in BOOLEAN
  PROVE  VersionsInv(RelocateVersions(versions, old, new, dir))
<1> DEFINE f == [v \in versions |-> [v EXCEPT !.path = MovedPath(old, new, dir, v.path)]]
<1>1. \A q \in Path : MovedPath(old, new, dir, q) \in Path
  BY RebasePath DEF MovedPath
<1>2. \A v \in VersionType : [v EXCEPT !.path = MovedPath(old, new, dir, v.path)] \in VersionType
  BY <1>1 DEF VersionType
<1>3. {f[v] : v \in DOMAIN f} = RelocateVersions(versions, old, new, dir)
  BY DEF RelocateVersions
<1>4. IsFiniteSet({f[v] : v \in DOMAIN f})
  BY ImageFinite DEF VersionsInv
<1> QED
  BY <1>2, <1>3, <1>4 DEF VersionsInv, RelocateVersions

LEMMA RelocateInv ==
  ASSUME NEW s, StoreInv(s), NEW old \in Path, NEW new \in Path, Len(new) >= 1,
         NEW dir \in BOOLEAN, ~RelocateFails(s, old, new, dir)
  PROVE  StoreInv(Relocate(s, old, new, dir))
<1> DEFINE a == RelocateRows(s.rows, old, new, dir)
           b == RelocateVersions(s.versions, old, new, dir)
           c == RenameOn(s.disk, old, new)
<1>1. RowsInv(s.rows) /\ VersionsInv(s.versions) /\ DiskInv(s.disk)
  BY DEF StoreInv
<1>2. RowsInv(a) /\ VersionsInv(b) /\ DiskInv(c)
  BY <1>1, RelocateRowsInv, RelocateVersionsInv, RenameOnDisk DEF RelocateFails
<1>3. Relocate(s, old, new, dir) = [rows |-> a, versions |-> b, disk |-> c]
  BY DEF Relocate
<1> HIDE DEF a, b, c
<1> QED
  BY <1>2, <1>3 DEF StoreInv, StoreType, RowsInv, VersionsInv, DiskInv

----------------------------------------------------------------------------
(* The trash and the remaining UPDATEs: the keys do not change.            *)

LEMMA StampedInv ==
  ASSUME NEW rows, RowsInv(rows), NEW p, NEW orig \in Path, Len(orig) >= 1
  PROVE  RowsInv(Stamped(rows, p, orig))
<1> DEFINE f(r) == IF Covers(p, r.path)
                   THEN [r EXCEPT !.deleted = TRUE, !.orig = IF r.path = p THEN orig ELSE r.orig]
                   ELSE r
<1>1. \A r \in RowType : /\ f(r) \in RowType /\ f(r).path = r.path
                         /\ f(r).dir = r.dir /\ f(r).sum = r.sum
                         /\ f(r).orig \in {orig, r.orig}
  BY DEF RowType
<1>2. Stamped(rows, p, orig) = {f(r) : r \in rows}
  BY DEF Stamped
<1> HIDE DEF f
<1> QED
  BY <1>1, <1>2 DEF RowsInv, KeysUnique

LEMMA UnstampedInv ==
  ASSUME NEW rows, RowsInv(rows), NEW p
  PROVE  RowsInv(Unstamped(rows, p))
<1> DEFINE f(r) == IF Covers(p, r.path)
                   THEN [r EXCEPT !.deleted = FALSE, !.orig = NoPath] ELSE r
<1>1. \A r \in RowType : /\ f(r) \in RowType /\ f(r).path = r.path
                         /\ f(r).dir = r.dir /\ f(r).sum = r.sum
                         /\ f(r).orig \in {NoPath, r.orig}
  BY DEF RowType
<1>2. Unstamped(rows, p) = {f(r) : r \in rows}
  BY DEF Unstamped
<1> HIDE DEF f
<1> QED
  BY <1>1, <1>2 DEF RowsInv, KeysUnique

LEMMA PurgedInv ==
  ASSUME NEW s, StoreInv(s), NEW roots
  PROVE  StoreInv(Purged(s, roots))
<1> DEFINE a == {r \in s.rows : ~CoveredBy(roots, r.path)}
           drop == {v \in s.versions : CoveredBy(roots, v.path)}
           b == s.versions \ drop
           c == {e \in s.disk : /\ \A v \in drop : e.path # Blob(v.ref)
                                /\ \A t \in roots : /\ e.path # t.path
                                                    /\ ~(t.dir /\ Below(t.path, e.path))}
<1>1. RowsInv(a)
  BY DEF StoreInv, RowsInv, KeysUnique
<1>2. VersionsInv(b)
  BY FS_Subset DEF StoreInv, VersionsInv
<1>3. DiskInv(c)
  BY DEF StoreInv, DiskInv
<1>4. Purged(s, roots) = [rows |-> a, versions |-> b, disk |-> c]
  BY DEF Purged
<1> HIDE DEF a, b, c
<1> QED
  BY <1>1, <1>2, <1>3, <1>4 DEF StoreInv, StoreType, RowsInv, VersionsInv, DiskInv

LEMMA ChecksumUpdated ==
  ASSUME NEW rows, RowsInv(rows), NEW p, NEW sum \in Contents
  PROVE  RowsInv(Rehashed(rows, p, sum))
<1> DEFINE f(r) == IF r.path = p THEN [r EXCEPT !.sum = sum] ELSE r
<1>1. \A r \in RowType : /\ f(r) \in RowType /\ f(r).path = r.path
                         /\ f(r).dir = r.dir /\ f(r).sum \in {sum, r.sum}
                         /\ f(r).orig = r.orig
  BY DEF RowType
<1> HIDE DEF f
<1>2. RowsInv({f(r) : r \in rows})
  BY <1>1 DEF RowsInv, KeysUnique
<1> QED
  BY <1>2 DEF f, Rehashed

LEMMA FavoriteUpdated ==
  ASSUME NEW rows, RowsInv(rows), NEW p, NEW b \in BOOLEAN
  PROVE  RowsInv(Starred(rows, p, b))
<1> DEFINE f(r) == IF r.path = p THEN [r EXCEPT !.fav = b] ELSE r
<1>1. \A r \in RowType : /\ f(r) \in RowType /\ f(r).path = r.path
                         /\ f(r).dir = r.dir /\ f(r).sum = r.sum /\ f(r).orig = r.orig
  BY DEF RowType
<1> HIDE DEF f
<1>2. RowsInv({f(r) : r \in rows})
  BY <1>1 DEF RowsInv, KeysUnique
<1> QED
  BY <1>2 DEF f, Starred

LEMMA SoftDeleteInv ==
  ASSUME NEW s, StoreInv(s), NEW p, Live(s, p), NEW id \in Segments,
         ~RelocateFails(s, p, TrashPath(id, RowAt(s, p).name), RowAt(s, p).dir)
  PROVE  StoreInv(SoftDelete(s, p, id))
<1> DEFINE r == RowAt(s, p)
           t == TrashPath(id, r.name)
           moved == Relocate(s, p, t, r.dir)
<1>1. r \in RowType /\ p \in Path /\ Len(p) >= 1
  BY RowAtLive DEF StoreInv, RowsInv
<1>2. t \in Path /\ Len(t) = 3 /\ r.dir \in BOOLEAN
  BY <1>1, StorageAssumption DEF RowType, TrashPath, Path
<1> HIDE DEF t, r
<1>3. StoreInv(moved)
  BY <1>1, <1>2, RelocateInv DEF t, r
<1> DEFINE rows == Stamped(moved.rows, t, p)
<1> HIDE DEF moved
<1>4. RowsInv(rows)
  BY <1>1, <1>3, StampedInv DEF StoreInv
<1>5. SoftDelete(s, p, id) = [moved EXCEPT !.rows = rows]
  BY DEF SoftDelete, moved, t, r
<1> HIDE DEF rows
<1>6. StoreInv([moved EXCEPT !.rows = rows])
  BY <1>3, <1>4, StoreUpdates
<1> QED
  BY <1>5, <1>6

LEMMA RestoredInv ==
  ASSUME NEW s, StoreInv(s), NEW root \in TrashRoots(s),
         ~RelocateFails(s, root.path, root.orig, root.dir)
  PROVE  StoreInv(Restored(s, root))
<1> DEFINE moved == Relocate(s, root.path, root.orig, root.dir)
<1>1. /\ root.path \in Path /\ root.dir \in BOOLEAN
      /\ root.orig \in Path /\ Len(root.orig) >= 1
  BY DEF TrashRoots, StoreInv, RowsInv, RowType
<1>2. StoreInv(moved)
  BY <1>1, RelocateInv
<1> DEFINE rows == Unstamped(moved.rows, root.orig)
<1> HIDE DEF moved
<1>3. RowsInv(rows)
  BY <1>2, UnstampedInv DEF StoreInv
<1>4. Restored(s, root) = [moved EXCEPT !.rows = rows]
  BY DEF Restored, moved
<1> HIDE DEF rows
<1>5. StoreInv([moved EXCEPT !.rows = rows])
  BY <1>2, <1>3, StoreUpdates
<1> QED
  BY <1>4, <1>5

LEMMA RolledBackInv ==
  ASSUME NEW s, StoreInv(s), NEW p \in Path, Len(p) >= 1, NEW v \in VersionType,
         FileOn(s.disk, Blob(v.ref)) # {}
  PROVE  StoreInv(RolledBack(s, p, v))
<1> DEFINE data == (CHOOSE e \in FileOn(s.disk, Blob(v.ref)) : TRUE).data
           a == Rehashed(s.rows, p, v.sum)
           b == WriteFile(s.disk, p, data)
<1>1. data \in Contents
  BY DEF FileOn, StoreInv, DiskInv, EntryType
<1> HIDE DEF data
<1>2. DiskInv(b)
  BY <1>1, WriteFileDisk DEF StoreInv
<1>3. v.sum \in Contents
  BY DEF VersionType
<1>4. RowsInv(a)
  BY <1>3, ChecksumUpdated DEF StoreInv
<1>5. RolledBack(s, p, v) = [s EXCEPT !.disk = b, !.rows = a]
  BY DEF RolledBack, data
<1> HIDE DEF a, b
<1>6. StoreInv([s EXCEPT !.disk = b, !.rows = a])
  BY <1>2, <1>4, StoreUpdates
<1> QED
  BY <1>5, <1>6

----------------------------------------------------------------------------
(* The actions.                                                            *)

\* What the handlers reject first: p names a live entry, parent a folder.
LEMMA FolderPath ==
  ASSUME NEW s, StoreInv(s), NEW p, IsFolder(s, p)
  PROVE  p \in Path
<1>1. Root \in Path
  BY DEF Root, Path
<1>2. \A r \in s.rows : r.path \in Path
  BY DEF StoreInv, RowsInv, RowType
<1> QED
  BY <1>1, <1>2 DEF IsFolder

IInv == StoreInv(store)

LEMMA StoreInvInit == Init => IInv
  BY FS_EmptySet
     DEF IInv, Init, EmptyStore, StoreInv, StoreType, RowsInv, KeysUnique, VersionsInv, DiskInv

LEMMA StoreInvStep == IInv /\ [Next]_vars => IInv'
<1> SUFFICES ASSUME StoreInv(store), [Next]_vars PROVE StoreInv(store')
  BY DEF IInv
<1>1. \A s : StoreInv(s) /\ Become(s) => StoreInv(store')
  BY DEF Become
<1>2. \A p : p \in Folders => IsFolder(store, p) /\ p \in Path
  BY FolderPath DEF Folders, IsFolder
<1>3. ASSUME NEW parent \in Folders, NEW name \in Names, NEW c \in Contents,
             NEW n \in Nodes, Upload(parent, name, c, n)
      PROVE  StoreInv(store')
  <2> DEFINE p == Child(parent, name)
  <2>1. p \in Path /\ Len(p) >= 1
    BY <1>2, ChildPath, PathElement, FilesystemAssumption
  <2> HIDE DEF p
  <2>2. StoreInv(AddStream(store, p, c, n))
    BY <2>1, AddStreamInv
  <2> QED
    BY <1>1, <1>3, <2>2 DEF Upload, p
<1>4. ASSUME NEW p, NEW ref \in Refs, IsFile(store, p)
      PROVE  /\ p \in Path /\ Len(p) >= 1 /\ RowAt(store, p).node \in Nodes
             /\ StoreInv(Overwritten(store, p, ref))
  <2>1. Live(store, p)
    BY <1>4 DEF IsFile, Live
  <2>2. RowAt(store, p) \in RowType
    BY <2>1, RowAtLive DEF StoreInv, RowsInv
  <2>3. StoreInv(Overwritten(store, p, ref))
    BY SnapshotInv, RemoveFileInv DEF Overwritten
  <2> QED
    BY <2>1, <2>2, <2>3, RowAtLive DEF RowType
<1>5. ASSUME NEW p \in LivePaths, NEW c \in Contents, NEW ref \in Refs, UploadOver(p, c, ref)
      PROVE  StoreInv(store')
  BY <1>1, <1>4, <1>5, AddStreamInv DEF UploadOver
<1>6. ASSUME NEW p \in LivePaths, NEW c \in Contents, NEW ref \in Refs, SaveContent(p, c, ref)
      PROVE  StoreInv(store')
  BY <1>1, <1>4, <1>6, AddBytesInv DEF SaveContent
<1>7. ASSUME NEW parent \in Folders, NEW name \in Names, NEW n \in Nodes,
             CreateFolder(parent, name, n)
      PROVE  StoreInv(store')
  <2> DEFINE p == Child(parent, name)
  <2>1. p \in Path /\ Len(p) >= 1
    BY <1>2, ChildPath, PathElement, FilesystemAssumption
  <2> HIDE DEF p
  <2>2. StoreInv(AddFolder(store, p, n))
    BY <2>1, AddFolderInv
  <2> QED
    BY <1>1, <1>7, <2>2 DEF CreateFolder, p
<1>8. ASSUME NEW p, NEW parent \in Path, NEW name \in Segments, Live(store, p),
             CanRelocate(p, Child(parent, name)), Become(Relocated(p, Child(parent, name)))
      PROVE  StoreInv(store')
  <2> DEFINE q == Child(parent, name)
  <2>1. q \in Path /\ Len(q) >= 1
    BY ChildPath, PathElement
  <2>2. p \in Path /\ RowAt(store, p).dir \in BOOLEAN
    BY <1>8, RowAtLive DEF StoreInv, RowsInv, RowType
  <2> HIDE DEF q
  <2>3. CanRelocate(p, q) /\ Become(Relocated(p, q))
    BY <1>8 DEF q
  <2>4. StoreInv(Relocated(p, q))
    BY <2>1, <2>2, <2>3, RelocateInv DEF CanRelocate, Relocated
  <2> QED
    BY <1>1, <2>3, <2>4
<1>9. ASSUME NEW p \in LivePaths, NEW name \in Names, Rename(p, name)
      PROVE  StoreInv(store')
  <2>1. Live(store, p) /\ p \in Path
    BY <1>9, RowAtLive DEF Rename
  <2>2. ParentOf(p) \in Path /\ name \in Segments
    BY <2>1, ParentPath, FilesystemAssumption
  <2> QED
    BY <1>8, <1>9, <2>1, <2>2 DEF Rename
<1>10. ASSUME NEW p \in LivePaths, NEW parent \in Folders, Move(p, parent)
       PROVE  StoreInv(store')
  <2>1. Live(store, p) /\ RowAt(store, p).name \in Segments
    BY <1>10, RowAtLive DEF Move, StoreInv, RowsInv, RowType
  <2> QED
    BY <1>2, <1>8, <1>10, <2>1 DEF Move
<1>11. ASSUME NEW p \in LivePaths, NEW id \in TrashIds, Delete(p, id)
       PROVE  StoreInv(store')
  <2>1. id \in Segments
    BY FilesystemAssumption
  <2> QED
    BY <1>1, <1>11, <2>1, SoftDeleteInv DEF Delete, CanRelocate
<1>12. ASSUME NEW root \in TrashRoots(store), Restore(root)
       PROVE  StoreInv(store')
  BY <1>1, <1>12, RestoredInv DEF Restore
<1>13. ASSUME NEW root \in TrashRoots(store), Purge(root)
       PROVE  StoreInv(store')
  BY <1>1, <1>13, PurgedInv DEF Purge
<1>14. CASE EmptyTrash
  BY <1>1, <1>14, PurgedInv DEF EmptyTrash
<1>15. ASSUME NEW p \in LivePaths, NEW v \in store.versions, NEW ref \in Refs,
              RestoreVersion(p, v, ref)
       PROVE  StoreInv(store')
  <2> DEFINE s == Snapshot(store, p, ref)
  <2>1. StoreInv(s) /\ p \in Path /\ Len(p) >= 1
    BY <1>4, <1>15, SnapshotInv DEF RestoreVersion
  <2>2. v \in VersionType
    BY DEF StoreInv, VersionsInv
  <2>3. FileOn(s.disk, Blob(v.ref)) # {}
    <3>1. store \in [rows : SUBSET RowType, versions : SUBSET VersionType, disk : SUBSET EntryType]
      BY DEF StoreInv, StoreType
    <3>2. store.disk \subseteq s.disk
      BY <3>1 DEF Snapshot
    <3> QED
      BY <1>15, <3>2 DEF RestoreVersion, FileOn
  <2> HIDE DEF s
  <2>4. StoreInv(RolledBack(s, p, v))
    BY <2>1, <2>2, <2>3, RolledBackInv
  <2> QED
    BY <1>1, <1>15, <2>4 DEF RestoreVersion, s
<1>16. ASSUME NEW p \in LivePaths, NEW b \in BOOLEAN, SetFavorite(p, b)
       PROVE  StoreInv(store')
  <2> DEFINE rows == Starred(store.rows, p, b)
  <2>1. RowsInv(rows)
    BY FavoriteUpdated DEF StoreInv
  <2> HIDE DEF rows
  <2>2. StoreInv([store EXCEPT !.rows = rows])
    BY <2>1, StoreUpdates
  <2> QED
    BY <1>1, <1>16, <2>2 DEF SetFavorite, rows
<1>17. CASE UNCHANGED vars
  BY <1>17 DEF vars
<1> QED
  BY <1>3, <1>5, <1>6, <1>7, <1>9, <1>10, <1>11, <1>12, <1>13, <1>14, <1>15, <1>16, <1>17
     DEF Next

LEMMA StoreInvAlways == Spec => []IInv
  BY StoreInvInit, StoreInvStep, PTL DEF Spec

(* The tables and the disk keep their types, whatever the names, the LIKE  *)
(* relation and the bounds are.                                            *)
THEOREM TypeCorrect == Spec => []TypeOK
<1>1. IInv => TypeOK
  BY DEF IInv, StoreInv, RowsInv, VersionsInv, DiskInv, TypeOK
<1> QED
  BY <1>1, StoreInvAlways, PTL

(* PRIMARY KEY (owner_id, path): no handler ever leaves two rows at one    *)
(* path, and every file row carries a checksum (verify, snapshots and the  *)
(* version history compare against it).                                    *)
THEOREM KeysStayUnique ==
  Spec => [](KeysUnique(store.rows) /\ \A r \in store.rows : ~r.dir => r.sum \in Contents)
<1>1. IInv => KeysUnique(store.rows) /\ \A r \in store.rows : ~r.dir => r.sum \in Contents
  BY DEF IInv, StoreInv, RowsInv
<1> QED
  BY <1>1, StoreInvAlways, PTL

----------------------------------------------------------------------------
(***************************************************************************)
(* TrashConsistent is an invariant, provided that LIKE tells segments      *)
(* apart and that no user calls an entry ".trash".  MCFilesystem shows     *)
(* what happens without either proviso.                                    *)
(*                                                                         *)
(* It becomes inductive with two more facts: the original path of a trash  *)
(* root does not itself start in the trash, so that a restore brings a     *)
(* tree back to the live side; and no row is called ".trash", nor will be  *)
(* by a restore, so that no move to "/" makes one.  The argument is about  *)
(* first segments: an exact LIKE selects rows that share the first segment *)
(* of the folder, and a relocation gives exactly those the first segment   *)
(* of the new place.  TreeClosed is proved from it at the end.             *)
(***************************************************************************)

TrashInv(rows) ==
  \A r \in rows :
    /\ r.deleted <=> r.path[1] = TRASH
    /\ r.orig # NoPath <=> (r.deleted /\ Len(r.path) = 3)
    /\ r.orig # NoPath => r.orig[1] # TRASH

NamesInv(rows) ==
  \A r \in rows : /\ r.name # TRASH /\ NameOf(r.path) # TRASH
                  /\ r.orig # NoPath => NameOf(r.orig) # TRASH

----------------------------------------------------------------------------
(* First segments.                                                         *)

LEMMA CoveredFirst ==
  ASSUME LikeIsExact, NEW p \in Path, Len(p) >= 1, NEW q \in Path, Covers(p, q)
  PROVE  q[1] = p[1]
<1>1. CASE q = p
  BY <1>1
<1>2. CASE LikeBelow(p, q)
  <2>1. 1 \in 1 .. Len(p) /\ 1 \in 1 .. Len(q) /\ <<p[1], q[1]>> \in Like
    BY <1>2, PathElement DEF LikeBelow
  <2>2. p[1] \in Segments /\ q[1] \in Segments
    BY <2>1, PathElement
  <2> QED
    BY <2>1, <2>2 DEF LikeIsExact
<1> QED
  BY <1>1, <1>2 DEF Covers

\* A path stays as it is, or it was covered and starts as the new one does.
LEMMA MovedFirst ==
  ASSUME NEW old \in Path, NEW new \in Path, Len(new) >= 1,
         NEW dir \in BOOLEAN, NEW p \in Path
  PROVE  \/ MovedPath(old, new, dir, p) = p
         \/ Covers(old, p) /\ MovedPath(old, new, dir, p)[1] = new[1]
<1>1. /\ 1 \in 1 .. Len(new)
      /\ Rebase(old, new, p)[1] = new[1] /\ Rebase(old, new, new)[1] = new[1]
  BY RebasePath, PathElement
<1> QED
  BY <1>1 DEF MovedPath, Covers

----------------------------------------------------------------------------
(* A rename or a move on the live side.                                    *)

LEMMA RelocateLive ==
  ASSUME LikeIsExact, NEW rows, RowsInv(rows), TrashInv(rows),
         NEW old \in Path, Len(old) >= 1, NEW new \in Path, Len(new) >= 1,
         NEW dir \in BOOLEAN, old[1] # TRASH, new[1] # TRASH
  PROVE  TrashInv(RelocateRows(rows, old, new, dir))
<1> DEFINE f(r) == MovedRow(old, new, dir, r)
<1>1. \A r \in rows : /\ r.path \in Path
                      /\ f(r).path = MovedPath(old, new, dir, r.path)
                      /\ f(r).deleted = r.deleted /\ f(r).orig = r.orig
  BY MovedRowFields DEF RowsInv, RowType
<1> HIDE DEF f
<1>2. ASSUME NEW r \in rows
      PROVE  /\ f(r).deleted <=> f(r).path[1] = TRASH
             /\ f(r).orig # NoPath <=> (f(r).deleted /\ Len(f(r).path) = 3)
             /\ f(r).orig # NoPath => f(r).orig[1] # TRASH
  <2>1. CASE f(r).path = r.path
    BY <1>1, <2>1 DEF TrashInv
  <2>2. CASE f(r).path # r.path
    <3>1. Covers(old, r.path) /\ f(r).path[1] = new[1]
      BY <1>1, <2>2, MovedFirst
    <3>2. r.path[1] = old[1]
      BY <1>1, <3>1, CoveredFirst
    <3>3. ~r.deleted /\ r.orig = NoPath
      BY <3>2 DEF TrashInv
    <3> QED
      BY <1>1, <3>1, <3>3
  <2> QED
    BY <2>1, <2>2
<1>3. RelocateRows(rows, old, new, dir) = {f(r) : r \in rows}
  BY DEF RelocateRows, f
<1> QED
  BY <1>2, <1>3 DEF TrashInv

----------------------------------------------------------------------------
(* soft_delete.  A row the move takes along was live and now lies under    *)
(* the fresh trash id, where the second UPDATE stamps it; no other row     *)
(* lies there.                                                             *)

NothingUnder(rows, id) == \A r \in rows : ~Below(<<TRASH, id>>, r.path)

LEMMA NothingCovered ==
  ASSUME LikeIsExact, NEW rows, RowsInv(rows), NEW id \in Segments, NEW name \in Segments,
         NothingUnder(rows, id)
  PROVE  \A r \in rows : ~Covers(TrashPath(id, name), r.path)
<1> DEFINE t == TrashPath(id, name)
<1>1. t \in Path /\ Len(t) = 3 /\ t[1] = TRASH /\ t[2] = id
  BY StorageAssumption DEF TrashPath, Path
<1> HIDE DEF t
<1>2. \A r \in rows : r.path \in Path
  BY DEF RowsInv, RowType
<1>3. \A r \in rows : ~Covers(t, r.path)
  <2> SUFFICES ASSUME NEW r \in rows, Covers(t, r.path) PROVE FALSE
    OBVIOUS
  <2>1. Len(r.path) >= 3 /\ r.path[1] = TRASH /\ r.path[2] = id
    <3>1. CASE r.path = t
      BY <1>1, <3>1, SMTT(30)
    <3>2. CASE LikeBelow(t, r.path)
      <4>1. Len(r.path) > 3 /\ \A i \in 1 .. 3 : <<t[i], r.path[i]>> \in Like
        BY <1>1, <3>2 DEF LikeBelow
      <4>2. \A i \in 1 .. 3 : t[i] \in Segments
        BY <1>1, PathElement
      <4>3. \A i \in 1 .. Len(r.path) : r.path[i] \in Segments
        BY <1>2, PathElement
      <4>4. \A i \in 1 .. 3 : r.path[i] = t[i]
        BY <1>2, <4>1, <4>2, <4>3, PathElement DEF LikeIsExact
      <4> QED
        BY <1>1, <4>1, <4>4
    <3> QED
      BY <3>1, <3>2 DEF Covers
  <2>2. <<TRASH, id>> \in Path /\ Len(<<TRASH, id>>) = 2
    BY StorageAssumption DEF Path
  <2>3. LikeBelow(<<TRASH, id>>, r.path)
    BY <2>1, <2>2, StorageAssumption, LikeAssumption DEF LikeBelow
  <2>4. Below(<<TRASH, id>>, r.path)
    BY <1>2, <2>2, <2>3, ExactLikeBelow
  <2> QED
    BY <2>4 DEF NothingUnder
<1> QED
  BY <1>3 DEF t

LEMMA SoftDeleteTrash ==
  ASSUME LikeIsExact, NEW rows, RowsInv(rows), TrashInv(rows),
         NEW p \in Path, Len(p) >= 1, p[1] # TRASH,
         NEW id \in Segments, NEW name \in Segments, NEW dir \in BOOLEAN,
         NothingUnder(rows, id)
  PROVE  TrashInv(Stamped(RelocateRows(rows, p, TrashPath(id, name), dir), TrashPath(id, name), p))
<1> DEFINE t == TrashPath(id, name)
           f(r) == MovedRow(p, t, dir, r)
           g(r) == IF Covers(t, r.path)
                   THEN [r EXCEPT !.deleted = TRUE, !.orig = IF r.path = t THEN p ELSE r.orig]
                   ELSE r
<1>1. t \in Path /\ Len(t) = 3 /\ t[1] = TRASH /\ t[2] = id
  BY StorageAssumption DEF TrashPath, Path
<1> HIDE DEF t, f
<1>2. \A r \in rows : /\ r.path \in Path /\ Len(r.path) >= 1
                      /\ f(r) \in RowType
                      /\ f(r).path = MovedPath(p, t, dir, r.path)
                      /\ f(r).deleted = r.deleted /\ f(r).orig = r.orig
  <2>0. \A r \in RowType : r.path \in Path
    BY DEF RowType
  <2>1. \A r \in rows : r \in RowType /\ r.path \in Path /\ Len(r.path) >= 1
    <3>1. rows \subseteq RowType
      BY DEF RowsInv
    <3>2. \A r \in rows : Len(r.path) >= 1
      BY DEF RowsInv
    <3> QED
      BY <2>0, <3>1, <3>2
  <2>2. \A r \in rows : /\ f(r) \in RowType
                        /\ f(r).path = MovedPath(p, t, dir, r.path)
                        /\ f(r).deleted = r.deleted /\ f(r).orig = r.orig
    <3>1. t \in Path /\ Len(t) >= 1
      BY <1>1
    <3> QED
      BY <2>1, <3>1, MovedRowFields DEF f
  <2> QED
    BY <2>1, <2>2
<1>3. \A r \in RowType : /\ g(r).path = r.path
                         /\ g(r).deleted <=> Covers(t, r.path) \/ r.deleted
                         /\ g(r).orig = IF r.path = t THEN p ELSE r.orig
  BY DEF RowType, Covers
<1> HIDE DEF g
<1>10. \A r \in rows : /\ g(f(r)).path = f(r).path
                       /\ g(f(r)).deleted <=> Covers(t, f(r).path) \/ r.deleted
                       /\ g(f(r)).orig = IF f(r).path = t THEN p ELSE r.orig
  BY <1>2, <1>3
<1>4. \A r \in rows : ~Covers(t, r.path)
  BY NothingCovered DEF t
<1>5. ASSUME NEW r \in rows
      PROVE  /\ g(f(r)).deleted <=> g(f(r)).path[1] = TRASH
             /\ g(f(r)).orig # NoPath <=> (g(f(r)).deleted /\ Len(g(f(r)).path) = 3)
             /\ g(f(r)).orig # NoPath => g(f(r)).orig[1] # TRASH
  <2>0. p # NoPath
    BY StorageAssumption
  <2>1. CASE r.path = p
    <3>1. ~LikeBelow(p, t)
      BY <1>1, CoveredFirst DEF Covers
    <3>2. f(r).path = t
      BY <1>2, <2>1, <3>1 DEF MovedPath
    <3> QED
      BY <1>1, <1>10, <2>0, <3>2 DEF Covers
  <2>2. CASE r.path # p /\ dir /\ LikeBelow(p, r.path)
    <3>1. r.path[1] = p[1]
      BY <1>2, <2>2, CoveredFirst DEF Covers
    <3>2. r.orig = NoPath
      BY <3>1 DEF TrashInv
    <3>3. f(r).path = Rebase(p, t, r.path)
      BY <1>2, <2>2 DEF MovedPath
    <3>4. Len(p) < Len(r.path)
      BY <2>2 DEF LikeBelow
    <3>5. LikeBelow(t, f(r).path)
      BY <1>1, <1>2, <3>3, <3>4, RebaseCovered
    <3>6. Len(f(r).path) \in Int /\ Len(f(r).path) > 3 /\ f(r).path[1] = TRASH
      <4>1. r.path \in Path /\ Len(r.path) \in Nat /\ Len(p) \in Nat
        BY <1>2, PathElement
      <4>2. /\ Len(Rebase(p, t, r.path))
                 = Len(t) + IF Len(p) <= Len(r.path) THEN Len(r.path) - Len(p) ELSE 0
            /\ \A i \in 1 .. Len(t) : Rebase(p, t, r.path)[i] = t[i]
        BY <1>1, <4>1, RebasePath
      <4>3. Len(Rebase(p, t, r.path)) = 3 + (Len(r.path) - Len(p))
        BY <1>1, <3>4, <4>1, <4>2
      <4>4. Rebase(p, t, r.path)[1] = TRASH
        BY <1>1, <4>2
      <4> QED
        BY <3>3, <3>4, <4>1, <4>3, <4>4
    <3>7. Covers(t, f(r).path) /\ f(r).path # t /\ Len(f(r).path) # 3
      <4>1. Covers(t, f(r).path)
        BY <3>5 DEF Covers
      <4>2. \A n \in Int : n > 3 => n # 3
        OBVIOUS
      <4>3. Len(f(r).path) # 3
        BY <3>6, <4>2, Zenon
      <4> QED
        BY <1>1, <4>1, <4>3, Zenon
    <3> QED
      BY <1>10, <3>2, <3>6, <3>7, Zenon
  <2>3. CASE r.path # p /\ ~(dir /\ LikeBelow(p, r.path))
    <3>1. f(r).path = r.path
      BY <1>2, <2>3 DEF MovedPath
    <3>2. ~Covers(t, r.path) /\ r.path # t
      BY <1>4 DEF Covers
    <3>3. g(f(r)).path = r.path /\ (g(f(r)).deleted <=> r.deleted) /\ g(f(r)).orig = r.orig
      BY <1>10, <3>1, <3>2
    <3> QED
      BY <3>3 DEF TrashInv
  <2> QED
    BY <2>1, <2>2, <2>3
<1>6. RelocateRows(rows, p, t, dir) = {f(r) : r \in rows}
  BY DEF RelocateRows, f
<1>7. Stamped({f(r) : r \in rows}, t, p) = {g(x) : x \in {f(r) : r \in rows}}
  BY DEF Stamped, g
<1>8. {g(x) : x \in {f(r) : r \in rows}} = {g(f(r)) : r \in rows}
  OBVIOUS
<1>9. TrashInv({g(f(r)) : r \in rows})
  BY <1>5 DEF TrashInv
<1> QED
  BY <1>6, <1>7, <1>8, <1>9 DEF t

----------------------------------------------------------------------------
(* restore.  Every row the move takes along arrives on the live side and   *)
(* below the original path, where the second UPDATE clears its marks.      *)

LEMMA RestoredTrash ==
  ASSUME LikeIsExact, NEW rows, RowsInv(rows), TrashInv(rows),
         NEW old \in Path, Len(old) >= 1, NEW new \in Path, Len(new) >= 1,
         new[1] # TRASH, NEW dir \in BOOLEAN
  PROVE  TrashInv(Unstamped(RelocateRows(rows, old, new, dir), new))
<1> DEFINE f(r) == MovedRow(old, new, dir, r)
           g(r) == IF Covers(new, r.path)
                   THEN [r EXCEPT !.deleted = FALSE, !.orig = NoPath] ELSE r
<1>1. \A r \in rows : /\ r.path \in Path /\ Len(r.path) >= 1
                      /\ f(r) \in RowType
                      /\ f(r).path = MovedPath(old, new, dir, r.path)
                      /\ f(r).deleted = r.deleted /\ f(r).orig = r.orig
  BY MovedRowFields DEF RowsInv, RowType
<1>2. \A r \in RowType : /\ g(r).path = r.path
                         /\ g(r).deleted <=> ~Covers(new, r.path) /\ r.deleted
                         /\ g(r).orig = IF Covers(new, r.path) THEN NoPath ELSE r.orig
  BY DEF RowType
<1> HIDE DEF f, g
<1>8. \A r \in rows : /\ g(f(r)).path = f(r).path
                      /\ g(f(r)).deleted <=> ~Covers(new, f(r).path) /\ r.deleted
                      /\ g(f(r)).orig = IF Covers(new, f(r).path) THEN NoPath ELSE r.orig
  BY <1>1, <1>2
<1>3. ASSUME NEW r \in rows
      PROVE  /\ g(f(r)).deleted <=> g(f(r)).path[1] = TRASH
             /\ g(f(r)).orig # NoPath <=> (g(f(r)).deleted /\ Len(g(f(r)).path) = 3)
             /\ g(f(r)).orig # NoPath => g(f(r)).orig[1] # TRASH
  <2>0. f(r).path \in Path
    BY <1>1 DEF RowType
  <2>1. CASE Covers(new, f(r).path)
    <3>1. f(r).path[1] = new[1]
      BY <2>0, <2>1, CoveredFirst
    <3>2. g(f(r)).path = f(r).path /\ ~g(f(r)).deleted /\ g(f(r)).orig = NoPath
      BY <1>8, <2>1
    <3> QED
      BY <3>1, <3>2
  <2>2. CASE ~Covers(new, f(r).path)
    <3>1. f(r).path = r.path
      <4>1. \A q \in Path : Len(old) < Len(q) => LikeBelow(new, Rebase(old, new, q))
        BY RebaseCovered
      <4> QED
        BY <1>1, <2>2, <4>1 DEF MovedPath, Covers, LikeBelow
    <3>2. g(f(r)).path = r.path /\ (g(f(r)).deleted <=> r.deleted) /\ g(f(r)).orig = r.orig
      BY <1>8, <2>2, <3>1
    <3> QED
      BY <3>2 DEF TrashInv
  <2> QED
    BY <2>1, <2>2
<1>4. RelocateRows(rows, old, new, dir) = {f(r) : r \in rows}
  BY DEF RelocateRows, f
<1>5. Unstamped({f(r) : r \in rows}, new) = {g(x) : x \in {f(r) : r \in rows}}
  BY DEF Unstamped, g
<1>6. {g(x) : x \in {f(r) : r \in rows}} = {g(f(r)) : r \in rows}
  OBVIOUS
<1>7. TrashInv({g(f(r)) : r \in rows})
  BY <1>3 DEF TrashInv
<1> QED
  BY <1>4, <1>5, <1>6, <1>7

----------------------------------------------------------------------------
(* Last segments.                                                          *)

LEMMA MovedName ==
  ASSUME NEW old \in Path, NEW new \in Path, Len(new) >= 1,
         NEW dir \in BOOLEAN, NEW p \in Path, Len(p) >= 1
  PROVE  NameOf(MovedPath(old, new, dir, p)) \in {NameOf(new), NameOf(p)}
<1>1. ASSUME NEW q \in Path, Len(old) < Len(q)
      PROVE  NameOf(Rebase(old, new, q)) = NameOf(q)
  <2>1. Len(old) \in Nat /\ Len(new) \in Nat /\ Len(q) \in Nat
    BY PathElement
  <2>2. /\ Len(Rebase(old, new, q)) = Len(new) + (Len(q) - Len(old))
        /\ \A i \in 1 .. Len(q) - Len(old) :
             Rebase(old, new, q)[Len(new) + i] = q[Len(old) + i]
    <3>1. Len(Rebase(old, new, q))
            = Len(new) + IF Len(old) <= Len(q) THEN Len(q) - Len(old) ELSE 0
      BY RebasePath, Zenon
    <3>2. Len(Rebase(old, new, q)) = Len(new) + (Len(q) - Len(old))
      BY <1>1, <2>1, <3>1
    <3>3. \A i \in 1 .. Len(q) - Len(old) :
            Rebase(old, new, q)[Len(new) + i] = q[Len(old) + i]
      BY RebasePath, Zenon
    <3> QED
      BY <3>2, <3>3
  <2>3. Len(q) - Len(old) \in 1 .. Len(q) - Len(old) /\ Len(old) + (Len(q) - Len(old)) = Len(q)
    <3>1. \A a, b \in Nat : a < b => b - a \in 1 .. b - a /\ a + (b - a) = b
      OBVIOUS
    <3> QED
      BY <1>1, <2>1, <3>1, Zenon
  <2> QED
    BY <2>2, <2>3 DEF NameOf
<1> QED
  BY <1>1 DEF MovedPath, LikeBelow

LEMMA RelocateNames ==
  ASSUME NEW rows, RowsInv(rows), NamesInv(rows),
         NEW old \in Path, NEW new \in Path, Len(new) >= 1,
         NEW dir \in BOOLEAN, NameOf(new) # TRASH
  PROVE  NamesInv(RelocateRows(rows, old, new, dir))
<1> DEFINE f(r) == MovedRow(old, new, dir, r)
<1>1. ASSUME NEW r \in rows
      PROVE  /\ r \in RowType /\ r.path \in Path /\ Len(r.path) >= 1
  BY DEF RowsInv, RowType
<1>2. ASSUME NEW r \in rows
      PROVE  f(r).name \in {NameOf(new), r.name}
  BY <1>1 DEF MovedRow, RowType
<1>3. ASSUME NEW r \in rows
      PROVE  NameOf(f(r).path) \in {NameOf(new), NameOf(r.path)} /\ f(r).orig = r.orig
  BY <1>1, MovedRowFields, MovedName
<1>4. RelocateRows(rows, old, new, dir) = {f(r) : r \in rows}
  BY DEF RelocateRows
<1> HIDE DEF f
<1> QED
  BY <1>2, <1>3, <1>4 DEF NamesInv

LEMMA StampedNames ==
  ASSUME NEW rows, rows \subseteq RowType, NamesInv(rows), NEW p, NEW orig, NameOf(orig) # TRASH
  PROVE  NamesInv(Stamped(rows, p, orig)) /\ NamesInv(Unstamped(rows, p))
<1> DEFINE f(r) == IF Covers(p, r.path)
                   THEN [r EXCEPT !.deleted = TRUE, !.orig = IF r.path = p THEN orig ELSE r.orig]
                   ELSE r
           g(r) == IF Covers(p, r.path)
                   THEN [r EXCEPT !.deleted = FALSE, !.orig = NoPath] ELSE r
<1>1. \A r \in RowType : f(r).path = r.path /\ f(r).name = r.name /\ f(r).orig \in {orig, r.orig}
  BY DEF RowType
<1>2. \A r \in RowType : g(r).path = r.path /\ g(r).name = r.name /\ g(r).orig \in {NoPath, r.orig}
  BY DEF RowType
<1>3. Stamped(rows, p, orig) = {f(r) : r \in rows} /\ Unstamped(rows, p) = {g(r) : r \in rows}
  BY DEF Stamped, Unstamped
<1> HIDE DEF f, g
<1>4. NamesInv({f(r) : r \in rows})
  BY <1>1 DEF NamesInv
<1>5. NamesInv({g(r) : r \in rows})
  BY <1>2 DEF NamesInv
<1> QED
  BY <1>3, <1>4, <1>5

----------------------------------------------------------------------------
MarksInv(rows) == TrashInv(rows) /\ NamesInv(rows)
TrashIInv == StoreInv(store) /\ MarksInv(store.rows)

LEMMA TrashInit == Init => TrashIInv
  BY StoreInvInit DEF IInv, TrashIInv, Init, EmptyStore, MarksInv, TrashInv, NamesInv

\* Fewer rows, or rows whose path and marks are as before.
LEMMA TrashSubset ==
  ASSUME NEW rows, MarksInv(rows), NEW fewer \in SUBSET rows
  PROVE  MarksInv(fewer)
  BY DEF MarksInv, TrashInv, NamesInv

\* A row inserted on the live side.
LEMMA TrashInsert ==
  ASSUME NEW rows, MarksInv(rows), NEW p, p[1] # TRASH, NameOf(p) # TRASH,
         NEW dir, NEW sum, NEW node
  PROVE  MarksInv(rows \cup {NewRow(p, dir, sum, node)})
<1> DEFINE n == NewRow(p, dir, sum, node)
<1>1. n.path = p /\ n.name = NameOf(p) /\ n.deleted = FALSE /\ n.orig = NoPath
  BY DEF NewRow
<1> HIDE DEF n
<1>2. TrashInv(rows \cup {n})
  BY <1>1 DEF MarksInv, TrashInv
<1>3. NamesInv(rows \cup {n})
  BY <1>1 DEF MarksInv, NamesInv
<1> QED
  BY <1>2, <1>3 DEF MarksInv, n

LEMMA TrashUpdated ==
  ASSUME NEW rows, rows \subseteq RowType, MarksInv(rows), NEW p, NEW sum, NEW b
  PROVE  MarksInv(Rehashed(rows, p, sum)) /\ MarksInv(Starred(rows, p, b))
<1> DEFINE f(r) == IF r.path = p THEN [r EXCEPT !.sum = sum] ELSE r
           g(r) == IF r.path = p THEN [r EXCEPT !.fav = b] ELSE r
<1>1. \A r \in RowType : /\ f(r).path = r.path /\ f(r).name = r.name
                         /\ f(r).deleted = r.deleted /\ f(r).orig = r.orig
  BY DEF RowType
<1>2. \A r \in RowType : /\ g(r).path = r.path /\ g(r).name = r.name
                         /\ g(r).deleted = r.deleted /\ g(r).orig = r.orig
  BY DEF RowType
<1>3. Rehashed(rows, p, sum) = {f(r) : r \in rows} /\ Starred(rows, p, b) = {g(r) : r \in rows}
  BY DEF Rehashed, Starred
<1> HIDE DEF f, g
<1>4. TrashInv({f(r) : r \in rows}) /\ TrashInv({g(r) : r \in rows})
  BY <1>1, <1>2 DEF MarksInv, TrashInv
<1>5. NamesInv({f(r) : r \in rows}) /\ NamesInv({g(r) : r \in rows})
  BY <1>1, <1>2 DEF MarksInv, NamesInv
<1> QED
  BY <1>3, <1>4, <1>5 DEF MarksInv

\* What the store operators do to the rows.
LEMMA OverwrittenRows ==
  ASSUME NEW s \in StoreType, NEW p, NEW ref
  PROVE  /\ Snapshot(s, p, ref).rows = s.rows
         /\ Overwritten(s, p, ref).rows \in SUBSET s.rows
<1> DEFINE R == SUBSET RowType
           V == SUBSET VersionType
           D == SUBSET EntryType
<1>1. s \in [rows : R, versions : V, disk : D]
  BY DEF StoreType
<1> HIDE DEF R, V, D
<1>2. Snapshot(s, p, ref).rows = s.rows /\ "rows" \in DOMAIN Snapshot(s, p, ref)
  BY <1>1 DEF Snapshot
<1>3. \A u : "rows" \in DOMAIN u => RemoveFile(u, p).rows \in SUBSET u.rows
  BY DEF RemoveFile
<1> QED
  BY <1>2, <1>3 DEF Overwritten

LEMMA AddedRows ==
  ASSUME NEW s \in StoreType, NEW p, NEW c, NEW node
  PROVE  /\ AddStream(s, p, c, node).rows \in {s.rows, s.rows \cup {NewRow(p, FALSE, c, node)}}
         /\ AddBytes(s, p, c, node).rows \in {s.rows, s.rows \cup {NewRow(p, FALSE, c, node)}}
         /\ AddFolder(s, p, node).rows \in {s.rows, s.rows \cup {NewRow(p, TRUE, NoSum, node)}}
<1> DEFINE R == SUBSET RowType
           V == SUBSET VersionType
           D == SUBSET EntryType
<1>1. s \in [rows : R, versions : V, disk : D]
  BY DEF StoreType
<1> HIDE DEF R, V, D
<1>2. AddStream(s, p, c, node).rows \in {s.rows, s.rows \cup {NewRow(p, FALSE, c, node)}}
  BY <1>1 DEF AddStream
<1>3. AddBytes(s, p, c, node).rows \in {s.rows, s.rows \cup {NewRow(p, FALSE, c, node)}}
  BY <1>1 DEF AddBytes
<1>4. AddFolder(s, p, node).rows \in {s.rows, s.rows \cup {NewRow(p, TRUE, NoSum, node)}}
  BY <1>1 DEF AddFolder
<1> QED
  BY <1>2, <1>3, <1>4

\* The first and the last segment of a child.
LEMMA ChildEnds ==
  ASSUME NEW p \in Path, NEW n \in Segments, n # TRASH, p # Root => p[1] # TRASH
  PROVE  Child(p, n)[1] # TRASH /\ NameOf(Child(p, n)) # TRASH
<1>1. /\ Child(p, n) \in Path /\ Len(Child(p, n)) = Len(p) + 1
      /\ \A i \in 1 .. Len(p) : Child(p, n)[i] = p[i]
      /\ NameOf(Child(p, n)) = n
  BY ChildPath
<1>2. CASE p = Root
  <2>1. Len(Child(p, n)) = 1
    BY <1>1, <1>2 DEF Root
  <2> QED
    BY <1>1, <2>1 DEF NameOf
<1>3. CASE p # Root
  <2>1. 1 \in 1 .. Len(p)
    BY <1>3, PathElement, EmptySeq DEF Path, Root
  <2> QED
    BY <1>1, <1>3, <2>1
<1> QED
  BY <1>2, <1>3

LEMMA TrashStep ==
  ASSUME LikeIsExact, TRASH \notin Names
  PROVE  TrashIInv /\ [Next]_vars => TrashIInv'
<1> SUFFICES ASSUME StoreInv(store), MarksInv(store.rows), [Next]_vars
             PROVE  StoreInv(store') /\ MarksInv(store'.rows)
  BY DEF TrashIInv
<1>1. StoreInv(store')
  BY StoreInvStep DEF IInv
<1>2. /\ store \in StoreType /\ RowsInv(store.rows) /\ store.rows \subseteq RowType
      /\ TrashInv(store.rows) /\ NamesInv(store.rows)
  BY DEF StoreInv, RowsInv, MarksInv
<1>3. \A s : MarksInv(s.rows) /\ Become(s) => MarksInv(store'.rows)
  BY DEF Become
<1>4. ASSUME NEW p, Live(store, p)
      PROVE  /\ p \in Path /\ Len(p) >= 1 /\ p[1] # TRASH /\ NameOf(p) # TRASH
             /\ RowAt(store, p).dir \in BOOLEAN
             /\ RowAt(store, p).name \in Segments /\ RowAt(store, p).name # TRASH
  <2>1. PICK r \in store.rows : r.path = p /\ ~r.deleted
    BY <1>4 DEF Live
  <2>2. RowAt(store, p) \in store.rows /\ p \in Path /\ Len(p) >= 1
    BY <1>4, RowAtLive
  <2>3. RowAt(store, p).dir \in BOOLEAN /\ RowAt(store, p).name \in Segments
    BY <1>2, <2>2 DEF RowType
  <2>4. p[1] # TRASH /\ NameOf(p) # TRASH /\ RowAt(store, p).name # TRASH
    BY <1>2, <2>1, <2>2 DEF TrashInv, NamesInv
  <2> QED
    BY <2>2, <2>3, <2>4
<1>5. ASSUME NEW p \in Folders
      PROVE  p \in Path /\ (p # Root => p[1] # TRASH)
  <2>1. CASE p = Root
    BY <2>1, FolderPath DEF IsFolder
  <2>2. CASE p \in LivePaths
    BY <2>2, <1>4 DEF LivePaths, Live
  <2> QED
    BY <2>1, <2>2 DEF Folders
<1>6. ASSUME NEW parent \in Folders, NEW name \in Names
      PROVE  /\ Child(parent, name) \in Path /\ Len(Child(parent, name)) >= 1
             /\ Child(parent, name)[1] # TRASH /\ NameOf(Child(parent, name)) # TRASH
  <2>1. name \in Segments /\ name # TRASH
    BY FilesystemAssumption
  <2> QED
    BY <1>5, <2>1, ChildEnds, ChildPath, PathElement
<1>7. ASSUME NEW p, NEW ref \in Refs, IsFile(store, p)
      PROVE  /\ p[1] # TRASH /\ NameOf(p) # TRASH
             /\ Overwritten(store, p, ref) \in StoreType
             /\ MarksInv(Overwritten(store, p, ref).rows)
  <2>1. p[1] # TRASH /\ NameOf(p) # TRASH
    BY <1>4, <1>7 DEF IsFile, Live
  <2>2. Overwritten(store, p, ref) \in StoreType
    BY SnapshotInv, RemoveFileInv DEF Overwritten, StoreInv
  <2>3. Overwritten(store, p, ref).rows \in SUBSET store.rows
    BY <1>2, OverwrittenRows
  <2> QED
    BY <2>1, <2>2, <2>3, TrashSubset
<1>8. ASSUME NEW s \in StoreType, MarksInv(s.rows), NEW p, p[1] # TRASH, NameOf(p) # TRASH,
             NEW c, NEW node
      PROVE  /\ MarksInv(AddStream(s, p, c, node).rows)
             /\ MarksInv(AddBytes(s, p, c, node).rows)
             /\ MarksInv(AddFolder(s, p, node).rows)
  <2>1. /\ MarksInv(s.rows \cup {NewRow(p, FALSE, c, node)})
        /\ MarksInv(s.rows \cup {NewRow(p, TRUE, NoSum, node)})
    BY <1>8, TrashInsert
  <2>2. MarksInv(AddStream(s, p, c, node).rows) /\ MarksInv(AddBytes(s, p, c, node).rows)
    <3>1. /\ AddStream(s, p, c, node).rows \in {s.rows, s.rows \cup {NewRow(p, FALSE, c, node)}}
          /\ AddBytes(s, p, c, node).rows \in {s.rows, s.rows \cup {NewRow(p, FALSE, c, node)}}
      BY AddedRows, Zenon
    <3> QED
      BY <1>8, <2>1, <3>1
  <2>3. MarksInv(AddFolder(s, p, node).rows)
    <3>1. AddFolder(s, p, node).rows \in {s.rows, s.rows \cup {NewRow(p, TRUE, NoSum, node)}}
      BY AddedRows, Zenon
    <3> QED
      BY <1>8, <2>1, <3>1
  <2> QED
    BY <2>2, <2>3
<1>9. ASSUME NEW p, NEW q \in Path, Len(q) >= 1, q[1] # TRASH, NameOf(q) # TRASH, Live(store, p)
      PROVE  MarksInv(Relocated(p, q).rows)
  <2>1. Relocated(p, q).rows = RelocateRows(store.rows, p, q, RowAt(store, p).dir)
    BY DEF Relocated, Relocate
  <2> QED
    BY <1>2, <1>4, <1>9, <2>1, RelocateLive, RelocateNames DEF MarksInv
<1>10. ASSUME NEW parent \in Folders, NEW name \in Names, NEW c \in Contents,
              NEW n \in Nodes, Upload(parent, name, c, n)
       PROVE  MarksInv(store'.rows)
  BY <1>2, <1>3, <1>6, <1>8, <1>10 DEF Upload
<1>11. ASSUME NEW p \in LivePaths, NEW c \in Contents, NEW ref \in Refs, UploadOver(p, c, ref)
       PROVE  MarksInv(store'.rows)
  BY <1>3, <1>7, <1>8, <1>11 DEF UploadOver
<1>12. ASSUME NEW p \in LivePaths, NEW c \in Contents, NEW ref \in Refs, SaveContent(p, c, ref)
       PROVE  MarksInv(store'.rows)
  BY <1>3, <1>7, <1>8, <1>12 DEF SaveContent
<1>13. ASSUME NEW parent \in Folders, NEW name \in Names, NEW n \in Nodes,
              CreateFolder(parent, name, n)
       PROVE  MarksInv(store'.rows)
  BY <1>2, <1>3, <1>6, <1>8, <1>13 DEF CreateFolder
<1>14. ASSUME NEW p \in LivePaths, NEW name \in Names, Rename(p, name)
       PROVE  MarksInv(store'.rows)
  <2>1. Live(store, p) /\ name \in Segments /\ name # TRASH
    BY <1>14, FilesystemAssumption DEF Rename
  <2>2. p \in Path /\ Len(p) >= 1 /\ p[1] # TRASH
    BY <1>4, <2>1
  <2>3. /\ ParentOf(p) \in Path /\ Len(ParentOf(p)) \in Nat
        /\ Len(ParentOf(p)) = IF p = Root THEN 0 ELSE Len(p) - 1
        /\ \A i \in 1 .. Len(p) - 1 : ParentOf(p)[i] = p[i]
    BY <2>2, ParentPath, PathElement
  <2>4. ParentOf(p) # Root => ParentOf(p)[1] # TRASH
    <3>1. ParentOf(p) # Root => Len(ParentOf(p)) # 0
      BY <2>3, EmptySeq DEF Path, Root
    <3>2. Len(p) \in Nat
      BY <2>2, PathElement
    <3>3. ASSUME ParentOf(p) # Root
          PROVE  1 \in 1 .. Len(p) - 1
      <4>0. Len(ParentOf(p)) = IF p = Root THEN 0 ELSE Len(p) - 1
        BY <2>3
      <4>1. p # Root
        BY <3>1, <3>3, <4>0, Zenon
      <4>2. Len(p) - 1 # 0
        BY <3>1, <3>3, <4>0, <4>1, Zenon
      <4>3. Len(p) >= 1
        BY <2>2
      <4>4. \A n \in Nat : n >= 1 /\ n - 1 # 0 => 1 \in 1 .. n - 1
        OBVIOUS
      <4> QED
        BY <3>2, <4>2, <4>3, <4>4, Zenon
    <3> QED
      BY <2>2, <2>3, <3>3, Zenon
  <2>5. /\ Child(ParentOf(p), name) \in Path /\ Len(Child(ParentOf(p), name)) >= 1
        /\ Child(ParentOf(p), name)[1] # TRASH /\ NameOf(Child(ParentOf(p), name)) # TRASH
    BY <2>1, <2>3, <2>4, ChildEnds, ChildPath
  <2> QED
    BY <1>3, <1>9, <1>14, <2>1, <2>5 DEF Rename
<1>15. ASSUME NEW p \in LivePaths, NEW parent \in Folders, Move(p, parent)
       PROVE  MarksInv(store'.rows)
  <2> DEFINE name == RowAt(store, p).name
  <2>1. Live(store, p) /\ name \in Segments /\ name # TRASH
    BY <1>4, <1>15 DEF Move
  <2>2. /\ Child(parent, name) \in Path /\ Len(Child(parent, name)) >= 1
        /\ Child(parent, name)[1] # TRASH /\ NameOf(Child(parent, name)) # TRASH
    BY <1>5, <2>1, ChildEnds, ChildPath, PathElement
  <2> QED
    BY <1>3, <1>9, <1>15, <2>1, <2>2 DEF Move
<1>16. ASSUME NEW p \in LivePaths, NEW id \in TrashIds, Delete(p, id)
       PROVE  MarksInv(store'.rows)
  <2> DEFINE name == RowAt(store, p).name
             dir == RowAt(store, p).dir
             t == TrashPath(id, name)
             moved == Relocate(store, p, t, dir)
  <2>1. Live(store, p) /\ id \in Segments /\ NothingUnder(store.rows, id)
    BY <1>16, FilesystemAssumption DEF Delete, FreshTrash, NothingUnder
  <2>2. /\ p \in Path /\ Len(p) >= 1 /\ p[1] # TRASH /\ NameOf(p) # TRASH
        /\ dir \in BOOLEAN /\ name \in Segments /\ name # TRASH
    BY <1>4, <2>1
  <2>3. t \in Path /\ Len(t) >= 1 /\ NameOf(t) # TRASH
    BY <2>1, <2>2, StorageAssumption DEF TrashPath, Path, NameOf
  <2>4. moved.rows = RelocateRows(store.rows, p, t, dir)
    BY DEF Relocate
  <2>5. TrashInv(Stamped(moved.rows, t, p))
    BY <1>2, <2>1, <2>2, <2>4, SoftDeleteTrash
  <2>6. ~RelocateFails(store, p, t, dir)
    BY <1>16 DEF Delete, CanRelocate
  <2>7. moved.rows \subseteq RowType /\ NamesInv(moved.rows)
    <3>1. RowsInv(moved.rows)
      BY <1>2, <2>2, <2>3, <2>4, <2>6, RelocateRowsInv DEF RelocateFails
    <3> QED
      BY <1>2, <2>2, <2>3, <2>4, <3>1, RelocateNames DEF RowsInv
  <2>8. NamesInv(Stamped(moved.rows, t, p))
    BY <2>2, <2>7, StampedNames
  <2>9. SoftDelete(store, p, id).rows = Stamped(moved.rows, t, p)
    BY DEF SoftDelete, Relocate
  <2> QED
    BY <1>3, <1>16, <2>5, <2>8, <2>9 DEF Delete, MarksInv
<1>17. ASSUME NEW root \in TrashRoots(store), Restore(root)
       PROVE  MarksInv(store'.rows)
  <2> DEFINE moved == Relocate(store, root.path, root.orig, root.dir)
  <2>1. root \in store.rows /\ root \in RowType /\ root.orig # NoPath
    BY <1>2 DEF TrashRoots
  <2>2. /\ root.path \in Path /\ Len(root.path) >= 1 /\ root.dir \in BOOLEAN
        /\ root.orig \in Path /\ Len(root.orig) >= 1
    BY <1>2, <2>1 DEF RowType, RowsInv
  <2>3. root.orig[1] # TRASH /\ NameOf(root.orig) # TRASH
    BY <1>2, <2>1 DEF TrashInv, NamesInv
  <2>4. moved.rows = RelocateRows(store.rows, root.path, root.orig, root.dir)
    BY DEF Relocate
  <2>5. TrashInv(Unstamped(moved.rows, root.orig))
    BY <1>2, <2>2, <2>3, <2>4, RestoredTrash
  <2>6. ~RelocateFails(store, root.path, root.orig, root.dir)
    BY <1>17 DEF Restore
  <2>7. moved.rows \subseteq RowType /\ NamesInv(moved.rows)
    <3>1. RowsInv(moved.rows)
      BY <1>2, <2>2, <2>4, <2>6, RelocateRowsInv DEF RelocateFails
    <3> QED
      BY <1>2, <2>2, <2>3, <2>4, <3>1, RelocateNames DEF RowsInv
  <2>8. NamesInv(Unstamped(moved.rows, root.orig))
    BY <2>3, <2>7, StampedNames
  <2>9. Restored(store, root).rows = Unstamped(moved.rows, root.orig)
    BY DEF Restored, Relocate
  <2> QED
    BY <1>3, <1>17, <2>5, <2>8, <2>9 DEF Restore, MarksInv
<1>18. ASSUME NEW roots, Become(Purged(store, roots))
       PROVE  MarksInv(store'.rows)
  <2>1. Purged(store, roots).rows \in SUBSET store.rows
    BY DEF Purged
  <2> QED
    BY <1>3, <1>18, <2>1, TrashSubset
<1>19. ASSUME NEW root \in TrashRoots(store), Purge(root)
       PROVE  MarksInv(store'.rows)
  <2>1. Become(Purged(store, {root}))
    BY <1>19 DEF Purge
  <2> QED
    BY <1>18, <2>1, Zenon
<1>20. CASE EmptyTrash
  <2>1. Become(Purged(store, TrashRoots(store)))
    BY <1>20 DEF EmptyTrash
  <2> QED
    BY <1>1, <1>18, <2>1, Zenon
<1>21. ASSUME NEW p \in LivePaths, NEW v \in store.versions, NEW ref \in Refs,
              RestoreVersion(p, v, ref)
       PROVE  MarksInv(store'.rows)
  <2> DEFINE s == Snapshot(store, p, ref)
  <2>1. s \in StoreType /\ s.rows = store.rows
    BY <1>2, SnapshotInv, OverwrittenRows DEF StoreInv
  <2> HIDE DEF s
  <2>2. RolledBack(s, p, v).rows = Rehashed(store.rows, p, v.sum)
    <3>1. s \in [rows : SUBSET RowType, versions : SUBSET VersionType, disk : SUBSET EntryType]
      BY <2>1 DEF StoreType
    <3> QED
      BY <2>1, <3>1 DEF RolledBack
  <2>3. MarksInv(Rehashed(store.rows, p, v.sum))
    BY <1>2, TrashUpdated
  <2> QED
    BY <1>3, <1>21, <2>2, <2>3 DEF RestoreVersion, s
<1>22. ASSUME NEW p \in LivePaths, NEW b \in BOOLEAN, SetFavorite(p, b)
       PROVE  MarksInv(store'.rows)
  <2>1. [store EXCEPT !.rows = Starred(store.rows, p, b)].rows = Starred(store.rows, p, b)
    BY <1>2 DEF StoreType
  <2>2. MarksInv(Starred(store.rows, p, b))
    BY <1>2, TrashUpdated
  <2> QED
    BY <1>3, <1>22, <2>1, <2>2 DEF SetFavorite
<1>23. CASE UNCHANGED vars
  BY <1>23 DEF vars
<1>24. MarksInv(store'.rows)
  BY <1>10, <1>11, <1>12, <1>13, <1>14, <1>15, <1>16, <1>17, <1>19, <1>20, <1>21, <1>22, <1>23
     DEF Next
<1> QED
  BY <1>1, <1>24

(* A row is marked deleted exactly when it lies in the trash and keeps an  *)
(* original path exactly when it is the root of a trashed tree, however    *)
(* uploads, renames, moves, deletes, restores and purges follow each other.*)
THEOREM TrashStaysConsistent ==
  ASSUME LikeIsExact, TRASH \notin Names
  PROVE  Spec => []TrashConsistent
<1>1. Init => TrashIInv
  BY TrashInit
<1>2. TrashIInv /\ [Next]_vars => TrashIInv'
  BY TrashStep
<1>3. TrashIInv => TrashConsistent
  BY DEF TrashIInv, MarksInv, TrashInv, TrashConsistent
<1> QED
  BY <1>1, <1>2, <1>3, PTL DEF Spec

----------------------------------------------------------------------------
(* The rows form one tree.  A row's parent is covered by whatever covers   *)
(* the row, unless it is the row itself that is moved or removed: so a     *)
(* subtree leaves no row without its folder, and takes its folders along.  *)

Columns(r) == r.name = NameOf(r.path) /\ r.parent = ParentOf(r.path)
Placed(rows, r) ==
  \/ r.orig # NoPath
  \/ ~r.deleted /\ r.parent = Root
  \/ \E f \in rows : f.path = r.parent /\ f.dir /\ f.deleted = r.deleted
TreeInv(rows) == \A r \in rows : Columns(r) /\ Placed(rows, r)

LEMMA ParentCovered ==
  ASSUME LikeIsExact, NEW p \in Path, NEW q \in Path, Len(q) >= 1
  PROVE  /\ Covers(p, ParentOf(q)) => LikeBelow(p, q)
         /\ LikeBelow(p, q) => Covers(p, ParentOf(q))
         /\ ~LikeBelow(q, ParentOf(q)) /\ ParentOf(q) # q
<1> DEFINE u == ParentOf(q)
<1>1. /\ u \in Path /\ Len(u) = Len(q) - 1 /\ \A i \in 1 .. Len(q) - 1 : u[i] = q[i]
      /\ Len(p) \in Nat /\ Len(q) \in Nat
  <2>1. Len(Root) = 0
    BY DEF Root
  <2>2. q # Root
    BY <2>1
  <2> QED
    BY <2>2, ParentPath, PathElement
<1> HIDE DEF u
<1>2. \A i \in 1 .. Len(p) : p[i] \in Segments
  BY PathElement
<1>3. ASSUME LikeBelow(p, u)
      PROVE  LikeBelow(p, q)
  BY <1>1, <1>3 DEF LikeBelow
<1>4. ASSUME u = p
      PROVE  LikeBelow(p, q)
  BY <1>1, <1>2, <1>4, LikeAssumption DEF LikeBelow
<1>5. ASSUME LikeBelow(p, q), Len(p) < Len(q) - 1
      PROVE  LikeBelow(p, u)
  BY <1>1, <1>5 DEF LikeBelow
<1>6. ASSUME LikeBelow(p, q), Len(p) = Len(q) - 1
      PROVE  u = p
  <2>1. \A i \in 1 .. Len(p) : q[i] \in Segments
    BY <1>1, <1>6, PathElement
  <2>2. \A i \in 1 .. Len(p) : p[i] = u[i]
    BY <1>1, <1>2, <1>6, <2>1 DEF LikeBelow, LikeIsExact
  <2> QED
    BY <1>1, <1>6, <2>2, PathEqual
<1>7. Len(p) < Len(q) => Len(p) < Len(q) - 1 \/ Len(p) = Len(q) - 1
  BY <1>1
<1>8. ~LikeBelow(q, u) /\ u # q
  BY <1>1 DEF LikeBelow
<1> QED
  BY <1>3, <1>4, <1>5, <1>6, <1>7, <1>8 DEF Covers, LikeBelow, u

LEMMA RebaseParent ==
  ASSUME NEW old \in Path, NEW new \in Path, NEW q \in Path, Len(new) >= 1, Len(old) < Len(q)
  PROVE  /\ NameOf(Rebase(old, new, q)) = NameOf(q)
         /\ ParentOf(Rebase(old, new, q)) = Rebase(old, new, ParentOf(q))
         /\ Rebase(old, new, old) = new
<1> DEFINE w == Rebase(old, new, q)
           u == ParentOf(q)
           v == Rebase(old, new, u)
<1>1. Len(old) \in Nat /\ Len(new) \in Nat /\ Len(q) \in Nat
  BY PathElement
<1>2. /\ w \in Path /\ Len(w) = Len(new) + (Len(q) - Len(old))
      /\ \A i \in 1 .. Len(new) : w[i] = new[i]
      /\ \A i \in 1 .. Len(q) - Len(old) : w[Len(new) + i] = q[Len(old) + i]
  <2>1. Len(w) = Len(new) + IF Len(old) <= Len(q) THEN Len(q) - Len(old) ELSE 0
    BY RebasePath, Zenon
  <2>2. /\ w \in Path /\ \A i \in 1 .. Len(new) : w[i] = new[i]
        /\ \A i \in 1 .. Len(q) - Len(old) : w[Len(new) + i] = q[Len(old) + i]
    BY RebasePath, Zenon
  <2>3. Len(w) = Len(new) + (Len(q) - Len(old))
    BY <1>1, <2>1
  <2> QED
    BY <2>2, <2>3
<1>3. q # Root /\ w # Root
  <2>1. Len(Root) = 0
    BY DEF Root
  <2> HIDE DEF w
  <2> QED
    BY <1>1, <1>2, <2>1
<1>4. u \in Path /\ Len(u) = Len(q) - 1 /\ \A i \in 1 .. Len(q) - 1 : u[i] = q[i]
  BY <1>3, ParentPath
<1> HIDE DEF u
<1>5. /\ v \in Path /\ Len(v) = Len(new) + (Len(q) - 1 - Len(old))
      /\ \A i \in 1 .. Len(new) : v[i] = new[i]
      /\ \A i \in 1 .. Len(q) - 1 - Len(old) : v[Len(new) + i] = u[Len(old) + i]
  <2>1. Len(old) <= Len(u) /\ Len(u) - Len(old) = Len(q) - 1 - Len(old)
    BY <1>1, <1>4
  <2>2. /\ v \in Path
        /\ Len(v) = Len(new) + IF Len(old) <= Len(u) THEN Len(u) - Len(old) ELSE 0
        /\ \A i \in 1 .. Len(new) : v[i] = new[i]
        /\ \A i \in 1 .. Len(u) - Len(old) : v[Len(new) + i] = u[Len(old) + i]
    BY <1>4, RebasePath
  <2> HIDE DEF v
  <2> QED
    BY <2>1, <2>2
<1> HIDE DEF w, v
<1>6. ParentOf(w) \in Path /\ Len(ParentOf(w)) = Len(w) - 1
      /\ \A i \in 1 .. Len(w) - 1 : ParentOf(w)[i] = w[i]
  BY <1>2, <1>3, ParentPath
<1>7. ParentOf(w) = v
  <2>1. Len(ParentOf(w)) = Len(v)
    BY <1>1, <1>2, <1>5, <1>6
  <2>2. ASSUME NEW i \in 1 .. Len(v)
        PROVE  ParentOf(w)[i] = v[i]
    <3>1. i \in 1 .. Len(w) - 1 /\ ParentOf(w)[i] = w[i]
      BY <1>6, <2>1
    <3>2. CASE i \in 1 .. Len(new)
      BY <1>2, <1>5, <3>1, <3>2
    <3>3. CASE i \notin 1 .. Len(new)
      <4>1. PICK j \in Nat : i = Len(new) + j /\ j \in 1 .. Len(q) - 1 - Len(old)
        <5>1. i - Len(new) \in 1 .. Len(q) - 1 - Len(old)
          BY <1>1, <1>5, <3>3
        <5> QED
          BY <1>1, <5>1
      <4>2. w[i] = q[Len(old) + j]
        BY <1>1, <1>2, <4>1
      <4>3. v[i] = u[Len(old) + j]
        BY <1>5, <4>1
      <4>4. Len(old) + j \in 1 .. Len(q) - 1
        BY <1>1, <4>1
      <4> QED
        BY <1>4, <3>1, <4>2, <4>3, <4>4
    <3> QED
      BY <3>2, <3>3
  <2> QED
    BY <1>5, <1>6, <2>1, <2>2, PathEqual
<1>8. NameOf(w) = NameOf(q)
  <2>1. PICK j \in Nat : j = Len(q) - Len(old) /\ j \in 1 .. Len(q) - Len(old)
    BY <1>1
  <2>2. w[Len(new) + j] = q[Len(old) + j]
    BY <1>2, <2>1
  <2>3. Len(new) + j = Len(w) /\ Len(old) + j = Len(q)
    BY <1>1, <1>2, <2>1
  <2> QED
    BY <2>2, <2>3 DEF NameOf
<1>9. Rebase(old, new, old) = new
  <2>1. /\ Rebase(old, new, old) \in Path /\ Len(Rebase(old, new, old)) = Len(new)
        /\ \A i \in 1 .. Len(new) : Rebase(old, new, old)[i] = new[i]
    BY <1>1, RebasePath
  <2> QED
    BY <2>1, PathEqual
<1> QED
  BY <1>7, <1>8, <1>9 DEF w, v, u

----------------------------------------------------------------------------
(* _relocate_subtree.                                                      *)

Gone(old, dir, r) == r.path = old \/ (dir /\ LikeBelow(old, r.path))

LEMMA MovedRowTree ==
  ASSUME NEW old \in Path, NEW new \in Path, Len(new) >= 1, NEW dir \in BOOLEAN,
         ~(dir /\ LikeBelow(old, new)), NEW r \in RowType, Len(r.path) >= 1, Columns(r)
  PROVE  LET m == MovedRow(old, new, dir, r)
         IN  /\ Columns(m)
             /\ r.path = old => m.path = new /\ m.parent = ParentOf(new)
             /\ r.path # old /\ Gone(old, dir, r) =>
                  m.path = Rebase(old, new, r.path) /\ m.parent = Rebase(old, new, r.parent)
             /\ ~Gone(old, dir, r) => m = r
<1> DEFINE home == [r EXCEPT !.path = new, !.name = NameOf(new), !.parent = ParentOf(new)]
           w == Rebase(old, new, r.path)
           v == Rebase(old, new, r.parent)
           away == [r EXCEPT !.path = w, !.parent = v]
           m == MovedRow(old, new, dir, r)
<1>1. home.path = new /\ home.name = NameOf(new) /\ home.parent = ParentOf(new)
  BY DEF RowType
<1>2. away.path = w /\ away.parent = v /\ away.name = r.name
  BY DEF RowType
<1>3. CASE r.path = old
  <2>1. m = home
    BY <1>1, <1>3 DEF MovedRow
  <2> HIDE DEF m, home
  <2> QED
    BY <1>1, <1>3, <2>1 DEF Columns, Gone, m
<1>4. CASE r.path # old /\ Gone(old, dir, r)
  <2>1. dir /\ LikeBelow(old, r.path)
    BY <1>4 DEF Gone
  <2>2. m = away
    BY <1>4, <2>1 DEF MovedRow
  <2>3. r.path \in Path /\ Len(old) < Len(r.path)
    BY <2>1 DEF RowType, LikeBelow
  <2>4. NameOf(w) = NameOf(r.path) /\ ParentOf(w) = Rebase(old, new, ParentOf(r.path))
    BY <2>3, RebaseParent
  <2> HIDE DEF m, away, w
  <2> QED
    BY <1>2, <1>4, <2>2, <2>4 DEF Columns, m, w
<1>5. CASE ~Gone(old, dir, r)
  BY <1>5 DEF MovedRow, Gone
<1> QED
  BY <1>3, <1>4, <1>5

\* What happens to row r when old is moved to new.
Moves(rows, old, new, dir, r) ==
  LET m == MovedRow(old, new, dir, r)
      gone(x) == Gone(old, dir, x)
  IN  /\ Columns(m) /\ m.path = MovedPath(old, new, dir, r.path)
      /\ m.dir = r.dir /\ m.deleted = r.deleted /\ m.orig = r.orig
      /\ ~gone(r) => m = r /\ \A t \in rows : t.dir /\ t.path = r.parent => ~gone(t)
      /\ r.path = old => m.path = new /\ m.parent = ParentOf(new)
      /\ gone(r) => Covers(new, m.path)
      /\ gone(r) /\ r.path # old /\ r.orig = NoPath =>
           \E t \in rows : /\ gone(t) /\ t.dir /\ t.deleted = r.deleted
                           /\ MovedPath(old, new, dir, t.path) = m.parent

(* What moves is closed under taking entries below: a row that stays keeps *)
(* its folder, one that moves from below finds its folder moved with it.   *)
LEMMA RelocateTree ==
  ASSUME LikeIsExact, NEW rows, RowsInv(rows), TreeInv(rows),
         NEW old \in Path, Len(old) >= 1, NEW new \in Path, Len(new) >= 1, NEW dir \in BOOLEAN,
         ~(dir /\ LikeBelow(old, new)), \A t \in rows : t.path = old => t.dir = dir,
         NEW r \in rows
  PROVE  Moves(rows, old, new, dir, r)
<1> DEFINE f(x) == MovedRow(old, new, dir, x)
           gone(x) == Gone(old, dir, x)
<1>1. \A x \in rows : x \in RowType /\ x.path \in Path /\ Len(x.path) >= 1 /\ Columns(x) /\ Placed(rows, x)
  BY DEF RowsInv, RowType, TreeInv
<1>2. /\ Columns(f(r))
      /\ r.path = old => f(r).path = new /\ f(r).parent = ParentOf(new)
      /\ r.path # old /\ gone(r) =>
           f(r).path = Rebase(old, new, r.path) /\ f(r).parent = Rebase(old, new, r.parent)
      /\ ~gone(r) => f(r) = r
  BY <1>1, MovedRowTree
<1>3. /\ f(r).path = MovedPath(old, new, dir, r.path)
      /\ f(r).dir = r.dir /\ f(r).deleted = r.deleted /\ f(r).orig = r.orig
  BY <1>1, MovedRowFields
<1>4. r.parent = ParentOf(r.path) /\ r.parent \in Path
  BY <1>1, ParentPath DEF Columns
<1>5. ASSUME NEW t \in rows, t.dir, t.path = r.parent, gone(t)
      PROVE  gone(r)
  <2>1. dir
    BY <1>5 DEF Gone
  <2>2. Covers(old, ParentOf(r.path))
    BY <1>4, <1>5 DEF Gone, Covers
  <2> QED
    BY <1>1, <2>1, <2>2, ParentCovered DEF Gone
<1>6. ASSUME gone(r)
      PROVE  Covers(new, f(r).path)
  <2>1. CASE r.path = old
    BY <1>2, <2>1 DEF Covers
  <2>2. CASE r.path # old
    <3>1. Len(old) < Len(r.path)
      BY <1>6, <2>2 DEF Gone, LikeBelow
    <3>2. LikeBelow(new, Rebase(old, new, r.path))
      BY <1>1, <3>1, RebaseCovered
    <3> QED
      BY <1>2, <1>6, <2>2, <3>2 DEF Covers
  <2> QED
    BY <2>1, <2>2
<1>7. ASSUME gone(r), r.path # old, r.orig = NoPath
      PROVE  \E t \in rows : /\ gone(t) /\ t.dir /\ t.deleted = r.deleted
                             /\ MovedPath(old, new, dir, t.path) = f(r).parent
  <2>1. dir /\ LikeBelow(old, r.path)
    BY <1>7 DEF Gone
  <2>2. Covers(old, r.parent)
    BY <1>1, <1>4, <2>1, ParentCovered
  <2>3. r.parent # Root
    <3>1. Len(Root) = 0
      BY DEF Root
    <3> QED
      BY <2>2, <3>1, PathElement DEF Covers, LikeBelow
  <2>4. PICK t \in rows : t.path = r.parent /\ t.dir /\ t.deleted = r.deleted
    BY <1>1, <1>7, <2>3 DEF Placed
  <2>5. gone(t)
    BY <2>1, <2>2, <2>4 DEF Gone, Covers
  <2>6. MovedPath(old, new, dir, t.path) = Rebase(old, new, r.parent)
    <3>1. CASE r.parent = old
      <4>1. Rebase(old, new, old) = new
        BY <1>1, <2>1, RebaseParent DEF LikeBelow
      <4> QED
        BY <2>4, <3>1, <4>1 DEF MovedPath
    <3>2. CASE r.parent # old
      BY <2>1, <2>2, <2>4, <3>2 DEF MovedPath, Covers
    <3> QED
      BY <3>1, <3>2
  <2> QED
    BY <1>2, <1>7, <2>4, <2>5, <2>6
<1> QED
  BY <1>2, <1>3, <1>5, <1>6, <1>7 DEF Moves

\* A rename or a move into a folder that stays where it is.
LEMMA RelocateLiveTree ==
  ASSUME LikeIsExact, NEW rows, RowsInv(rows), TreeInv(rows),
         NEW old \in Path, Len(old) >= 1, NEW new \in Path, Len(new) >= 1, NEW dir \in BOOLEAN,
         ~(dir /\ LikeBelow(old, new)), \A t \in rows : t.path = old => t.dir = dir /\ ~t.deleted,
         \/ ParentOf(new) = Root
         \/ \E t \in rows : t.path = ParentOf(new) /\ t.dir /\ ~t.deleted /\ ~Gone(old, dir, t)
  PROVE  TreeInv(RelocateRows(rows, old, new, dir))
<1> DEFINE f(x) == MovedRow(old, new, dir, x)
           gone(x) == Gone(old, dir, x)
           after == {f(x) : x \in rows}
<1>1. ASSUME NEW r \in rows
      PROVE  /\ Columns(f(r)) /\ f(r).path = MovedPath(old, new, dir, r.path)
             /\ f(r).dir = r.dir /\ f(r).deleted = r.deleted /\ f(r).orig = r.orig
             /\ ~gone(r) => f(r) = r /\ \A t \in rows : t.dir /\ t.path = r.parent => ~gone(t)
             /\ r.path = old => f(r).path = new /\ f(r).parent = ParentOf(new)
             /\ gone(r) /\ r.path # old /\ r.orig = NoPath =>
                  \E t \in rows : /\ gone(t) /\ t.dir /\ t.deleted = r.deleted
                                  /\ MovedPath(old, new, dir, t.path) = f(r).parent
  <2>1. \A t \in rows : t.path = old => t.dir = dir
    OBVIOUS
  <2>2. Moves(rows, old, new, dir, r)
    BY <2>1, RelocateTree
  <2> QED
    BY <2>2 DEF Moves
<1> HIDE DEF f, gone
<1>2. ASSUME NEW r \in rows
      PROVE  Placed(after, f(r))
  <2>1. CASE r.orig # NoPath
    BY <1>1, <2>1 DEF Placed
  <2>2. CASE r.path = old
    <3>1. f(r).deleted = FALSE /\ f(r).parent = ParentOf(new)
      <4>1. r.deleted = FALSE
        BY <2>2 DEF RowsInv, RowType
      <4> QED
        BY <1>1, <2>2, <4>1
    <3>2. ASSUME NEW t \in rows, t.path = ParentOf(new), t.dir, ~t.deleted, ~gone(t)
          PROVE  t \in after /\ t.deleted = FALSE
      BY <1>1, <3>2 DEF RowsInv, RowType
    <3> QED
      BY <3>1, <3>2 DEF Placed, gone
  <2>3. CASE r.orig = NoPath /\ r.path # old /\ gone(r)
    <3>1. PICK t \in rows : /\ t.dir /\ t.deleted = r.deleted
                            /\ MovedPath(old, new, dir, t.path) = f(r).parent
      BY <1>1, <2>3
    <3>2. f(t) \in after /\ f(t).path = f(r).parent /\ f(t).dir /\ f(t).deleted = f(r).deleted
      BY <1>1, <3>1
    <3> QED
      BY <3>2 DEF Placed
  <2>4. CASE r.orig = NoPath /\ ~gone(r)
    <3>1. f(r) = r /\ Placed(rows, r)
      BY <1>1, <2>4 DEF TreeInv
    <3>2. ASSUME NEW t \in rows, t.path = r.parent, t.dir
          PROVE  t \in after
      BY <1>1, <2>4, <3>2
    <3> QED
      BY <2>4, <3>1, <3>2 DEF Placed
  <2> QED
    BY <2>1, <2>2, <2>3, <2>4
<1>3. RelocateRows(rows, old, new, dir) = after
  BY DEF RelocateRows, f
<1> QED
  BY <1>1, <1>2, <1>3 DEF TreeInv

----------------------------------------------------------------------------
(* soft_delete: what moves ends up in the trash, and only that.            *)

LEMMA SoftDeleteTree ==
  ASSUME LikeIsExact, NEW rows, RowsInv(rows), TreeInv(rows), TrashInv(rows),
         NEW p \in Path, Len(p) >= 1, p[1] # TRASH,
         NEW id \in Segments, NEW name \in Segments, NEW dir \in BOOLEAN,
         NothingUnder(rows, id), \A t \in rows : t.path = p => t.dir = dir
  PROVE  TreeInv(Stamped(RelocateRows(rows, p, TrashPath(id, name), dir), TrashPath(id, name), p))
<1> DEFINE t == TrashPath(id, name)
           f(x) == MovedRow(p, t, dir, x)
           gone(x) == Gone(p, dir, x)
           g(x) == IF Covers(t, x.path)
                   THEN [x EXCEPT !.deleted = TRUE, !.orig = IF x.path = t THEN p ELSE x.orig]
                   ELSE x
           after == {g(f(x)) : x \in rows}
<1>1. t \in Path /\ Len(t) = 3 /\ t[1] = TRASH /\ t[2] = id /\ ~LikeBelow(p, t)
  <2>1. t \in Path /\ Len(t) = 3 /\ t[1] = TRASH /\ t[2] = id
    BY StorageAssumption DEF TrashPath, Path
  <2> HIDE DEF t
  <2>2. ~LikeBelow(p, t)
    BY <2>1, CoveredFirst DEF Covers
  <2> QED
    BY <2>1, <2>2
<1> HIDE DEF t
<1>2. ASSUME NEW r \in rows
      PROVE  /\ Columns(f(r)) /\ f(r).path = MovedPath(p, t, dir, r.path)
             /\ f(r).dir = r.dir /\ f(r).deleted = r.deleted /\ f(r).orig = r.orig
             /\ ~gone(r) => f(r) = r /\ \A x \in rows : x.dir /\ x.path = r.parent => ~gone(x)
             /\ r.path = p => f(r).path = t
             /\ gone(r) => Covers(t, f(r).path)
             /\ gone(r) /\ r.path # p /\ r.orig = NoPath =>
                  \E x \in rows : /\ gone(x) /\ x.dir /\ x.deleted = r.deleted
                                  /\ MovedPath(p, t, dir, x.path) = f(r).parent
  <2>1. Len(t) >= 1
    BY <1>1
  <2> QED
    <3>1. Moves(rows, p, t, dir, r)
      BY <1>1, <2>1, RelocateTree
    <3> QED
      BY <3>1 DEF Moves
<1>3. ASSUME NEW r \in rows
      PROVE  r \in RowType /\ r.path \in Path /\ Len(r.path) >= 1 /\ f(r) \in RowType
  <2>1. r \in RowType /\ r.path \in Path /\ Len(r.path) >= 1
    BY DEF RowsInv, RowType
  <2>2. Len(t) >= 1
    BY <1>1
  <2> QED
    BY <1>1, <2>1, <2>2, MovedRowFields
<1>4. \A x \in RowType : /\ g(x).path = x.path /\ g(x).name = x.name /\ g(x).parent = x.parent
                         /\ g(x).dir = x.dir
                         /\ g(x).deleted <=> Covers(t, x.path) \/ x.deleted
                         /\ g(x).orig = IF x.path = t THEN p ELSE x.orig
                         /\ ~Covers(t, x.path) => g(x) = x
  BY DEF RowType, Covers
<1>5. ASSUME NEW r \in rows
      PROVE  ~Covers(t, r.path)
  BY NothingCovered DEF t
<1> HIDE DEF f, g, gone
<1>6. ASSUME NEW r \in rows
      PROVE  Columns(g(f(r))) /\ Placed(after, g(f(r)))
  <2>1. Columns(g(f(r)))
    BY <1>2, <1>3, <1>4 DEF Columns
  <2>2. CASE r.orig # NoPath
    <3>1. g(f(r)).orig \in {p, r.orig} /\ p # NoPath
      BY <1>2, <1>3, <1>4, StorageAssumption
    <3> QED
      BY <2>1, <2>2, <3>1 DEF Placed
  <2>3. CASE r.path = p
    <3>1. g(f(r)).orig = p /\ p # NoPath
      BY <1>2, <1>3, <1>4, <2>3, StorageAssumption
    <3> QED
      BY <2>1, <3>1 DEF Placed
  <2>4. CASE r.orig = NoPath /\ r.path # p /\ gone(r)
    <3>1. PICK x \in rows : gone(x) /\ x.dir /\ MovedPath(p, t, dir, x.path) = f(r).parent
      BY <1>2, <2>4
    <3>2. g(f(x)) \in after /\ g(f(x)).path = g(f(r)).parent /\ g(f(x)).dir
          /\ g(f(x)).deleted /\ g(f(r)).deleted
      BY <1>2, <1>3, <1>4, <2>4, <3>1
    <3>3. g(f(x)).deleted \in BOOLEAN /\ g(f(r)).deleted \in BOOLEAN
      <4>1. \A y \in RowType : g(y).deleted \in BOOLEAN
        BY DEF g, RowType
      <4> QED
        BY <1>3, <4>1
    <3> QED
      BY <2>1, <3>2, <3>3 DEF Placed
  <2>5. CASE r.orig = NoPath /\ ~gone(r)
    <3>1. f(r) = r /\ g(r) = r /\ Placed(rows, r)
      BY <1>2, <1>3, <1>4, <1>5, <2>5 DEF TreeInv
    <3>2. ASSUME NEW x \in rows, x.path = r.parent, x.dir
          PROVE  x \in after
      <4>1. f(x) = x /\ g(x) = x
        BY <1>2, <1>3, <1>4, <1>5, <2>5, <3>2
      <4> QED
        BY <4>1
    <3> QED
      BY <2>1, <2>5, <3>1, <3>2 DEF Placed
  <2> QED
    BY <2>1, <2>2, <2>3, <2>4, <2>5
<1>7. Stamped(RelocateRows(rows, p, t, dir), t, p) = after
  BY DEF RelocateRows, Stamped, f, g
<1> QED
  BY <1>6, <1>7 DEF TreeInv, t

----------------------------------------------------------------------------
(* restore: what moves arrives on the live side, below a folder that is.   *)

LEMMA RestoredTree ==
  ASSUME LikeIsExact, NEW rows, RowsInv(rows), TreeInv(rows), TrashInv(rows),
         NEW old \in Path, Len(old) >= 1, old[1] = TRASH, Len(old) = 3,
         NEW new \in Path, Len(new) >= 1, new[1] # TRASH,
         NEW dir \in BOOLEAN, \A t \in rows : t.path = old => t.dir = dir,
         \/ ParentOf(new) = Root
         \/ \E t \in rows : t.path = ParentOf(new) /\ t.dir /\ ~t.deleted
  PROVE  TreeInv(Unstamped(RelocateRows(rows, old, new, dir), new))
<1> DEFINE f(x) == MovedRow(old, new, dir, x)
           gone(x) == Gone(old, dir, x)
           g(x) == IF Covers(new, x.path)
                   THEN [x EXCEPT !.deleted = FALSE, !.orig = NoPath] ELSE x
           after == {g(f(x)) : x \in rows}
<1>1. ~LikeBelow(old, new)
  BY CoveredFirst DEF Covers
<1>2. ASSUME NEW r \in rows
      PROVE  /\ Columns(f(r))
             /\ f(r).dir = r.dir /\ f(r).deleted = r.deleted /\ f(r).orig = r.orig
             /\ ~gone(r) => f(r) = r /\ \A x \in rows : x.dir /\ x.path = r.parent => ~gone(x)
             /\ r.path = old => f(r).path = new /\ f(r).parent = ParentOf(new)
             /\ gone(r) => Covers(new, f(r).path)
             /\ gone(r) /\ r.path # old /\ r.orig = NoPath =>
                  \E x \in rows : gone(x) /\ x.dir /\ f(x).path = f(r).parent
  <2>1. \A x \in rows : Moves(rows, old, new, dir, x)
    BY <1>1, RelocateTree
  <2> QED
    BY <2>1 DEF Moves
<1>3. ASSUME NEW r \in rows
      PROVE  /\ r \in RowType /\ r.path \in Path /\ Len(r.path) >= 1 /\ f(r) \in RowType
             /\ r.deleted \in BOOLEAN
  <2>1. r \in RowType /\ r.path \in Path /\ Len(r.path) >= 1 /\ r.deleted \in BOOLEAN
    BY DEF RowsInv, RowType
  <2> QED
    BY <2>1, MovedRowFields
<1>4. \A x \in RowType : /\ g(x).path = x.path /\ g(x).name = x.name /\ g(x).parent = x.parent
                         /\ g(x).dir = x.dir
                         /\ Covers(new, x.path) => g(x).deleted = FALSE /\ g(x).orig = NoPath
                         /\ ~Covers(new, x.path) => g(x) = x
  BY DEF RowType
<1> HIDE DEF f, g, gone
\* Below the original path all rows were live.
<1>5. ASSUME NEW r \in rows, Covers(new, r.path)
      PROVE  r.deleted = FALSE /\ r.orig = NoPath
  <2>1. r.path[1] # TRASH
    BY <1>3, <1>5, CoveredFirst
  <2> QED
    BY <1>3, <2>1 DEF TrashInv
<1>6. ASSUME NEW r \in rows, ~gone(r)
      PROVE  /\ g(f(r)).path = r.path /\ g(f(r)).parent = r.parent /\ g(f(r)).dir = r.dir
             /\ g(f(r)).deleted = r.deleted /\ g(f(r)).orig = r.orig
  <2>1. f(r) = r /\ r \in RowType
    BY <1>2, <1>3, <1>6
  <2>2. CASE Covers(new, r.path)
    <3>1. r.deleted = FALSE /\ r.orig = NoPath
      BY <1>5, <2>2
    <3> QED
      BY <1>4, <2>1, <2>2, <3>1
  <2>3. CASE ~Covers(new, r.path)
    BY <1>4, <2>1, <2>3
  <2> QED
    BY <2>2, <2>3
<1>7. ASSUME NEW r \in rows
      PROVE  Columns(g(f(r))) /\ Placed(after, g(f(r)))
  <2>1. Columns(g(f(r)))
    BY <1>2, <1>3, <1>4 DEF Columns
  <2>2. CASE ~gone(r)
    <3>1. Placed(rows, r)
      BY DEF TreeInv
    <3>2. ASSUME NEW x \in rows, x.path = r.parent, x.dir, x.deleted = r.deleted
          PROVE  \E y \in after : y.path = r.parent /\ y.dir /\ y.deleted = r.deleted
      <4>1. g(f(x)) \in after /\ ~gone(x)
        BY <1>2, <2>2, <3>2
      <4> QED
        BY <1>6, <3>2, <4>1
    <3> QED
      BY <1>6, <2>1, <2>2, <3>1, <3>2 DEF Placed
  <2>3. CASE r.path = old
    <3>1. gone(r)
      BY <2>3 DEF gone, Gone
    <3>2. g(f(r)).deleted = FALSE /\ g(f(r)).parent = ParentOf(new)
      BY <1>2, <1>3, <1>4, <2>3, <3>1
    <3>3. ASSUME NEW t \in rows, t.path = ParentOf(new), t.dir, ~t.deleted
          PROVE  \E y \in after : y.path = ParentOf(new) /\ y.dir /\ y.deleted = FALSE
      <4>1. t.path[1] # TRASH
        BY <3>3 DEF TrashInv
      <4>2. ~gone(t)
        BY <1>3, <4>1, CoveredFirst DEF gone, Gone, Covers
      <4>3. g(f(t)) \in after /\ t.deleted = FALSE
        BY <1>3, <3>3
      <4> QED
        BY <1>6, <3>3, <4>2, <4>3
    <3> QED
      BY <2>1, <3>2, <3>3 DEF Placed
  <2>4. CASE gone(r) /\ r.path # old
    <3>1. r.orig = NoPath
      <4>1. LikeBelow(old, r.path)
        BY <2>4 DEF gone, Gone
      <4>2. Len(r.path) > 3 /\ Len(r.path) \in Nat
        BY <1>3, <4>1, PathElement DEF LikeBelow
      <4>3. \A n \in Nat : n > 3 => n # 3
        OBVIOUS
      <4>4. Len(r.path) # 3
        BY <4>2, <4>3, Zenon
      <4> QED
        BY <4>4 DEF TrashInv
    <3>2. PICK x \in rows : gone(x) /\ x.dir /\ f(x).path = f(r).parent
      BY <1>2, <2>4, <3>1
    <3>3. g(f(x)) \in after /\ g(f(x)).path = g(f(r)).parent /\ g(f(x)).dir
          /\ g(f(x)).deleted = FALSE /\ g(f(r)).deleted = FALSE
      BY <1>2, <1>3, <1>4, <2>4, <3>2
    <3> QED
      BY <2>1, <3>3 DEF Placed
  <2> QED
    BY <2>2, <2>3, <2>4
<1>8. Unstamped(RelocateRows(rows, old, new, dir), new) = after
  BY DEF RelocateRows, Unstamped, f, g
<1> QED
  BY <1>7, <1>8 DEF TreeInv

----------------------------------------------------------------------------
(* The rest: rows that go with all that is below them, a row that is       *)
(* inserted in a folder, and one-row UPDATEs.                              *)

LEMMA RemovedTree ==
  ASSUME LikeIsExact, NEW rows, RowsInv(rows), TreeInv(rows), NEW P \in SUBSET Path
  PROVE  TreeInv({r \in rows : \A p \in P : ~Covers(p, r.path)})
<1> DEFINE kept == {r \in rows : \A p \in P : ~Covers(p, r.path)}
<1>1. ASSUME NEW r \in kept, NEW t \in rows, t.path = r.parent
      PROVE  t \in kept
  <2>1. r.path \in Path /\ Len(r.path) >= 1 /\ t.path = ParentOf(r.path)
    BY <1>1 DEF RowsInv, RowType, TreeInv, Columns
  <2>2. \A p \in P : Covers(p, t.path) => Covers(p, r.path)
    BY <2>1, ParentCovered DEF Covers
  <2> QED
    BY <2>2
<1> QED
  BY <1>1 DEF TreeInv, Placed

LEMMA InsertedTree ==
  ASSUME NEW rows, TreeInv(rows), NEW p, NEW dir, NEW sum, NEW node,
         \/ ParentOf(p) = Root
         \/ \E f \in rows : f.path = ParentOf(p) /\ f.dir /\ f.deleted = FALSE
  PROVE  TreeInv(rows \cup {NewRow(p, dir, sum, node)})
<1> DEFINE n == NewRow(p, dir, sum, node)
<1>1. n.path = p /\ n.name = NameOf(p) /\ n.parent = ParentOf(p) /\ n.deleted = FALSE
  BY DEF NewRow
<1> HIDE DEF n
<1>2. Columns(n) /\ Placed(rows \cup {n}, n)
  BY <1>1 DEF Columns, Placed
<1>3. \A r \in rows : Columns(r) /\ Placed(rows \cup {n}, r)
  BY DEF TreeInv, Placed
<1> QED
  BY <1>2, <1>3 DEF TreeInv, n

LEMMA UpdatedTree ==
  ASSUME NEW rows, rows \subseteq RowType, TreeInv(rows), NEW p, NEW sum, NEW b
  PROVE  TreeInv(Rehashed(rows, p, sum)) /\ TreeInv(Starred(rows, p, b))
<1> DEFINE f(r) == IF r.path = p THEN [r EXCEPT !.sum = sum] ELSE r
           g(r) == IF r.path = p THEN [r EXCEPT !.fav = b] ELSE r
           same(r, t) == /\ r.path = t.path /\ r.name = t.name /\ r.parent = t.parent
                         /\ r.dir = t.dir /\ r.deleted = t.deleted /\ r.orig = t.orig
<1>1. \A r \in RowType : same(f(r), r) /\ same(g(r), r)
  BY DEF RowType
<1>2. Rehashed(rows, p, sum) = {f(r) : r \in rows} /\ Starred(rows, p, b) = {g(r) : r \in rows}
  BY DEF Rehashed, Starred
<1> HIDE DEF f, g
<1>3. TreeInv({f(r) : r \in rows})
  BY <1>1 DEF TreeInv, Columns, Placed
<1>4. TreeInv({g(r) : r \in rows})
  BY <1>1 DEF TreeInv, Columns, Placed
<1> QED
  BY <1>2, <1>3, <1>4

LEMMA OverwrittenExact ==
  ASSUME NEW s \in StoreType, NEW p, NEW ref
  PROVE  Overwritten(s, p, ref).rows = {r \in s.rows : ~Covers(p, r.path)}
<1> DEFINE R == SUBSET RowType
           V == SUBSET VersionType
           D == SUBSET EntryType
<1>1. s \in [rows : R, versions : V, disk : D]
  BY DEF StoreType
<1> HIDE DEF R, V, D
<1>2. Snapshot(s, p, ref).rows = s.rows /\ "rows" \in DOMAIN Snapshot(s, p, ref)
  BY <1>1 DEF Snapshot
<1>3. \A u : "rows" \in DOMAIN u => RemoveFile(u, p).rows = {r \in u.rows : ~Covers(p, r.path)}
  BY DEF RemoveFile
<1> QED
  BY <1>2, <1>3 DEF Overwritten

\* The folder at p, in which an entry may be put.
FolderAt(rows, p) == p = Root \/ \E f \in rows : f.path = p /\ f.dir /\ f.deleted = FALSE

\* A live entry lies in a live folder, which no operation on the entry moves or removes.
LEMMA LiveParent ==
  ASSUME LikeIsExact, StoreInv(store), MarksInv(store.rows), TreeInv(store.rows),
         NEW p, Live(store, p)
  PROVE  /\ p \in Path /\ Len(p) >= 1 /\ p[1] # TRASH
         /\ FolderAt(store.rows, ParentOf(p)) /\ ~Covers(p, ParentOf(p))
         /\ RowAt(store, p) \in store.rows /\ RowAt(store, p).path = p
         /\ RowAt(store, p).dir \in BOOLEAN /\ RowAt(store, p).name \in Segments
         /\ \A t \in store.rows : t.path = p => t = RowAt(store, p) /\ t.deleted = FALSE
<1> DEFINE r == RowAt(store, p)
<1>1. r \in store.rows /\ r.path = p /\ p \in Path /\ Len(p) >= 1
      /\ \A t \in store.rows : t.path = p => t = r
  BY RowAtLive
<1> HIDE DEF r
<1>2. r \in RowType /\ r.deleted = FALSE
  <2>1. store.rows \subseteq RowType
    BY DEF StoreInv, RowsInv
  <2>2. ~r.deleted
    BY <1>1 DEF Live
  <2> QED
    BY <1>1, <2>1, <2>2 DEF RowType
<1>3. p[1] # TRASH /\ r.orig = NoPath
  BY <1>1, <1>2 DEF MarksInv, TrashInv
<1>4. FolderAt(store.rows, ParentOf(p))
  <2>1. Columns(r) /\ Placed(store.rows, r)
    BY <1>1 DEF TreeInv
  <2> QED
    BY <1>1, <1>2, <1>3, <2>1 DEF Columns, Placed, FolderAt
<1>5. ~Covers(p, ParentOf(p))
  BY <1>1, ParentCovered DEF Covers
<1>6. r.dir \in BOOLEAN /\ r.name \in Segments
  BY <1>2 DEF RowType
<1> QED
  BY <1>1, <1>2, <1>3, <1>4, <1>5, <1>6 DEF r

TreeIInv == TrashIInv /\ TreeInv(store.rows)

LEMMA TreeStep ==
  ASSUME LikeIsExact, TRASH \notin Names
  PROVE  TreeIInv /\ [Next]_vars => TreeIInv'
<1> SUFFICES ASSUME StoreInv(store), MarksInv(store.rows), TreeInv(store.rows), [Next]_vars
             PROVE  TrashIInv' /\ TreeInv(store'.rows)
  BY DEF TreeIInv, TrashIInv
<1>1. TrashIInv'
  BY TrashStep DEF TrashIInv
<1>2. /\ store \in StoreType /\ RowsInv(store.rows) /\ store.rows \subseteq RowType
      /\ TrashInv(store.rows)
  BY DEF StoreInv, RowsInv, MarksInv
<1>3. \A s : TreeInv(s.rows) /\ Become(s) => TreeInv(store'.rows)
  BY DEF Become
<1>4. ASSUME NEW p, IsFolder(store, p)
      PROVE  FolderAt(store.rows, p) /\ p \in Path
  <2>1. \A r \in store.rows : r.deleted \in BOOLEAN
    BY <1>2 DEF RowType
  <2> QED
    BY <1>4, <2>1, FolderPath DEF IsFolder, FolderAt
<1>5. ASSUME NEW p \in Folders
      PROVE  FolderAt(store.rows, p) /\ p \in Path
  BY <1>4 DEF Folders, IsFolder
<1>6. ASSUME NEW s \in StoreType, TreeInv(s.rows), NEW p, FolderAt(s.rows, ParentOf(p)), NEW c, NEW node
      PROVE  /\ TreeInv(AddStream(s, p, c, node).rows) /\ TreeInv(AddBytes(s, p, c, node).rows)
             /\ TreeInv(AddFolder(s, p, node).rows)
  <2>1. \A dir, sum : TreeInv(s.rows \cup {NewRow(p, dir, sum, node)})
    BY <1>6, InsertedTree DEF FolderAt
  <2>2. /\ AddStream(s, p, c, node).rows \in {s.rows, s.rows \cup {NewRow(p, FALSE, c, node)}}
        /\ AddBytes(s, p, c, node).rows \in {s.rows, s.rows \cup {NewRow(p, FALSE, c, node)}}
        /\ AddFolder(s, p, node).rows \in {s.rows, s.rows \cup {NewRow(p, TRUE, NoSum, node)}}
    BY AddedRows, Zenon
  <2>3. \A rows : rows \in {s.rows, s.rows \cup {NewRow(p, FALSE, c, node)}} => TreeInv(rows)
    BY <1>6, <2>1
  <2>4. \A rows : rows \in {s.rows, s.rows \cup {NewRow(p, TRUE, NoSum, node)}} => TreeInv(rows)
    BY <1>6, <2>1
  <2> QED
    BY <2>2, <2>3, <2>4, Zenon
<1>7. ASSUME NEW p, NEW ref \in Refs, IsFile(store, p)
      PROVE  /\ Overwritten(store, p, ref) \in StoreType
             /\ TreeInv(Overwritten(store, p, ref).rows)
             /\ FolderAt(Overwritten(store, p, ref).rows, ParentOf(p))
  <2> DEFINE s == Overwritten(store, p, ref)
  <2>1. s \in StoreType
    BY SnapshotInv, RemoveFileInv DEF Overwritten, StoreInv
  <2>2. s.rows = {r \in store.rows : ~Covers(p, r.path)}
    BY <1>2, OverwrittenExact
  <2> HIDE DEF s
  <2>3. Live(store, p)
    BY <1>7 DEF IsFile, Live
  <2>4. p \in Path /\ FolderAt(store.rows, ParentOf(p)) /\ ~Covers(p, ParentOf(p))
    BY <2>3, LiveParent
  <2>5. TreeInv(s.rows)
    <3>1. {p} \in SUBSET Path
      BY <2>4
    <3>2. TreeInv({r \in store.rows : \A q \in {p} : ~Covers(q, r.path)})
      BY <1>2, <3>1, RemovedTree
    <3>3. {r \in store.rows : \A q \in {p} : ~Covers(q, r.path)} = {r \in store.rows : ~Covers(p, r.path)}
      OBVIOUS
    <3> QED
      BY <2>2, <3>2, <3>3, Zenon
  <2>6. FolderAt(s.rows, ParentOf(p))
    BY <2>2, <2>4 DEF FolderAt
  <2> QED
    BY <2>1, <2>5, <2>6 DEF s
<1>8. ASSUME NEW p, NEW q \in Path, Len(q) >= 1, Live(store, p), FolderAt(store.rows, ParentOf(q)),
             RowAt(store, p).dir => ~Covers(p, ParentOf(q)),
             Become(Relocated(p, q))
      PROVE  TreeInv(store'.rows)
  <2> DEFINE dir == RowAt(store, p).dir
  <2>1. /\ p \in Path /\ Len(p) >= 1 /\ dir \in BOOLEAN
        /\ \A t \in store.rows : t.path = p => t.dir = dir /\ ~t.deleted
    BY <1>8, LiveParent
  <2>2. ~(dir /\ LikeBelow(p, q))
    BY <1>8, <2>1, ParentCovered
  <2>3. ASSUME NEW t \in store.rows, t.path = ParentOf(q), t.dir
        PROVE  ~Gone(p, dir, t)
    <3>1. CASE dir
      BY <1>8, <2>3, <3>1 DEF Gone, Covers
    <3>2. CASE ~dir
      BY <2>1, <2>3, <3>2 DEF Gone
    <3> QED
      BY <3>1, <3>2
  <2>4. \/ ParentOf(q) = Root
        \/ \E t \in store.rows : t.path = ParentOf(q) /\ t.dir /\ ~t.deleted /\ ~Gone(p, dir, t)
    BY <1>8, <2>3 DEF FolderAt
  <2> HIDE DEF dir
  <2>5. TreeInv(RelocateRows(store.rows, p, q, dir))
    BY <1>2, <1>8, <2>1, <2>2, <2>4, RelocateLiveTree
  <2>6. Relocated(p, q).rows = RelocateRows(store.rows, p, q, dir)
    BY DEF Relocated, Relocate, dir
  <2> QED
    BY <1>3, <1>8, <2>5, <2>6
<1>9. ASSUME NEW p \in Path, NEW n \in Segments
      PROVE  Child(p, n) \in Path /\ Len(Child(p, n)) >= 1 /\ ParentOf(Child(p, n)) = p
  BY ChildPath, PathElement
<1>10. ASSUME NEW parent \in Folders, NEW name \in Names, NEW c, NEW n,
              Upload(parent, name, c, n) \/ CreateFolder(parent, name, n)
       PROVE  TreeInv(store'.rows)
  <2>1. name \in Segments
    BY FilesystemAssumption
  <2>2. FolderAt(store.rows, ParentOf(Child(parent, name)))
    BY <1>5, <1>9, <2>1
  <2>3. /\ TreeInv(AddStream(store, Child(parent, name), c, n).rows)
        /\ TreeInv(AddFolder(store, Child(parent, name), n).rows)
    BY <1>2, <1>6, <2>2
  <2>4. Become(AddStream(store, Child(parent, name), c, n)) \/ Become(AddFolder(store, Child(parent, name), n))
    BY <1>10 DEF Upload, CreateFolder
  <2> QED
    BY <1>3, <2>3, <2>4
<1>11. ASSUME NEW p, NEW c, NEW ref \in Refs, UploadOver(p, c, ref) \/ SaveContent(p, c, ref)
       PROVE  TreeInv(store'.rows)
  <2>1. IsFile(store, p)
    BY <1>11 DEF UploadOver, SaveContent
  <2>2. \A node : /\ TreeInv(AddStream(Overwritten(store, p, ref), p, c, node).rows)
                  /\ TreeInv(AddBytes(Overwritten(store, p, ref), p, c, node).rows)
    BY <1>6, <1>7, <2>1
  <2>3. \E node : \/ Become(AddStream(Overwritten(store, p, ref), p, c, node))
                  \/ Become(AddBytes(Overwritten(store, p, ref), p, c, node))
    BY <1>11 DEF UploadOver, SaveContent
  <2> QED
    BY <1>3, <2>2, <2>3
<1>12. ASSUME NEW p, NEW name \in Names, Rename(p, name)
       PROVE  TreeInv(store'.rows)
  <2> DEFINE q == Child(ParentOf(p), name)
  <2>1. Live(store, p) /\ Become(Relocated(p, q)) /\ name \in Segments
    BY <1>12, FilesystemAssumption DEF Rename
  <2>2. p \in Path /\ FolderAt(store.rows, ParentOf(p)) /\ ~Covers(p, ParentOf(p))
    BY <2>1, LiveParent
  <2>3. q \in Path /\ Len(q) >= 1 /\ ParentOf(q) = ParentOf(p)
    BY <1>9, <2>1, <2>2, ParentPath
  <2> HIDE DEF q
  <2> QED
    BY <1>8, <2>1, <2>2, <2>3
<1>13. ASSUME NEW p, NEW parent \in Folders, Move(p, parent)
       PROVE  TreeInv(store'.rows)
  <2> DEFINE q == Child(parent, RowAt(store, p).name)
  <2>1. Live(store, p) /\ Become(Relocated(p, q))
        /\ ~(RowAt(store, p).dir /\ (parent = p \/ Below(p, parent)))
    BY <1>13 DEF Move
  <2>2. p \in Path /\ RowAt(store, p).name \in Segments
    BY <2>1, LiveParent
  <2>3. q \in Path /\ Len(q) >= 1 /\ ParentOf(q) = parent /\ parent \in Path
    BY <1>5, <1>9, <2>2
  <2>4. FolderAt(store.rows, parent)
    BY <1>5
  <2>5. RowAt(store, p).dir => ~Covers(p, parent)
    BY <2>1, <2>2, <2>3, ExactLikeBelow DEF Covers
  <2> HIDE DEF q
  <2> QED
    BY <1>8, <2>1, <2>3, <2>4, <2>5
<1>14. ASSUME NEW p, NEW id \in TrashIds, Delete(p, id)
       PROVE  TreeInv(store'.rows)
  <2> DEFINE name == RowAt(store, p).name
             dir == RowAt(store, p).dir
             t == TrashPath(id, name)
  <2>1. Live(store, p) /\ id \in Segments /\ NothingUnder(store.rows, id)
        /\ Become(SoftDelete(store, p, id))
    BY <1>14, FilesystemAssumption DEF Delete, FreshTrash, NothingUnder
  <2>2. /\ p \in Path /\ Len(p) >= 1 /\ p[1] # TRASH /\ dir \in BOOLEAN /\ name \in Segments
        /\ \A x \in store.rows : x.path = p => x.dir = dir
    BY <2>1, LiveParent
  <2>3. SoftDelete(store, p, id).rows = Stamped(RelocateRows(store.rows, p, t, dir), t, p)
    BY DEF SoftDelete, Relocate
  <2>4. TreeInv(Stamped(RelocateRows(store.rows, p, t, dir), t, p))
    <3> HIDE DEF name, dir
    <3> QED
      BY <1>2, <2>1, <2>2, SoftDeleteTree
  <2> QED
    BY <1>3, <2>1, <2>3, <2>4
<1>15. ASSUME NEW root \in TrashRoots(store), Restore(root)
       PROVE  TreeInv(store'.rows)
  <2>1. root \in store.rows /\ root.orig # NoPath /\ root.deleted
    BY DEF TrashRoots
  <2>2. /\ root.path \in Path /\ Len(root.path) >= 1 /\ root.dir \in BOOLEAN
        /\ root.orig \in Path /\ Len(root.orig) >= 1
    BY <1>2, <2>1 DEF RowType, RowsInv
  <2>3. root.path[1] = TRASH /\ Len(root.path) = 3 /\ root.orig[1] # TRASH
    BY <1>2, <2>1 DEF TrashInv
  <2>4. \A t \in store.rows : t.path = root.path => t.dir = root.dir
    BY <1>2, <2>1 DEF RowsInv, KeysUnique
  <2>5. FolderAt(store.rows, ParentOf(root.orig))
    BY <1>4, <1>15 DEF Restore
  <2>6. TreeInv(Unstamped(RelocateRows(store.rows, root.path, root.orig, root.dir), root.orig))
    <3>1. \/ ParentOf(root.orig) = Root
          \/ \E t \in store.rows : t.path = ParentOf(root.orig) /\ t.dir /\ ~t.deleted
      BY <2>5 DEF FolderAt
    <3> QED
      BY <1>2, <2>2, <2>3, <2>4, <3>1, RestoredTree
  <2>7. Restored(store, root).rows
          = Unstamped(RelocateRows(store.rows, root.path, root.orig, root.dir), root.orig)
    BY DEF Restored, Relocate
  <2> QED
    BY <1>3, <1>15, <2>6, <2>7 DEF Restore
<1>16. ASSUME NEW roots \in SUBSET store.rows, Become(Purged(store, roots))
       PROVE  TreeInv(store'.rows)
  <2> DEFINE P == {t.path : t \in roots}
  <2>1. P \in SUBSET Path
    BY <1>2 DEF RowType
  <2>2. TreeInv({r \in store.rows : \A p \in P : ~Covers(p, r.path)})
    BY <1>2, <2>1, RemovedTree
  <2>3. Purged(store, roots).rows = {r \in store.rows : \A p \in P : ~Covers(p, r.path)}
    BY DEF Purged, CoveredBy
  <2> QED
    BY <1>3, <1>16, <2>2, <2>3
<1>17. ASSUME EmptyTrash \/ \E root \in TrashRoots(store) : Purge(root)
       PROVE  TreeInv(store'.rows)
  <2>1. TrashRoots(store) \in SUBSET store.rows
    BY DEF TrashRoots
  <2>2. \/ Become(Purged(store, TrashRoots(store)))
        \/ \E root \in TrashRoots(store) : Become(Purged(store, {root}))
    BY <1>17 DEF EmptyTrash, Purge
  <2> QED
    BY <1>16, <2>1, <2>2
<1>18. ASSUME NEW p, NEW v, NEW ref \in Refs, RestoreVersion(p, v, ref)
       PROVE  TreeInv(store'.rows)
  <2> DEFINE s == Snapshot(store, p, ref)
  <2>1. s \in StoreType /\ s.rows = store.rows
    BY <1>2, SnapshotInv, OverwrittenRows DEF StoreInv
  <2> HIDE DEF s
  <2>2. RolledBack(s, p, v).rows = Rehashed(store.rows, p, v.sum)
    <3>1. s \in [rows : SUBSET RowType, versions : SUBSET VersionType, disk : SUBSET EntryType]
      BY <2>1 DEF StoreType
    <3> QED
      BY <2>1, <3>1 DEF RolledBack
  <2>3. TreeInv(Rehashed(store.rows, p, v.sum))
    BY <1>2, UpdatedTree
  <2> QED
    BY <1>3, <1>18, <2>2, <2>3 DEF RestoreVersion, s
<1>19. ASSUME NEW p, NEW b, SetFavorite(p, b)
       PROVE  TreeInv(store'.rows)
  <2>1. [store EXCEPT !.rows = Starred(store.rows, p, b)].rows = Starred(store.rows, p, b)
    BY <1>2 DEF StoreType
  <2>2. TreeInv(Starred(store.rows, p, b))
    BY <1>2, UpdatedTree
  <2> QED
    BY <1>3, <1>19, <2>1, <2>2 DEF SetFavorite
<1>20. ASSUME UNCHANGED vars
       PROVE  TreeInv(store'.rows)
  BY <1>20 DEF vars
<1>21. TreeInv(store'.rows)
  BY <1>10, <1>11, <1>12, <1>13, <1>14, <1>15, <1>17, <1>18, <1>19, <1>20 DEF Next
<1> QED
  BY <1>1, <1>21

(* The rows form one tree, by their paths and by their name and parent     *)
(* columns alike: however uploads, renames, moves, deletes, restores and   *)
(* purges of whole subtrees follow each other, no entry is left without    *)
(* its folder, on the live side or in the trash.                           *)
THEOREM TreeStaysClosed ==
  ASSUME LikeIsExact, TRASH \notin Names
  PROVE  Spec => []TreeClosed
<1>1. Init => TreeIInv
  BY TrashInit DEF TreeIInv, Init, EmptyStore, TreeInv
<1>2. TreeIInv /\ [Next]_vars => TreeIInv'
  BY TreeStep
<1>3. TreeIInv => TreeClosed
  BY DEF TreeIInv, TrashIInv, StoreInv, RowsInv, KeysUnique, TreeInv, Columns, Placed, TreeClosed
<1> QED
  BY <1>1, <1>2, <1>3, PTL DEF Spec

----------------------------------------------------------------------------
(***************************************************************************)
(* For any names, contents and requests, with an exact LIKE and no user    *)
(* entry named .trash or .versions: the disk holds what the rows say, the  *)
(* versions keep their files, and no request loses a content.              *)
(*                                                                         *)
(* The invariant reads the tables as what they promise the disk holds:     *)
(* the Bytes of the rows and the Blobs of the versions.  Rooted: what lies *)
(* above an entry is a directory, so nothing lies below a file and no      *)
(* insertion can fail half way.  Stored: the disk is exactly what is       *)
(* promised.  Attached: every version has its file.  Unreserved: no row is *)
(* in the directory of the blobs, nor would be after a restore.            *)
(***************************************************************************)

(* Subtrees.                                                               *)

AtOrBelow(p, q) == q = p \/ Below(p, q)

LEMMA BelowElements ==
  ASSUME NEW p \in Path, NEW q \in Path
  PROVE  Below(p, q) <=> Len(p) < Len(q) /\ \A i \in 1 .. Len(p) : q[i] = p[i]
<1>1. ASSUME Len(p) < Len(q)
      PROVE  /\ SubSeq(q, 1, Len(p)) \in Path
             /\ Len(SubSeq(q, 1, Len(p))) = Len(p)
             /\ \A i \in 1 .. Len(p) : SubSeq(q, 1, Len(p))[i] = q[i]
  BY <1>1, PrefixPath, PathElement
<1>2. ASSUME Below(p, q)
      PROVE  Len(p) < Len(q) /\ \A i \in 1 .. Len(p) : q[i] = p[i]
  BY <1>1, <1>2 DEF Below
<1>3. ASSUME Len(p) < Len(q), \A i \in 1 .. Len(p) : q[i] = p[i]
      PROVE  Below(p, q)
  BY <1>1, <1>3, PathEqual DEF Below
<1> QED
  BY <1>2, <1>3

LEMMA BelowTrans ==
  ASSUME NEW p \in Path, NEW q \in Path, NEW r \in Path
  PROVE  /\ Below(p, q) /\ AtOrBelow(q, r) => Below(p, r)
         /\ AtOrBelow(p, q) /\ Below(q, r) => Below(p, r)
         /\ ~Below(p, p)
<1>1. Len(p) \in Nat /\ Len(q) \in Nat /\ Len(r) \in Nat
  BY PathElement
<1>2. Below(p, q) /\ Below(q, r) => Below(p, r)
  BY <1>1, BelowElements
<1>3. ~Below(p, p)
  BY <1>1, BelowElements
<1> QED
  BY <1>2, <1>3 DEF AtOrBelow

(* Two paths above a third one are above one another.                      *)
LEMMA BelowLinear ==
  ASSUME NEW p \in Path, NEW q \in Path, NEW r \in Path, Below(p, r), Below(q, r)
  PROVE  Below(p, q) \/ AtOrBelow(q, p)
<1>1. /\ Len(p) \in Nat /\ Len(q) \in Nat /\ Len(r) \in Nat
      /\ Len(p) < Len(r) /\ Len(q) < Len(r)
      /\ \A i \in 1 .. Len(p) : r[i] = p[i]
      /\ \A i \in 1 .. Len(q) : r[i] = q[i]
  BY PathElement, BelowElements
<1>2. CASE Len(p) < Len(q)
  BY <1>1, <1>2, BelowElements
<1>3. CASE Len(q) < Len(p)
  BY <1>1, <1>3, BelowElements DEF AtOrBelow
<1>4. CASE Len(p) = Len(q)
  BY <1>1, <1>4, PathEqual DEF AtOrBelow
<1> QED
  BY <1>1, <1>2, <1>3, <1>4

LEMMA BelowParent ==
  ASSUME NEW p \in Path, NEW q \in Path, Len(q) >= 1
  PROVE  Below(p, q) <=> AtOrBelow(p, ParentOf(q))
<1> DEFINE u == ParentOf(q)
<1>1. /\ u \in Path /\ Len(u) = Len(q) - 1 /\ \A i \in 1 .. Len(q) - 1 : u[i] = q[i]
      /\ Len(p) \in Nat /\ Len(q) \in Nat
  <2>1. q # Root
    BY DEF Root
  <2> QED
    BY <2>1, ParentPath, PathElement
<1> HIDE DEF u
<1>2. ASSUME Below(p, q), Len(p) < Len(q) - 1
      PROVE  Below(p, u)
  BY <1>1, <1>2, BelowElements
<1>3. ASSUME Below(p, q), Len(p) = Len(q) - 1
      PROVE  u = p
  BY <1>1, <1>3, BelowElements, PathEqual
<1>4. ASSUME AtOrBelow(p, u)
      PROVE  Below(p, q)
  BY <1>1, <1>4, BelowElements DEF AtOrBelow
<1>5. Below(p, q) => Len(p) < Len(q) - 1 \/ Len(p) = Len(q) - 1
  BY <1>1, BelowElements
<1> QED
  BY <1>2, <1>3, <1>4, <1>5 DEF AtOrBelow, u

LEMMA ExactCovers ==
  ASSUME LikeIsExact, NEW p \in Path, NEW q \in Path
  PROVE  Covers(p, q) <=> AtOrBelow(p, q)
  BY ExactLikeBelow DEF Covers, AtOrBelow

(* What is above the new path of a moved entry: something above the new    *)
(* place, the new place, or the new path of something above the entry.     *)
LEMMA AboveRebased ==
  ASSUME NEW old \in Path, NEW new \in Path, NEW q \in Path, AtOrBelow(old, q),
         NEW u \in Path, Below(u, Rebase(old, new, q))
  PROVE  \/ Below(u, new)
         \/ u = new /\ Below(old, q)
         \/ \E w \in Path : Below(old, w) /\ Below(w, q) /\ u = Rebase(old, new, w)
<1>1. /\ Len(old) \in Nat /\ Len(new) \in Nat /\ Len(q) \in Nat /\ Len(u) \in Nat
      /\ Len(old) <= Len(q)
  BY PathElement, BelowElements DEF AtOrBelow
<1>2. PICK m \in Path :
           /\ m = Rebase(old, new, q) /\ Len(m) = Len(new) + (Len(q) - Len(old))
           /\ \A i \in 1 .. Len(new) : m[i] = new[i]
           /\ \A i \in 1 .. Len(q) - Len(old) : m[Len(new) + i] = q[Len(old) + i]
  BY <1>1, RebasePath
<1>3. Len(u) < Len(m) /\ \A i \in 1 .. Len(u) : m[i] = u[i]
  BY <1>2, BelowElements
<1>4. CASE Len(u) < Len(new)
  BY <1>1, <1>2, <1>3, <1>4, BelowElements
<1>5. CASE Len(u) = Len(new)
  <2>1. u = new
    BY <1>1, <1>2, <1>3, <1>5, PathEqual
  <2>2. Len(old) < Len(q)
    BY <1>1, <1>2, <1>3, <1>5
  <2>3. Below(old, q)
    BY <1>1, <2>2 DEF AtOrBelow
  <2> QED
    BY <2>1, <2>3
<1>6. CASE Len(u) > Len(new)
  <2> DEFINE n == Len(old) + (Len(u) - Len(new))
             w == SubSeq(q, 1, n)
  <2>1. n \in Nat /\ n > Len(old) /\ n < Len(q)
    BY <1>1, <1>2, <1>3, <1>6
  <2>2. w \in Path /\ Len(w) = n /\ \A i \in 1 .. n : w[i] = q[i]
    BY <1>1, <2>1, PrefixPath
  <2> HIDE DEF w
  <2>3. Below(w, q)
    BY <1>1, <2>1, <2>2, BelowElements
  <2>4. Below(old, w)
    <3>1. Len(old) < Len(q)
      BY <1>1, <2>1
    <3>2. Below(old, q)
      BY <1>1, <3>1 DEF AtOrBelow
    <3>3. \A i \in 1 .. Len(old) : q[i] = old[i]
      BY <3>2, BelowElements
    <3> QED
      BY <1>1, <2>1, <2>2, <3>3, BelowElements
  <2>5. PICK x \in Path :
             /\ x = Rebase(old, new, w) /\ Len(x) = Len(new) + (Len(w) - Len(old))
             /\ \A i \in 1 .. Len(new) : x[i] = new[i]
             /\ \A i \in 1 .. Len(w) - Len(old) : x[Len(new) + i] = w[Len(old) + i]
    <3>1. Len(old) <= Len(w)
      BY <1>1, <2>1, <2>2
    <3> QED
      BY <2>2, <3>1, RebasePath, ZenonT(40)
  <2>6. Len(x) = Len(u)
    BY <1>1, <2>2, <2>5
  <2>7. ASSUME NEW i \in 1 .. Len(u)
        PROVE  x[i] = u[i]
    <3>1. m[i] = u[i]
      BY <1>3
    <3>2. CASE i <= Len(new)
      BY <1>1, <1>2, <2>5, <3>1, <3>2
    <3>3. CASE i > Len(new)
      <4>1. PICK j \in Nat : i = Len(new) + j /\ j \in 1 .. Len(u) - Len(new)
        <5>1. i - Len(new) \in Nat /\ i = Len(new) + (i - Len(new))
              /\ i - Len(new) \in 1 .. Len(u) - Len(new)
          BY <1>1, <3>3
        <5> QED
          BY <5>1
      <4>2. j \in 1 .. Len(q) - Len(old) /\ j \in 1 .. Len(w) - Len(old)
            /\ Len(old) + j \in 1 .. n
        BY <1>1, <1>2, <1>3, <2>2, <4>1
      <4> QED
        BY <1>2, <2>2, <2>5, <3>1, <4>1, <4>2
    <3> QED
      BY <1>1, <3>2, <3>3
  <2>8. u = x
    BY <2>6, <2>7, PathEqual
  <2> QED
    BY <2>2, <2>3, <2>4, <2>5, <2>8
<1> QED
  BY <1>1, <1>4, <1>5, <1>6

----------------------------------------------------------------------------
(* The rows as the bytes they promise, and the versions as their blobs.    *)

Entry(r) == [path |-> r.path, data |-> IF r.dir THEN DIR ELSE r.sum]
Bytes(rows) == {Entry(r) : r \in rows}
BlobOf(v) == [path |-> Blob(v.ref), data |-> v.sum]
Blobs(versions) == {BlobOf(v) : v \in versions}
Dir(p) == [path |-> p, data |-> DIR]

\* where a row can be: not "/", nor the two levels above a trash root
IsPlace(q) == Len(q) >= 1 /\ (q[1] = TRASH => Len(q) >= 3)

\* every place above p is a directory
RoomAt(B, p) == \A q \in Path : IsPlace(q) /\ Below(q, p) => Dir(q) \in B
Rooted(B) == \A e \in B : RoomAt(B, e.path)

LEMMA RowEntries ==
  ASSUME NEW rows, RowsInv(rows)
  PROVE  /\ Bytes(rows) \in SUBSET EntryType
         /\ \A e \in Bytes(rows) : e.path \in Path /\ Len(e.path) >= 1
         /\ \A e, f \in Bytes(rows) : e.path = f.path => e = f
         /\ \A r \in rows : Entry(r) \in Bytes(rows) /\ Entry(r).path = r.path
                            /\ (Entry(r).data = DIR <=> r.dir)
                            /\ (~r.dir => Entry(r).data = r.sum)
         /\ \A e \in Bytes(rows) : \E r \in rows : e = Entry(r) /\ e.path = r.path
<1>1. ASSUME NEW r \in rows
      PROVE  /\ Entry(r) \in EntryType /\ Entry(r).path = r.path
             /\ r.path \in Path /\ Len(r.path) >= 1
             /\ (Entry(r).data = DIR <=> r.dir)
             /\ (~r.dir => Entry(r).data = r.sum)
  <2>1. r \in RowType /\ (~r.dir => r.sum \in Contents) /\ Len(r.path) >= 1
    BY DEF RowsInv
  <2>2. r.path \in Path /\ r.dir \in BOOLEAN
    BY <2>1 DEF RowType
  <2> QED
    BY <2>1, <2>2, StorageAssumption DEF Entry, EntryType
<1>2. \A r, t \in rows : r.path = t.path => r = t
  BY DEF RowsInv, KeysUnique
<1> QED
  BY <1>1, <1>2 DEF Bytes

LEMMA BlobEntries ==
  ASSUME NEW versions, VersionsInv(versions)
  PROVE  /\ Blobs(versions) \in SUBSET EntryType
         /\ \A e \in Blobs(versions) : e.path \in Path /\ Len(e.path) = 2
                                       /\ e.path[1] = VERSIONS /\ e.data # DIR
         /\ \A v \in versions : BlobOf(v) \in Blobs(versions) /\ BlobOf(v) \in EntryType
                                /\ BlobOf(v).path = Blob(v.ref) /\ BlobOf(v).data = v.sum
<1>1. ASSUME NEW v \in versions
      PROVE  /\ BlobOf(v) \in EntryType /\ BlobOf(v).path = Blob(v.ref) /\ BlobOf(v).data = v.sum
             /\ Blob(v.ref) \in Path /\ Len(Blob(v.ref)) = 2 /\ Blob(v.ref)[1] = VERSIONS
             /\ v.sum # DIR
  <2>1. v \in VersionType
    BY DEF VersionsInv
  <2>2. v.ref \in Refs /\ v.sum \in Contents
    BY <2>1 DEF VersionType
  <2> QED
    BY <2>2, BlobPath, StorageAssumption DEF BlobOf, EntryType
<1> QED
  BY <1>1 DEF Blobs

LEMMA BlobsApart ==
  ASSUME NEW u \in Refs, NEW v \in Refs, Blob(u) = Blob(v)
  PROVE  u = v
<1>1. Blob(u)[2] = u /\ Blob(v)[2] = v
  BY DEF Blob
<1> QED
  BY <1>1

(* makedirs creates nothing for a path whose folders have rows.            *)
LEMMA ParentsThere ==
  ASSUME NEW B, NEW d, B \subseteq d, NEW p \in Path, RoomAt(B, p)
  PROVE  MakeParents(d, p) = d
<1>1. CASE p[1] \in {TRASH, VERSIONS}
  BY <1>1 DEF MakeParents
<1>2. CASE p[1] \notin {TRASH, VERSIONS}
  <2>1. ASSUME NEW i \in 1 .. Len(p) - 1
        PROVE  Dir(SubSeq(p, 1, i)) \in d
    <3>1. Len(p) \in Nat /\ i \in Int /\ i <= Len(p) /\ i >= 1 /\ i < Len(p)
      BY PathElement
    <3>2. /\ SubSeq(p, 1, i) \in Path /\ Len(SubSeq(p, 1, i)) = i
          /\ \A j \in 1 .. i : SubSeq(p, 1, i)[j] = p[j]
      BY <3>1, PrefixPath
    <3>3. SubSeq(p, 1, i)[1] = p[1]
      BY <3>1, <3>2
    <3>4. IsPlace(SubSeq(p, 1, i))
      BY <1>2, <3>1, <3>2, <3>3 DEF IsPlace
    <3>5. Below(SubSeq(p, 1, i), p)
      BY <3>1, <3>2, BelowElements
    <3> QED
      BY <3>2, <3>4, <3>5 DEF RoomAt
  <2> QED
    BY <1>2, <2>1 DEF MakeParents, Dir
<1> QED
  BY <1>1, <1>2

----------------------------------------------------------------------------
(* Moving a subtree on disk and moving its rows are the same.              *)

MovedEntry(old, new, e) ==
  IF AtOrBelow(old, e.path) THEN [e EXCEPT !.path = Rebase(old, new, @)] ELSE e
MovedBytes(B, old, new) == {MovedEntry(old, new, e) : e \in B}

LEMMA MovedEntryFields ==
  ASSUME NEW old \in Path, NEW new \in Path, NEW e \in EntryType
  PROVE  LET m == MovedEntry(old, new, e)
         IN  /\ m.data = e.data
             /\ m.path = IF AtOrBelow(old, e.path) THEN Rebase(old, new, e.path) ELSE e.path
             /\ m = [path |-> m.path, data |-> e.data]
  BY DEF MovedEntry, EntryType

LEMMA PlaceBelow ==
  ASSUME NEW p \in Path, NEW q \in Path, IsPlace(p), AtOrBelow(p, q)
  PROVE  IsPlace(q)
<1>1. Len(p) \in Nat /\ Len(q) \in Nat
  BY PathElement
<1>2. Below(p, q) => Len(p) < Len(q) /\ (Len(p) >= 1 => q[1] = p[1])
  BY <1>1, BelowElements
<1> QED
  BY <1>1, <1>2 DEF IsPlace, AtOrBelow

LEMMA MovedRooted ==
  ASSUME NEW B \in SUBSET EntryType, Rooted(B), NEW old \in Path, NEW new \in Path,
         IsPlace(old), RoomAt(B, new), ~AtOrBelow(old, new)
  PROVE  Rooted(MovedBytes(B, old, new))
<1> DEFINE M == MovedBytes(B, old, new)
<1>1. ASSUME NEW w \in Path, Dir(w) \in B
      PROVE  /\ ~AtOrBelow(old, w) => Dir(w) \in M
             /\ AtOrBelow(old, w) => Dir(Rebase(old, new, w)) \in M
  <2>1. Dir(w) \in EntryType /\ Dir(w).path = w /\ Dir(w).data = DIR
    BY DEF Dir, EntryType
  <2>2. MovedEntry(old, new, Dir(w))
          = Dir(IF AtOrBelow(old, w) THEN Rebase(old, new, w) ELSE w)
    BY <2>1, MovedEntryFields DEF Dir
  <2>3. MovedEntry(old, new, Dir(w)) \in M
    BY <1>1 DEF MovedBytes
  <2> QED
    BY <2>2, <2>3
<1>2. ASSUME NEW e \in B, NEW u \in Path, IsPlace(u), Below(u, MovedEntry(old, new, e).path)
      PROVE  Dir(u) \in M
  <2>1. e \in EntryType /\ e.path \in Path
    BY DEF EntryType
  <2>2. CASE ~AtOrBelow(old, e.path)
    <3>1. Below(u, e.path)
      BY <1>2, <2>1, <2>2, MovedEntryFields
    <3>2. Dir(u) \in B
      BY <1>2, <2>1, <3>1 DEF Rooted, RoomAt
    <3>3. ~AtOrBelow(old, u)
      BY <2>1, <2>2, <3>1, BelowTrans DEF AtOrBelow
    <3> QED
      BY <1>1, <3>2, <3>3
  <2>3. CASE AtOrBelow(old, e.path)
    <3>1. Below(u, Rebase(old, new, e.path))
      BY <1>2, <2>1, <2>3, MovedEntryFields
    <3>2. CASE Below(u, new)
      <4>1. Dir(u) \in B
        BY <1>2, <3>2 DEF RoomAt
      <4>2. ~AtOrBelow(old, u)
        BY <3>2, BelowTrans DEF AtOrBelow
      <4> QED
        BY <1>1, <4>1, <4>2
    <3>3. CASE u = new /\ Below(old, e.path)
      <4>1. Dir(old) \in B
        BY <3>3, <2>1 DEF Rooted, RoomAt
      <4>2. Rebase(old, new, old) = new
        <5>1. Len(old) \in Nat
          BY PathElement
        <5>2. /\ Rebase(old, new, old) \in Path /\ Len(Rebase(old, new, old)) = Len(new)
              /\ \A i \in 1 .. Len(new) : Rebase(old, new, old)[i] = new[i]
          BY <5>1, RebasePath, PathElement
        <5> QED
          BY <5>2, PathEqual
      <4> QED
        BY <1>1, <3>3, <4>1, <4>2 DEF AtOrBelow
    <3>4. ASSUME NEW w \in Path, Below(old, w), Below(w, e.path), u = Rebase(old, new, w)
          PROVE  Dir(u) \in M
      <4>1. IsPlace(w)
        BY <3>4, PlaceBelow DEF AtOrBelow
      <4>2. Dir(w) \in B
        BY <2>1, <3>4, <4>1 DEF Rooted, RoomAt
      <4> QED
        BY <1>1, <3>4, <4>2 DEF AtOrBelow
    <3> QED
      BY <1>2, <2>1, <2>3, <3>1, <3>2, <3>3, <3>4, AboveRebased
  <2> QED
    BY <2>2, <2>3
<1> QED
  BY <1>2 DEF Rooted, RoomAt, MovedBytes

LEMMA RenamedDisk ==
  ASSUME NEW B \in SUBSET EntryType, NEW versions, VersionsInv(versions),
         NEW old \in Path, NEW new \in Path, RoomAt(B, new),
         Len(old) >= 1, old[1] # VERSIONS, Len(new) >= 1, new[1] # VERSIONS,
         \A e \in B : e.path # new, \E e \in B : e.path = old
  PROVE  RenameOn(B \cup Blobs(versions), old, new) = MovedBytes(B, old, new) \cup Blobs(versions)
<1> DEFINE d == B \cup Blobs(versions)
<1>1. MakeParents(d, new) = d
  BY ParentsThere
<1>2. OnDisk(d, old)
  BY DEF OnDisk
<1>3. ASSUME NEW e \in Blobs(versions)
      PROVE  e.path # new /\ MovedEntry(old, new, e) = e
  <2>1. e.path \in Path /\ Len(e.path) = 2 /\ e.path[1] = VERSIONS
    BY BlobEntries
  <2>2. ~Below(old, e.path)
    <3>1. Len(old) \in Nat
      BY PathElement
    <3> QED
      BY <2>1, <3>1, BelowElements
  <2> QED
    BY <2>1, <2>2 DEF MovedEntry, AtOrBelow
<1>4. {e \in d : e.path # new} = d
  BY <1>3
<1> HIDE DEF d
<1>5. RenameOn(d, old, new) = {MovedEntry(old, new, e) : e \in d}
  BY <1>1, <1>2, <1>4 DEF RenameOn, MovedEntry, AtOrBelow
<1>6. {MovedEntry(old, new, e) : e \in d} = MovedBytes(B, old, new) \cup Blobs(versions)
  BY <1>3 DEF d, MovedBytes
<1> QED
  BY <1>5, <1>6 DEF d

(* A file has nothing below it, so a move of a file moves one entry.       *)
LEMMA FileIsLeaf ==
  ASSUME NEW rows, RowsInv(rows), Rooted(Bytes(rows)), NEW r \in rows, IsPlace(r.path),
         NEW t \in rows, Below(r.path, t.path)
  PROVE  r.dir
<1>1. Dir(r.path) \in Bytes(rows)
  <2>1. Entry(t) \in Bytes(rows) /\ Entry(t).path = t.path
    BY RowEntries
  <2>2. r.path \in Path
    BY DEF RowsInv, RowType
  <2> QED
    BY <2>1, <2>2 DEF Rooted, RoomAt
<1>2. Entry(r) \in Bytes(rows) /\ Entry(r).path = r.path /\ (Entry(r).data = DIR <=> r.dir)
  BY RowEntries
<1>3. Dir(r.path).path = r.path /\ Dir(r.path).data = DIR
  BY DEF Dir
<1> QED
  BY <1>1, <1>2, <1>3, RowEntries

LEMMA MovedRows ==
  ASSUME LikeIsExact, NEW rows, RowsInv(rows), Rooted(Bytes(rows)),
         NEW old \in Path, IsPlace(old), NEW new \in Path, Len(new) >= 1, ~AtOrBelow(old, new),
         NEW o \in rows, o.path = old
  PROVE  Bytes(RelocateRows(rows, old, new, o.dir)) = MovedBytes(Bytes(rows), old, new)
<1>1. ASSUME NEW r \in rows
      PROVE  Entry(MovedRow(old, new, o.dir, r)) = MovedEntry(old, new, Entry(r))
  <2> DEFINE m == MovedRow(old, new, o.dir, r)
  <2>1. r \in RowType /\ r.path \in Path /\ Len(r.path) >= 1 /\ o.dir \in BOOLEAN
    BY DEF RowsInv, RowType
  <2>2. m.path = MovedPath(old, new, o.dir, r.path) /\ m.dir = r.dir /\ m.sum = r.sum
    BY <2>1, MovedRowFields
  <2> HIDE DEF m
  <2>3. Entry(r) \in EntryType /\ Entry(r).path = r.path
    BY RowEntries
  <2>4. MovedPath(old, new, o.dir, r.path)
          = IF AtOrBelow(old, r.path) THEN Rebase(old, new, r.path) ELSE r.path
    <3>1. CASE r.path = old
      <4>1. Rebase(old, new, old) = new
        <5>1. /\ Rebase(old, new, old) \in Path /\ Len(Rebase(old, new, old)) = Len(new)
              /\ \A i \in 1 .. Len(new) : Rebase(old, new, old)[i] = new[i]
          BY RebasePath, PathElement
        <5> QED
          BY <5>1, PathEqual
      <4>2. ~LikeBelow(old, new)
        BY ExactLikeBelow DEF AtOrBelow
      <4> QED
        BY <3>1, <4>1, <4>2 DEF MovedPath, AtOrBelow
    <3>2. CASE r.path # old
      <4>1. LikeBelow(old, r.path) <=> Below(old, r.path)
        BY <2>1, ExactLikeBelow
      <4>2. Below(old, r.path) => o.dir
        BY FileIsLeaf
      <4> QED
        BY <3>2, <4>1, <4>2 DEF MovedPath, AtOrBelow
    <3> QED
      BY <3>1, <3>2
  <2>5. MovedEntry(old, new, Entry(r))
          = [path |-> MovedPath(old, new, o.dir, r.path), data |-> Entry(r).data]
    BY <2>3, <2>4, MovedEntryFields
  <2>6. Entry(r).data = IF r.dir THEN DIR ELSE r.sum
    BY DEF Entry
  <2>7. Entry(m) = [path |-> m.path, data |-> IF m.dir THEN DIR ELSE m.sum]
    BY DEF Entry
  <2> QED
    BY <2>2, <2>5, <2>6, <2>7 DEF m
<1>2. Bytes(RelocateRows(rows, old, new, o.dir)) = {Entry(MovedRow(old, new, o.dir, r)) : r \in rows}
  BY DEF Bytes, RelocateRows
<1>3. MovedBytes(Bytes(rows), old, new) = {MovedEntry(old, new, Entry(r)) : r \in rows}
  BY DEF Bytes, MovedBytes
<1> QED
  BY <1>1, <1>2, <1>3

----------------------------------------------------------------------------
(* What is stored: rows and versions on one side, the disk on the other.   *)

Numbered(versions) ==
  /\ \A u, v \in versions : u.path = v.path /\ u.no = v.no => u = v
  /\ \A v \in versions : \A k \in 1 .. v.no :
       \E u \in versions : u.path = v.path /\ u.no = k
RefsUnique(versions) == \A u, v \in versions : u.ref = v.ref => u = v
Stored(s) ==
  /\ Rooted(Bytes(s.rows))
  /\ s.disk = Bytes(s.rows) \cup Blobs(s.versions)
  /\ RefsUnique(s.versions) /\ Numbered(s.versions)
Attached(s) == \A v \in s.versions : \E r \in s.rows : r.path = v.path /\ ~r.dir

(* The reserved directory of the blobs stays out of the tree.              *)
Plain(p) == p[1] # VERSIONS /\ NameOf(p) # VERSIONS
Unreserved(rows) ==
  \A r \in rows : Plain(r.path) /\ (r.orig # NoPath => Plain(r.orig))

\* What the disk needs of it: no row lies among the blobs.
Apart(rows) == \A r \in rows : r.path[1] # VERSIONS

LEMMA UnreservedApart ==
  ASSUME NEW rows, Unreserved(rows)
  PROVE  Apart(rows)
  BY DEF Unreserved, Plain, Apart

LEMMA OneFileOnDisk ==
  ASSUME NEW s, StoreInv(s), Stored(s), Apart(s.rows), NEW r \in s.rows, ~r.dir
  PROVE  FileOn(s.disk, r.path) = {Entry(r)}
<1>1. /\ Entry(r) \in Bytes(s.rows) /\ Entry(r).path = r.path /\ Entry(r).data # DIR
      /\ \A e, f \in Bytes(s.rows) : e.path = f.path => e = f
  BY RowEntries DEF StoreInv
<1>2. \A e \in Blobs(s.versions) : e.path # r.path
  BY BlobEntries DEF StoreInv, Apart
<1> QED
  BY <1>1, <1>2 DEF Stored, FileOn

LEMMA SnapshotStored ==
  ASSUME NEW s, StoreInv(s), Stored(s), Apart(s.rows), NEW p, NEW ref \in Refs,
         \A e \in s.disk : e.path # Blob(ref)
  PROVE  /\ Stored(Snapshot(s, p, ref)) /\ Snapshot(s, p, ref).rows = s.rows
         /\ Attached(s) => Attached(Snapshot(s, p, ref))
<1> DEFINE n == Snapshot(s, p, ref)
<1>1. CASE ~IsFile(s, p) \/ FileOn(s.disk, p) = {}
  BY <1>1 DEF Snapshot
<1>2. CASE ~(~IsFile(s, p) \/ FileOn(s.disk, p) = {})
  <2> DEFINE r == RowAt(s, p)
             v == [path |-> p, no |-> NextNo(s, p), sum |-> r.sum, ref |-> ref]
  <2>1. r \in s.rows /\ r.path = p /\ ~r.dir /\ r.sum \in Contents /\ p \in Path
    <3>1. Live(s, p)
      BY <1>2 DEF IsFile, Live
    <3> QED
      BY <1>2, <3>1, RowAtLive
  <2> HIDE DEF r
  <2>2. FileOn(s.disk, p) = {Entry(r)} /\ Entry(r).data = r.sum
    <3>1. Entry(r).data = r.sum
      BY <2>1, RowEntries DEF StoreInv
    <3>2. FileOn(s.disk, r.path) = {Entry(r)}
      BY <2>1, OneFileOnDisk
    <3> QED
      BY <2>1, <3>1, <3>2
  <2>3. s.disk \cup {[e EXCEPT !.path = Blob(ref)] : e \in FileOn(s.disk, p)} = s.disk \cup {BlobOf(v)}
    <3>1. [Entry(r) EXCEPT !.path = Blob(ref)] = [path |-> Blob(ref), data |-> r.sum]
      BY <2>2 DEF Entry
    <3>2. BlobOf(v) = [path |-> Blob(ref), data |-> r.sum]
      BY DEF BlobOf
    <3> QED
      BY <2>2, <3>1, <3>2
  <2>4. n.disk = s.disk \cup {BlobOf(v)} /\ n.versions = s.versions \cup {v} /\ n.rows = s.rows
    <3>1. s = [rows |-> s.rows, versions |-> s.versions, disk |-> s.disk]
      BY DEF StoreInv, StoreType
    <3>2. n = [[s EXCEPT !.disk = s.disk \cup {[e EXCEPT !.path = Blob(ref)] : e \in FileOn(s.disk, p)}]
                 EXCEPT !.versions = s.versions \cup {v}]
      BY <1>2, <3>1 DEF Snapshot, r
    <3> QED
      BY <2>3, <3>1, <3>2
  <2>5. v.path = p /\ v.no = NextNo(s, p) /\ v.ref = ref /\ v.sum = r.sum
    OBVIOUS
  <2> HIDE DEF v, n
  <2>6. RefsUnique(n.versions)
    <3>1. ASSUME NEW u \in s.versions, u.ref = ref
          PROVE  FALSE
      <4>1. BlobOf(u) \in s.disk /\ BlobOf(u).path = Blob(ref)
        BY <3>1, BlobEntries DEF Stored, StoreInv
      <4> QED
        BY <4>1
    <3> QED
      BY <2>4, <2>5, <3>1 DEF Stored, RefsUnique
  <2>7. Numbered(n.versions)
    <3>1. \A u \in s.versions : u.no \in Nat /\ u.no >= 1
      BY DEF StoreInv, VersionsInv, VersionType
    <3>2. NextNo(s, p) \in Nat \ {0}
      BY NextNoType
    <3>3. PICK m \in Nat : NextNo(s, p) = m + 1
      BY <3>2
    <3>4. /\ \A u \in s.versions : u.path = p => u.no <= m
          /\ m # 0 => \E u \in s.versions : u.path = p /\ u.no = m
          /\ v.no = m + 1
      BY <2>5, <3>1, <3>3, NextNoIsNext
    <3>5. \A u \in s.versions : u.path = p => u.no # v.no
      BY <3>1, <3>4
    <3>6. ASSUME NEW k \in 1 .. v.no
          PROVE  \E u \in n.versions : u.path = v.path /\ u.no = k
      <4>1. CASE k = v.no
        BY <2>4, <4>1
      <4>2. CASE k # v.no
        <5>1. k \in 1 .. m
          BY <3>4, <4>2
        <5>2. PICK u \in s.versions : u.path = p /\ u.no = m
          BY <3>4, <5>1
        <5>3. \E w \in s.versions : w.path = u.path /\ w.no = k
          BY <5>1, <5>2 DEF Stored, Numbered
        <5> QED
          BY <2>4, <2>5, <5>2, <5>3
      <4> QED
        BY <4>1, <4>2
    <3>7. \A u, w \in s.versions : u.path = w.path /\ u.no = w.no => u = w
      BY DEF Stored, Numbered
    <3>8. \A w \in s.versions : \A k \in 1 .. w.no : \E u \in s.versions : u.path = w.path /\ u.no = k
      BY DEF Stored, Numbered
    <3>9. \A u, w \in n.versions : u.path = w.path /\ u.no = w.no => u = w
      BY <2>4, <2>5, <3>5, <3>7
    <3> QED
      BY <2>4, <3>6, <3>8, <3>9 DEF Numbered
  <2>8. n.disk = Bytes(n.rows) \cup Blobs(n.versions)
    <3>1. Blobs(n.versions) = Blobs(s.versions) \cup {BlobOf(v)}
      BY <2>4 DEF Blobs
    <3> QED
      BY <2>4, <3>1 DEF Stored
  <2>9. Attached(s) => Attached(n)
    BY <2>1, <2>4, <2>5 DEF Attached
  <2> QED
    BY <2>4, <2>6, <2>7, <2>8, <2>9 DEF Stored, n
<1> QED
  BY <1>1, <1>2

(* remove_file on a file: its row and its bytes go, and nothing else.      *)
LEMMA RemovedStored ==
  ASSUME LikeIsExact, NEW s, StoreInv(s), Stored(s), Apart(s.rows),
         NEW r \in s.rows, ~r.dir, IsPlace(r.path)
  PROVE  /\ Stored(RemoveFile(s, r.path))
         /\ Bytes(RemoveFile(s, r.path).rows) = Bytes(s.rows) \ {Entry(r)}
         /\ RemoveFile(s, r.path).rows = s.rows \ {r}
         /\ RemoveFile(s, r.path).versions = s.versions
<1> DEFINE n == RemoveFile(s, r.path)
<1>1. /\ n.rows = {t \in s.rows : ~Covers(r.path, t.path)}
      /\ n.disk = RemoveFileOn(s.disk, r.path) /\ n.versions = s.versions
  <2>1. s = [rows |-> s.rows, versions |-> s.versions, disk |-> s.disk]
    BY DEF StoreInv, StoreType
  <2>2. n = [[s EXCEPT !.rows = {t \in s.rows : ~Covers(r.path, t.path)}]
               EXCEPT !.disk = RemoveFileOn(s.disk, r.path)]
    BY <2>1 DEF RemoveFile
  <2> QED
    BY <2>1, <2>2
<1> HIDE DEF n
<1>2. RowsInv(s.rows) /\ r.path \in Path /\ \A t \in s.rows : t.path \in Path
  BY DEF StoreInv, RowsInv, RowType
<1>3. n.rows = s.rows \ {r}
  <2>1. ASSUME NEW t \in s.rows
        PROVE  Covers(r.path, t.path) <=> t = r
    <3>1. Covers(r.path, t.path) <=> AtOrBelow(r.path, t.path)
      BY <1>2, ExactCovers
    <3>2. ~Below(r.path, t.path)
      BY <1>2, FileIsLeaf DEF Stored
    <3>3. t.path = r.path <=> t = r
      BY <1>2 DEF RowsInv, KeysUnique
    <3> QED
      BY <3>1, <3>2, <3>3 DEF AtOrBelow
  <2> QED
    BY <1>1, <2>1
<1>4. /\ Entry(r) \in Bytes(s.rows) /\ Entry(r).path = r.path /\ Entry(r).data # DIR
      /\ \A e, f \in Bytes(s.rows) : e.path = f.path => e = f
  BY <1>2, RowEntries
<1>5. Bytes(n.rows) = Bytes(s.rows) \ {Entry(r)}
  <2>1. \A t \in s.rows : Entry(t).path = t.path
    BY <1>2, RowEntries
  <2>2. \A t \in s.rows : t.path = r.path => t = r
    BY <1>2 DEF RowsInv, KeysUnique
  <2> QED
    BY <1>3, <2>1, <2>2 DEF Bytes
<1>6. n.disk = Bytes(n.rows) \cup Blobs(n.versions)
  <2>1. FileOn(s.disk, r.path) = {Entry(r)}
    BY OneFileOnDisk
  <2>2. Entry(r) \notin Blobs(s.versions)
    BY <1>4, BlobEntries DEF StoreInv, Apart
  <2> QED
    BY <1>1, <1>5, <2>1, <2>2 DEF RemoveFileOn, Stored
<1>7. Rooted(Bytes(n.rows))
  <2>1. \A q : Dir(q) # Entry(r)
    BY <1>4 DEF Dir
  <2> QED
    BY <1>5, <2>1 DEF Stored, Rooted, RoomAt
<1> QED
  BY <1>1, <1>3, <1>5, <1>6, <1>7 DEF Stored, n

----------------------------------------------------------------------------
(* A new entry: where there is room for a row there is room on disk.       *)

LEMMA NothingThere ==
  ASSUME NEW s, StoreInv(s), Stored(s), NEW p \in Path, IsPlace(p), p[1] \notin {TRASH, VERSIONS},
         ~HasKey(s, p), RoomAt(Bytes(s.rows), p)
  PROVE  /\ ~OnDisk(s.disk, p) /\ ~ParentIsFile(s.disk, p) /\ FileOn(s.disk, p) = {}
         /\ MakeParents(s.disk, p) = s.disk
<1>1. /\ \A e \in Bytes(s.rows) : e.path # p /\ e.path \in Path
      /\ \A e \in Blobs(s.versions) : e.path \in Path /\ e.path[1] # p[1]
      /\ \A e, f \in Bytes(s.rows) : e.path = f.path => e = f
  BY RowEntries, BlobEntries DEF StoreInv, HasKey
<1>2. \A e \in Bytes(s.rows) : ~Below(p, e.path)
  <2>1. ASSUME NEW e \in Bytes(s.rows), Below(p, e.path)
        PROVE  FALSE
    <3>1. Dir(p) \in Bytes(s.rows)
      BY <2>1 DEF Stored, Rooted, RoomAt
    <3>2. Dir(p).path = p
      BY DEF Dir
    <3> QED
      BY <1>1, <3>1, <3>2
  <2> QED
    BY <2>1
<1>3. \A e \in Blobs(s.versions) : ~Below(p, e.path)
  <2>1. Len(p) \in Nat /\ Len(p) >= 1
    BY PathElement DEF IsPlace
  <2> QED
    BY <1>1, <2>1, BelowElements
<1>4. ~OnDisk(s.disk, p)
  BY <1>1, <1>2, <1>3 DEF OnDisk, Stored
<1>5. FileOn(s.disk, p) = {}
  BY <1>4 DEF OnDisk, FileOn
<1>6. ASSUME NEW i \in 1 .. Len(p) - 1
      PROVE  FileOn(s.disk, SubSeq(p, 1, i)) = {}
  <2> DEFINE q == SubSeq(p, 1, i)
  <2>1. Len(p) \in Nat /\ i \in Int /\ i <= Len(p) /\ i >= 1 /\ i < Len(p)
    BY PathElement
  <2>2. q \in Path /\ Len(q) = i /\ \A j \in 1 .. i : q[j] = p[j]
    BY <2>1, PrefixPath
  <2>3. q[1] = p[1]
    BY <2>1, <2>2
  <2> HIDE DEF q
  <2>4. IsPlace(q) /\ Below(q, p)
    BY <2>1, <2>2, <2>3, BelowElements DEF IsPlace
  <2>5. Dir(q) \in Bytes(s.rows) /\ Dir(q).path = q /\ Dir(q).data = DIR
    BY <2>2, <2>4 DEF RoomAt, Dir
  <2>6. \A e \in s.disk : e.path = q => e.data = DIR
    BY <1>1, <2>3, <2>5 DEF Stored
  <2> QED
    BY <2>6 DEF FileOn, q
<1>7. MakeParents(s.disk, p) = s.disk
  <2>1. Bytes(s.rows) \subseteq s.disk
    BY DEF Stored
  <2> QED
    BY <2>1, ParentsThere
<1> QED
  BY <1>4, <1>5, <1>6, <1>7 DEF ParentIsFile

LEMMA InsertedStored ==
  ASSUME NEW s, StoreInv(s), Stored(s), NEW p \in Path, RoomAt(Bytes(s.rows), p),
         NEW dir \in BOOLEAN, NEW sum, NEW node,
         NEW n, n.rows = s.rows \cup {NewRow(p, dir, sum, node)}, n.versions = s.versions,
         n.disk = s.disk \cup {[path |-> p, data |-> IF dir THEN DIR ELSE sum]}
  PROVE  Stored(n)
<1> DEFINE e == [path |-> p, data |-> IF dir THEN DIR ELSE sum]
<1>1. Entry(NewRow(p, dir, sum, node)) = e
  BY DEF Entry, NewRow
<1>2. Bytes(n.rows) = Bytes(s.rows) \cup {e}
  BY <1>1 DEF Bytes
<1>3. e.path = p
  OBVIOUS
<1> HIDE DEF e
<1>4. Rooted(Bytes(n.rows))
  BY <1>2, <1>3 DEF Stored, Rooted, RoomAt
<1> QED
  BY <1>2, <1>4 DEF Stored, e

Inserted(n, s, r) == Stored(n) /\ n.rows = s.rows \cup {r} /\ n.versions = s.versions

LEMMA AddedStored ==
  ASSUME NEW s, StoreInv(s), Stored(s), NEW p \in Path, IsPlace(p), p[1] \notin {TRASH, VERSIONS},
         ~HasKey(s, p), RoomAt(Bytes(s.rows), p), NEW c, NEW node
  PROVE  /\ Inserted(AddStream(s, p, c, node), s, NewRow(p, FALSE, c, node))
         /\ Inserted(AddBytes(s, p, c, node), s, NewRow(p, FALSE, c, node))
         /\ Inserted(AddFolder(s, p, node), s, NewRow(p, TRUE, NoSum, node))
<1>1. /\ ~OnDisk(s.disk, p) /\ ~ParentIsFile(s.disk, p) /\ FileOn(s.disk, p) = {}
      /\ MakeParents(s.disk, p) = s.disk
  BY NothingThere
<1>2. ~WriteFails(s.disk, p)
  BY <1>1 DEF WriteFails, IsDirOn
<1>3. WriteFile(s.disk, p, c) = s.disk \cup {[path |-> p, data |-> c]}
  BY <1>1 DEF WriteFile, OnDisk
<1>4. s = [rows |-> s.rows, versions |-> s.versions, disk |-> s.disk]
  BY DEF StoreInv, StoreType
<1>5. ASSUME NEW a, NEW b
      PROVE  /\ [[s EXCEPT !.disk = a] EXCEPT !.rows = b]
                  = [rows |-> b, versions |-> s.versions, disk |-> a]
             /\ [[s EXCEPT !.rows = b] EXCEPT !.disk = a]
                  = [rows |-> b, versions |-> s.versions, disk |-> a]
  <2> DEFINE x == [s EXCEPT !.disk = a]
             y == [s EXCEPT !.rows = b]
  <2>1. /\ x = [rows |-> s.rows, versions |-> s.versions, disk |-> a]
        /\ y = [rows |-> b, versions |-> s.versions, disk |-> s.disk]
    BY <1>4
  <2> HIDE DEF x, y
  <2>2. [x EXCEPT !.rows = b] = [rows |-> b, versions |-> s.versions, disk |-> a]
    BY <2>1
  <2>3. [y EXCEPT !.disk = a] = [rows |-> b, versions |-> s.versions, disk |-> a]
    BY <2>1
  <2> QED
    BY <2>2, <2>3 DEF x, y
<1>7. AddStream(s, p, c, node)
        = [rows |-> s.rows \cup {NewRow(p, FALSE, c, node)}, versions |-> s.versions,
           disk |-> s.disk \cup {[path |-> p, data |-> c]}]
  BY <1>2, <1>3, <1>5 DEF AddStream
<1>8. AddBytes(s, p, c, node)
        = [rows |-> s.rows \cup {NewRow(p, FALSE, c, node)}, versions |-> s.versions,
           disk |-> s.disk \cup {[path |-> p, data |-> c]}]
  BY <1>2, <1>3, <1>5 DEF AddBytes
<1>9. AddFolder(s, p, node)
        = [rows |-> s.rows \cup {NewRow(p, TRUE, NoSum, node)}, versions |-> s.versions,
           disk |-> s.disk \cup {[path |-> p, data |-> DIR]}]
  BY <1>1, <1>5 DEF AddFolder
<1>10. /\ Stored(AddStream(s, p, c, node))
       /\ AddStream(s, p, c, node).rows = s.rows \cup {NewRow(p, FALSE, c, node)}
       /\ AddStream(s, p, c, node).versions = s.versions
  <2>1. /\ AddStream(s, p, c, node).rows = s.rows \cup {NewRow(p, FALSE, c, node)}
        /\ AddStream(s, p, c, node).versions = s.versions
        /\ AddStream(s, p, c, node).disk = s.disk \cup {[path |-> p, data |-> c]}
    BY <1>7
  <2> QED
    BY <2>1, InsertedStored
<1>11. /\ Stored(AddBytes(s, p, c, node))
       /\ AddBytes(s, p, c, node).rows = s.rows \cup {NewRow(p, FALSE, c, node)}
       /\ AddBytes(s, p, c, node).versions = s.versions
  BY <1>7, <1>8, <1>10
<1>12. /\ Stored(AddFolder(s, p, node))
       /\ AddFolder(s, p, node).rows = s.rows \cup {NewRow(p, TRUE, NoSum, node)}
       /\ AddFolder(s, p, node).versions = s.versions
  <2>1. /\ AddFolder(s, p, node).rows = s.rows \cup {NewRow(p, TRUE, NoSum, node)}
        /\ AddFolder(s, p, node).versions = s.versions
        /\ AddFolder(s, p, node).disk = s.disk \cup {[path |-> p, data |-> DIR]}
    BY <1>9
  <2> QED
    BY <2>1, InsertedStored
<1> QED
  BY <1>10, <1>11, <1>12 DEF Inserted

----------------------------------------------------------------------------
(* _relocate_subtree: two versions of one path stay together, those of two *)
(* paths apart, as no two rows end up at one path.                         *)

LEMMA RelocatedHistory ==
  ASSUME NEW s, StoreInv(s), Attached(s), RefsUnique(s.versions), Numbered(s.versions),
         NEW old \in Path, NEW new \in Path, Len(new) >= 1, NEW dir \in BOOLEAN,
         ~KeyClash(s.rows, old, new, dir)
  PROVE  /\ RefsUnique(RelocateVersions(s.versions, old, new, dir))
         /\ Numbered(RelocateVersions(s.versions, old, new, dir))
         /\ Blobs(RelocateVersions(s.versions, old, new, dir)) = Blobs(s.versions)
         /\ \A v \in RelocateVersions(s.versions, old, new, dir) :
              \E r \in RelocateRows(s.rows, old, new, dir) : r.path = v.path /\ ~r.dir
<1> DEFINE M(v) == [v EXCEPT !.path = MovedPath(old, new, dir, @)]
           W == RelocateVersions(s.versions, old, new, dir)
<1>1. ASSUME NEW v \in s.versions
      PROVE  /\ M(v).path = MovedPath(old, new, dir, v.path) /\ M(v).no = v.no
             /\ M(v).ref = v.ref /\ M(v).sum = v.sum /\ BlobOf(M(v)) = BlobOf(v)
             /\ v.no \in Nat
  <2>1. v \in VersionType
    BY DEF StoreInv, VersionsInv
  <2> QED
    BY <2>1 DEF VersionType, BlobOf
<1>2. W = {M(v) : v \in s.versions}
  BY DEF RelocateVersions
<1> HIDE DEF M, W
<1>3. RefsUnique(W)
  BY <1>1, <1>2 DEF RefsUnique
<1>4. Blobs(W) = Blobs(s.versions)
  BY <1>1, <1>2 DEF Blobs
<1>5. ASSUME NEW u \in s.versions, NEW v \in s.versions,
             MovedPath(old, new, dir, u.path) = MovedPath(old, new, dir, v.path)
      PROVE  u.path = v.path
  <2>1. PICK r \in s.rows, t \in s.rows : r.path = u.path /\ t.path = v.path
    BY DEF Attached
  <2>2. r = t
    BY <1>5, <2>1 DEF KeyClash
  <2> QED
    BY <2>1, <2>2
<1>6. Numbered(W)
  <2>1. ASSUME NEW u \in s.versions, NEW v \in s.versions, M(u).path = M(v).path, M(u).no = M(v).no
        PROVE  M(u) = M(v)
    BY <1>1, <1>5, <2>1 DEF Numbered
  <2>2. ASSUME NEW v \in s.versions, NEW k \in 1 .. M(v).no
        PROVE  \E u \in W : u.path = M(v).path /\ u.no = k
    <3>1. PICK u \in s.versions : u.path = v.path /\ u.no = k
      BY <1>1, <2>2 DEF Numbered
    <3> QED
      BY <1>1, <1>2, <3>1
  <2> QED
    BY <1>2, <2>1, <2>2 DEF Numbered
<1>7. ASSUME NEW v \in s.versions
      PROVE  \E r \in RelocateRows(s.rows, old, new, dir) : r.path = M(v).path /\ ~r.dir
  <2>1. PICK r \in s.rows : r.path = v.path /\ ~r.dir
    BY DEF Attached
  <2>2. r \in RowType /\ Len(r.path) >= 1
    BY DEF StoreInv, RowsInv
  <2>3. /\ MovedRow(old, new, dir, r).path = MovedPath(old, new, dir, r.path)
        /\ MovedRow(old, new, dir, r).dir = r.dir
    BY <2>2, MovedRowFields
  <2> QED
    BY <1>1, <2>1, <2>3 DEF RelocateRows
<1> QED
  BY <1>2, <1>3, <1>4, <1>6, <1>7 DEF W

LEMMA RelocatedStored ==
  ASSUME LikeIsExact, NEW s, StoreInv(s), Stored(s), Attached(s), Apart(s.rows),
         NEW o \in s.rows, IsPlace(o.path),
         NEW new \in Path, Len(new) >= 1, new[1] # VERSIONS, RoomAt(Bytes(s.rows), new),
         \A r \in s.rows : r.path # new, ~RelocateFails(s, o.path, new, o.dir)
  PROVE  Stored(Relocate(s, o.path, new, o.dir)) /\ Attached(Relocate(s, o.path, new, o.dir))
<1> DEFINE old == o.path
           n == Relocate(s, old, new, o.dir)
           B == Bytes(s.rows)
<1>1. /\ RowsInv(s.rows) /\ VersionsInv(s.versions) /\ old \in Path /\ Len(old) >= 1
      /\ o.dir \in BOOLEAN /\ old[1] # VERSIONS
  BY DEF StoreInv, RowsInv, RowType, Apart
<1>2. /\ B \in SUBSET EntryType /\ \A e \in B : e.path # new
      /\ Entry(o) \in B /\ Entry(o).path = old
  BY <1>1, RowEntries
<1>3. ~KeyClash(s.rows, old, new, o.dir) /\ ~RenameFails(s.disk, old, new)
  BY DEF RelocateFails
<1>4. ~AtOrBelow(old, new)
  <2>1. OnDisk(s.disk, old)
    BY <1>2 DEF OnDisk, Stored
  <2> QED
    BY <1>3, <2>1 DEF RenameFails, AtOrBelow
<1>5. /\ n.rows = RelocateRows(s.rows, old, new, o.dir)
      /\ n.versions = RelocateVersions(s.versions, old, new, o.dir)
      /\ n.disk = RenameOn(s.disk, old, new)
  BY DEF Relocate
<1>6. Bytes(n.rows) = MovedBytes(B, old, new)
  BY <1>1, <1>4, <1>5, MovedRows DEF Stored
<1>7. n.disk = MovedBytes(B, old, new) \cup Blobs(s.versions)
  <2>1. RenameOn(B \cup Blobs(s.versions), old, new) = MovedBytes(B, old, new) \cup Blobs(s.versions)
    <3>1. \E e \in B : e.path = old
      BY <1>2
    <3> HIDE DEF B
    <3> QED
      BY <1>1, <1>2, <3>1, RenamedDisk, ZenonT(40) DEF B
  <2>2. s.disk = B \cup Blobs(s.versions)
    BY DEF Stored
  <2> QED
    BY <1>5, <2>1, <2>2
<1>8. Rooted(MovedBytes(B, old, new))
  BY <1>1, <1>2, <1>4, MovedRooted DEF Stored
<1>9. /\ RefsUnique(n.versions) /\ Numbered(n.versions) /\ Blobs(n.versions) = Blobs(s.versions)
      /\ Attached(n)
  BY <1>1, <1>3, <1>5, RelocatedHistory DEF Stored, Attached
<1> QED
  BY <1>6, <1>7, <1>8, <1>9 DEF Stored

(* The marks of the trash and of favorites change nothing on disk.         *)
SameEntry(r, t) == t.path = r.path /\ t.dir = r.dir /\ t.sum = r.sum

LEMMA SameBytes ==
  ASSUME NEW rows, NEW marked,
         \A r \in rows : \E t \in marked : SameEntry(r, t),
         \A t \in marked : \E r \in rows : SameEntry(r, t)
  PROVE  Bytes(marked) = Bytes(rows)
<1>1. \A r, t : SameEntry(r, t) => Entry(r) = Entry(t)
  BY DEF SameEntry, Entry
<1> QED
  BY <1>1 DEF Bytes

LEMMA MarkedStored ==
  ASSUME NEW s, s.rows \subseteq RowType, NEW n, n.versions = s.versions, n.disk = s.disk,
         NEW p, NEW orig, NEW b,
         n.rows \in {Stamped(s.rows, p, orig), Unstamped(s.rows, p), Starred(s.rows, p, b)}
  PROVE  (Stored(s) => Stored(n)) /\ (Attached(s) => Attached(n))
<1>1. ASSUME NEW r \in s.rows
      PROVE  /\ SameEntry(r, [r EXCEPT !.deleted = TRUE, !.orig = IF r.path = p THEN orig ELSE r.orig])
             /\ SameEntry(r, [r EXCEPT !.deleted = FALSE, !.orig = NoPath])
             /\ SameEntry(r, [r EXCEPT !.fav = b]) /\ SameEntry(r, r)
  <2>1. r \in RowType
    OBVIOUS
  <2>2. SameEntry(r, [r EXCEPT !.deleted = TRUE, !.orig = IF r.path = p THEN orig ELSE r.orig])
    BY <2>1 DEF SameEntry, RowType
  <2>3. SameEntry(r, [r EXCEPT !.deleted = FALSE, !.orig = NoPath])
    BY <2>1 DEF SameEntry, RowType
  <2>4. SameEntry(r, [r EXCEPT !.fav = b]) /\ SameEntry(r, r)
    BY <2>1 DEF SameEntry, RowType
  <2> QED
    BY <2>2, <2>3, <2>4
<1>2. /\ \A r \in s.rows : \E t \in n.rows : SameEntry(r, t)
      /\ \A t \in n.rows : \E r \in s.rows : SameEntry(r, t)
  <2>1. CASE n.rows = Stamped(s.rows, p, orig)
    BY <1>1, <2>1 DEF Stamped
  <2>2. CASE n.rows = Unstamped(s.rows, p)
    BY <1>1, <2>2 DEF Unstamped
  <2>3. CASE n.rows = Starred(s.rows, p, b)
    BY <1>1, <2>3 DEF Starred
  <2> QED
    BY <2>1, <2>2, <2>3
<1>3. Bytes(n.rows) = Bytes(s.rows)
  BY <1>2, SameBytes
<1>4. Attached(s) => Attached(n)
  BY <1>2 DEF Attached, SameEntry
<1> QED
  BY <1>3, <1>4 DEF Stored

LEMMA PurgedStored ==
  ASSUME LikeIsExact, NEW s, StoreInv(s), Stored(s), Attached(s), Apart(s.rows),
         NEW roots \in SUBSET s.rows, \A t \in roots : IsPlace(t.path)
  PROVE  Stored(Purged(s, roots)) /\ Attached(Purged(s, roots))
<1> DEFINE n == Purged(s, roots)
           dropped == {v \in s.versions : CoveredBy(roots, v.path)}
           kept(e) == /\ \A v \in dropped : e.path # Blob(v.ref)
                      /\ \A t \in roots : e.path # t.path /\ ~(t.dir /\ Below(t.path, e.path))
<1>1. /\ n.rows = {r \in s.rows : ~CoveredBy(roots, r.path)}
      /\ n.versions = s.versions \ dropped
      /\ n.disk = {e \in s.disk : kept(e)}
  BY DEF Purged
<1>2. /\ RowsInv(s.rows) /\ VersionsInv(s.versions)
      /\ \A r \in s.rows : r.path \in Path /\ Len(r.path) >= 1 /\ r.path[1] # VERSIONS
      /\ \A v \in s.versions : v.path \in Path /\ v.ref \in Refs
  BY DEF StoreInv, RowsInv, RowType, Apart, VersionsInv, VersionType
<1>3. ASSUME NEW q \in Path
      PROVE  CoveredBy(roots, q) <=> \E t \in roots : AtOrBelow(t.path, q)
  <2>1. \A t \in roots : Covers(t.path, q) <=> AtOrBelow(t.path, q)
    BY <1>2, ExactCovers
  <2> QED
    BY <2>1 DEF CoveredBy
<1>4. ASSUME NEW r \in s.rows
      PROVE  kept(Entry(r)) <=> r \in n.rows
  <2>1. Entry(r).path = r.path
    BY <1>2, RowEntries
  <2>2. \A v \in dropped : r.path # Blob(v.ref)
    BY <1>2, BlobPath
  <2>3. \A t \in roots : Below(t.path, r.path) => t.dir
    BY <1>2, FileIsLeaf DEF Stored
  <2>4. kept(Entry(r)) <=> \A t \in roots : ~AtOrBelow(t.path, r.path)
    BY <2>1, <2>2, <2>3 DEF AtOrBelow
  <2> QED
    BY <1>1, <1>2, <1>3, <2>4
<1>5. ASSUME NEW v \in s.versions
      PROVE  kept(BlobOf(v)) <=> v \in n.versions
  <2>1. /\ BlobOf(v).path = Blob(v.ref) /\ Blob(v.ref) \in Path
        /\ Len(Blob(v.ref)) = 2 /\ Blob(v.ref)[1] = VERSIONS
    BY <1>2, BlobPath DEF BlobOf
  <2>2. \A w \in dropped : Blob(w.ref) = Blob(v.ref) => w = v
    BY <1>2, BlobsApart DEF Stored, RefsUnique
  <2>3. ASSUME NEW t \in roots
        PROVE  Blob(v.ref) # t.path /\ ~Below(t.path, Blob(v.ref))
    <3>1. t.path \in Path /\ Len(t.path) >= 1 /\ t.path[1] # VERSIONS /\ Len(t.path) \in Nat
      BY <1>2, PathElement
    <3> QED
      BY <2>1, <3>1, BelowElements
  <2>4. kept(BlobOf(v)) <=> v \notin dropped
    BY <2>1, <2>2, <2>3
  <2> QED
    BY <1>1, <2>4
<1>6. n.disk = Bytes(n.rows) \cup Blobs(n.versions)
  <2> HIDE DEF kept, n
  <2>1. n.rows \subseteq s.rows /\ n.versions \subseteq s.versions
    BY <1>1
  <2>2. {e \in Bytes(s.rows) : kept(e)} = Bytes(n.rows)
    BY <1>4, <2>1 DEF Bytes
  <2>3. {e \in Blobs(s.versions) : kept(e)} = Blobs(n.versions)
    BY <1>5, <2>1 DEF Blobs
  <2> QED
    BY <1>1, <2>2, <2>3 DEF Stored
<1>7. Rooted(Bytes(n.rows))
  <2> HIDE DEF kept, n
  <2>1. ASSUME NEW r \in n.rows, NEW q \in Path, IsPlace(q), Below(q, r.path)
        PROVE  Dir(q) \in Bytes(n.rows)
    <3>1. r \in s.rows /\ ~CoveredBy(roots, r.path)
      BY <1>1
    <3>2. Entry(r) \in Bytes(s.rows) /\ Entry(r).path = r.path
      BY <1>2, <3>1, RowEntries
    <3>3. Dir(q) \in Bytes(s.rows)
      BY <2>1, <3>2 DEF Stored, Rooted, RoomAt
    <3>4. PICK f \in s.rows : Dir(q) = Entry(f)
      BY <3>3 DEF Bytes
    <3>5. f.path = q
      BY <3>4 DEF Dir, Entry
    <3>6. ~CoveredBy(roots, q)
      <4>1. \A t \in roots : AtOrBelow(t.path, q) => AtOrBelow(t.path, r.path)
        BY <1>2, <2>1, <3>1, BelowTrans DEF AtOrBelow
      <4> QED
        BY <1>2, <1>3, <3>1, <4>1
    <3> QED
      BY <1>1, <3>4, <3>5, <3>6 DEF Bytes
  <2>2. \A r \in n.rows : Entry(r).path = r.path
    BY DEF Entry
  <2> QED
    BY <2>1, <2>2 DEF Rooted, RoomAt, Bytes
<1>8. Attached(n)
  BY <1>1 DEF Attached
<1>9. RefsUnique(n.versions) /\ Numbered(n.versions)
  <2>1. \A u, v \in s.versions : u.path = v.path => (u \in n.versions <=> v \in n.versions)
    BY <1>1
  <2>2. n.versions \subseteq s.versions
    BY <1>1
  <2> HIDE DEF n
  <2>3. RefsUnique(n.versions)
    BY <2>2 DEF Stored, RefsUnique
  <2>4. ASSUME NEW v \in n.versions, NEW k \in 1 .. v.no
        PROVE  \E u \in n.versions : u.path = v.path /\ u.no = k
    <3>1. PICK u \in s.versions : u.path = v.path /\ u.no = k
      BY <2>2 DEF Stored, Numbered
    <3> QED
      BY <2>1, <2>2, <3>1
  <2> QED
    BY <2>2, <2>3, <2>4 DEF Stored, Numbered
<1> QED
  BY <1>6, <1>7, <1>8, <1>9 DEF Stored

(* restore_version copies the bytes its checksum is of.                    *)
LEMMA RolledBackStored ==
  ASSUME NEW s, StoreInv(s), Stored(s), Attached(s), Apart(s.rows),
         NEW r \in s.rows, ~r.dir, NEW v \in s.versions
  PROVE  Stored(RolledBack(s, r.path, v)) /\ Attached(RolledBack(s, r.path, v))
<1> DEFINE p == r.path
           n == RolledBack(s, p, v)
           new == [path |-> p, data |-> v.sum]
<1>1. /\ RowsInv(s.rows) /\ VersionsInv(s.versions) /\ p \in Path /\ v.ref \in Refs
      /\ p[1] # VERSIONS
      /\ s \in [rows : SUBSET RowType, versions : SUBSET VersionType, disk : SUBSET EntryType]
  BY DEF StoreInv, StoreType, RowsInv, RowType, Apart, VersionsInv, VersionType
<1>2. FileOn(s.disk, Blob(v.ref)) = {BlobOf(v)} /\ BlobOf(v).data = v.sum
  <2>1. \A e \in Bytes(s.rows) : e.path # Blob(v.ref)
    BY <1>1, RowEntries, BlobPath DEF Apart
  <2>2. /\ BlobOf(v) \in Blobs(s.versions) /\ BlobOf(v).path = Blob(v.ref)
        /\ BlobOf(v).data = v.sum /\ BlobOf(v).data # DIR
    BY <1>1, BlobEntries
  <2>3. ASSUME NEW e \in Blobs(s.versions), e.path = Blob(v.ref)
        PROVE  e = BlobOf(v)
    <3>1. PICK w \in s.versions : e = BlobOf(w)
      BY DEF Blobs
    <3>2. Blob(w.ref) = Blob(v.ref) /\ w.ref \in Refs
      BY <1>1, <2>3, <3>1 DEF BlobOf, VersionsInv, VersionType
    <3>3. w = v
      BY <1>1, <3>2, BlobsApart DEF Stored, RefsUnique
    <3> QED
      BY <3>1, <3>3
  <2> QED
    BY <2>1, <2>2, <2>3 DEF FileOn, Stored
<1>3. /\ n.disk = WriteFile(s.disk, p, v.sum) /\ n.rows = Rehashed(s.rows, p, v.sum)
      /\ n.versions = s.versions
  <2>1. (CHOOSE e \in FileOn(s.disk, Blob(v.ref)) : TRUE).data = v.sum
    BY <1>2
  <2>2. s = [rows |-> s.rows, versions |-> s.versions, disk |-> s.disk]
    BY <1>1
  <2>3. n = [[s EXCEPT !.disk = WriteFile(s.disk, p, v.sum)] EXCEPT !.rows = Rehashed(s.rows, p, v.sum)]
    BY <2>1, <2>2 DEF RolledBack
  <2> QED
    BY <2>2, <2>3
<1>4. /\ Entry(r) \in Bytes(s.rows) /\ Entry(r).path = p /\ Entry(r).data # DIR
      /\ \A e, f \in Bytes(s.rows) : e.path = f.path => e = f
      /\ \A e \in Blobs(s.versions) : e.path # p
  BY <1>1, RowEntries, BlobEntries
<1>5. n.disk = {e \in s.disk : e.path # p} \cup {new}
  <2>1. RoomAt(Bytes(s.rows), p) /\ Bytes(s.rows) \subseteq s.disk
    BY <1>4 DEF Stored, Rooted
  <2>2. MakeParents(s.disk, p) = s.disk
    BY <1>1, <2>1, ParentsThere
  <2> QED
    BY <1>3, <2>2 DEF WriteFile
<1> HIDE DEF n
<1>6. Bytes(n.rows) = (Bytes(s.rows) \ {Entry(r)}) \cup {new}
  <2>1. ASSUME NEW t \in s.rows
        PROVE  /\ t # r => t.path # p
               /\ Entry(IF t.path = p THEN [t EXCEPT !.sum = v.sum] ELSE t)
                    = IF t = r THEN new ELSE Entry(t)
               /\ Entry(t).path = t.path
    <3>1. t \in RowType /\ (t.path = p => t = r)
      BY <1>1 DEF RowsInv, KeysUnique
    <3>2. t = r => Entry([t EXCEPT !.sum = v.sum]) = new
      BY <3>1 DEF Entry, RowType
    <3> QED
      BY <3>1, <3>2 DEF Entry
  <2>2. Bytes(n.rows) = {Entry(IF t.path = p THEN [t EXCEPT !.sum = v.sum] ELSE t) : t \in s.rows}
    BY <1>3 DEF Bytes, Rehashed
  <2>3. Bytes(n.rows) = {IF t = r THEN new ELSE Entry(t) : t \in s.rows}
    BY <2>1, <2>2
  <2>4. {Entry(t) : t \in s.rows \ {r}} = Bytes(s.rows) \ {Entry(r)}
    <3>1. \A t \in s.rows : Entry(t) = Entry(r) <=> t = r
      BY <2>1
    <3> QED
      BY <3>1 DEF Bytes
  <2> HIDE DEF new
  <2> QED
    BY <2>3, <2>4
<1>7. n.disk = Bytes(n.rows) \cup Blobs(n.versions)
  BY <1>3, <1>4, <1>5, <1>6 DEF Stored
<1>8. Rooted(Bytes(n.rows))
  <2>1. \A q : Dir(q) # Entry(r)
    BY <1>4 DEF Dir
  <2>2. new.path = Entry(r).path
    BY <1>4
  <2> HIDE DEF new
  <2> QED
    BY <1>4, <1>6, <2>1, <2>2 DEF Stored, Rooted, RoomAt
<1>9. Attached(n)
  <2>1. ASSUME NEW w \in s.versions
        PROVE  \E t \in n.rows : t.path = w.path /\ ~t.dir
    <3>1. PICK t \in s.rows : t.path = w.path /\ ~t.dir
      BY DEF Attached
    <3>2. t \in RowType
      BY <1>1 DEF RowsInv
    <3>3. [t EXCEPT !.sum = v.sum].path = t.path /\ [t EXCEPT !.sum = v.sum].dir = t.dir
      BY <3>2 DEF RowType
    <3> QED
      BY <1>3, <3>1, <3>3 DEF Rehashed
  <2> QED
    BY <1>3, <2>1 DEF Attached
<1> QED
  BY <1>3, <1>7, <1>8, <1>9 DEF Stored, n

----------------------------------------------------------------------------
(* No handler puts a row under the reserved name.                          *)

LEMMA UnreservedRelocated ==
  ASSUME NEW rows, RowsInv(rows), Unreserved(rows), NEW old \in Path, NEW new \in Path,
         Len(new) >= 1, NEW dir \in BOOLEAN, Plain(new)
  PROVE  Unreserved(RelocateRows(rows, old, new, dir))
<1>1. ASSUME NEW r \in rows
      PROVE  LET m == MovedRow(old, new, dir, r)
             IN  Plain(m.path) /\ m.orig = r.orig
  <2>1. r \in RowType /\ r.path \in Path /\ Len(r.path) >= 1
    BY DEF RowsInv, RowType
  <2>2. /\ MovedRow(old, new, dir, r).path = MovedPath(old, new, dir, r.path)
        /\ MovedRow(old, new, dir, r).orig = r.orig
    BY <2>1, MovedRowFields
  <2>3. MovedPath(old, new, dir, r.path)[1] # VERSIONS
    BY <2>1, MovedFirst DEF Unreserved, Plain
  <2>4. NameOf(MovedPath(old, new, dir, r.path)) # VERSIONS
    BY <2>1, MovedName DEF Unreserved, Plain
  <2> QED
    BY <2>2, <2>3, <2>4 DEF Plain
<1> QED
  BY <1>1 DEF Unreserved, RelocateRows

LEMMA UnreservedMarked ==
  ASSUME NEW rows, rows \subseteq RowType, Unreserved(rows), NEW p, NEW orig, Plain(orig),
         NEW sum, NEW b
  PROVE  /\ Unreserved(Stamped(rows, p, orig)) /\ Unreserved(Unstamped(rows, p))
         /\ Unreserved(Rehashed(rows, p, sum)) /\ Unreserved(Starred(rows, p, b))
<1>1. ASSUME NEW r \in rows
      PROVE  /\ Plain(r.path) /\ (r.orig # NoPath => Plain(r.orig)) /\ r \in RowType
  BY DEF Unreserved
<1>2. Unreserved(Stamped(rows, p, orig))
  <2>1. ASSUME NEW r \in rows
        PROVE  LET m == [r EXCEPT !.deleted = TRUE, !.orig = IF r.path = p THEN orig ELSE r.orig]
               IN  m.path = r.path /\ m.orig \in {r.orig, orig}
    BY <1>1 DEF RowType
  <2> QED
    BY <1>1, <2>1 DEF Stamped, Unreserved
<1>3. Unreserved(Unstamped(rows, p))
  <2>1. ASSUME NEW r \in rows
        PROVE  LET m == [r EXCEPT !.deleted = FALSE, !.orig = NoPath]
               IN  m.path = r.path /\ m.orig = NoPath
    BY <1>1 DEF RowType
  <2> QED
    BY <1>1, <2>1 DEF Unstamped, Unreserved
<1>4. ASSUME NEW r \in rows
      PROVE  /\ [r EXCEPT !.sum = sum].path = r.path /\ [r EXCEPT !.sum = sum].orig = r.orig
             /\ [r EXCEPT !.fav = b].path = r.path /\ [r EXCEPT !.fav = b].orig = r.orig
  BY <1>1 DEF RowType
<1>5. Unreserved(Rehashed(rows, p, sum))
  BY <1>1, <1>4 DEF Rehashed, Unreserved
<1>6. Unreserved(Starred(rows, p, b))
  BY <1>1, <1>4 DEF Starred, Unreserved
<1> QED
  BY <1>2, <1>3, <1>5, <1>6

----------------------------------------------------------------------------
(* The handlers.                                                           *)

LEMMA RoomUnder ==
  ASSUME NEW rows, RowsInv(rows), Rooted(Bytes(rows)), NEW p \in Path, Len(p) >= 1,
         FolderAt(rows, ParentOf(p))
  PROVE  RoomAt(Bytes(rows), p)
<1> SUFFICES ASSUME NEW q \in Path, IsPlace(q), Below(q, p)
             PROVE  Dir(q) \in Bytes(rows)
  BY DEF RoomAt
<1> DEFINE u == ParentOf(p)
<1>1. AtOrBelow(q, u)
  BY BelowParent
<1> HIDE DEF u
<1>2. CASE u = Root
  <2>1. Len(q) \in Nat /\ Len(Root) = 0
    BY PathElement DEF Root
  <2> QED
    BY <1>1, <1>2, <2>1 DEF IsPlace, AtOrBelow, Below
<1>3. CASE u # Root
  <2>1. PICK f \in rows : f.path = u /\ f.dir
    BY <1>3 DEF FolderAt, u
  <2>2. Entry(f) = Dir(u) /\ Entry(f) \in Bytes(rows) /\ Dir(u).path = u
    BY <2>1 DEF Entry, Dir, Bytes
  <2>3. RoomAt(Bytes(rows), u)
    BY <2>2 DEF Rooted
  <2> QED
    BY <1>1, <2>2, <2>3 DEF AtOrBelow, RoomAt
<1> QED
  BY <1>2, <1>3

MirrorInv(s) == Stored(s) /\ Attached(s) /\ Unreserved(s.rows)

LEMMA NewEntryMirror ==
  ASSUME NEW s, StoreInv(s), MirrorInv(s), NEW p \in Path, Len(p) >= 1, Plain(p), p[1] # TRASH,
         ~HasKey(s, p), FolderAt(s.rows, ParentOf(p)), NEW c, NEW node
  PROVE  MirrorInv(AddStream(s, p, c, node)) /\ MirrorInv(AddFolder(s, p, node))
<1>1. RoomAt(Bytes(s.rows), p)
  BY RoomUnder DEF StoreInv, MirrorInv, Stored
<1>2. IsPlace(p) /\ p[1] \notin {TRASH, VERSIONS}
  BY DEF IsPlace, Plain
<1>3. Stored(s) /\ Attached(s) /\ Unreserved(s.rows)
  BY DEF MirrorInv
<1>4. \A dir, sum : NewRow(p, dir, sum, node).path = p /\ NewRow(p, dir, sum, node).orig = NoPath
  BY DEF NewRow
<1>5. \A dir, sum : Unreserved(s.rows \cup {NewRow(p, dir, sum, node)})
  BY <1>3, <1>4 DEF Unreserved
<1>6. \A n : n.versions = s.versions /\ (\E r : n.rows = s.rows \cup {r}) => Attached(n)
  BY <1>3 DEF Attached
<1>7. MirrorInv(AddStream(s, p, c, node))
  <2>1. Inserted(AddStream(s, p, c, node), s, NewRow(p, FALSE, c, node))
    BY <1>1, <1>2, <1>3, AddedStored
  <2> QED
    BY <1>5, <1>6, <2>1 DEF MirrorInv, Inserted
<1>8. MirrorInv(AddFolder(s, p, node))
  <2>1. Inserted(AddFolder(s, p, node), s, NewRow(p, TRUE, NoSum, node))
    BY <1>1, <1>2, <1>3, AddedStored
  <2> QED
    BY <1>5, <1>6, <2>1 DEF MirrorInv, Inserted
<1> QED
  BY <1>7, <1>8

(* Between the removal of an overwritten file and the new row its history  *)
(* has no file; the insertion that would leave it so cannot fail.          *)
Swapped(s, n, p, ref, c, node) ==
  /\ n.rows = (s.rows \ {RowAt(s, p)}) \cup {NewRow(p, FALSE, c, node)}
  /\ n.versions = Snapshot(s, p, ref).versions
Replaced(s, n, p, ref, c, node) == MirrorInv(n) /\ Swapped(s, n, p, ref, c, node)

LEMMA OverwriteStored ==
  ASSUME LikeIsExact, NEW s, StoreInv(s), Stored(s), Attached(s), Apart(s.rows),
         NEW p, IsFile(s, p), p[1] # TRASH,
         NEW ref \in Refs, \A e \in s.disk : e.path # Blob(ref), NEW c, NEW node
  PROVE  LET a == AddStream(Overwritten(s, p, ref), p, c, node)
             b == AddBytes(Overwritten(s, p, ref), p, c, node)
         IN  /\ Stored(a) /\ Attached(a) /\ Swapped(s, a, p, ref, c, node)
             /\ Stored(b) /\ Attached(b) /\ Swapped(s, b, p, ref, c, node)
<1> DEFINE r == RowAt(s, p)
           a == Snapshot(s, p, ref)
           b == RemoveFile(a, p)
<1>1. r \in s.rows /\ r.path = p /\ ~r.dir /\ p \in Path /\ Len(p) >= 1
  <2>1. Live(s, p)
    BY DEF IsFile, Live
  <2> QED
    BY <2>1, RowAtLive
<1> HIDE DEF r
<1>2. IsPlace(p) /\ p[1] \notin {TRASH, VERSIONS}
  BY <1>1 DEF Apart, IsPlace
<1>3. StoreInv(a) /\ Stored(a) /\ Attached(a) /\ a.rows = s.rows
  BY <1>2, SnapshotInv, SnapshotStored
<1> HIDE DEF a
<1>4. /\ StoreInv(b) /\ Stored(b) /\ b.rows = s.rows \ {r} /\ b.versions = a.versions
      /\ Bytes(b.rows) = Bytes(s.rows) \ {Entry(r)}
  BY <1>1, <1>2, <1>3, RemoveFileInv, RemovedStored
<1> HIDE DEF b
<1>5. RowsInv(s.rows)
  BY DEF StoreInv
<1>6. ~HasKey(b, p)
  BY <1>1, <1>4, <1>5 DEF HasKey, RowsInv, KeysUnique
<1>7. RoomAt(Bytes(b.rows), p)
  <2>1. Entry(r) \in Bytes(s.rows) /\ Entry(r).path = p /\ Entry(r).data # DIR
    BY <1>1, <1>5, RowEntries
  <2>2. \A q : Dir(q) # Entry(r)
    BY <2>1 DEF Dir
  <2> QED
    BY <1>2, <1>4, <2>1, <2>2 DEF Stored, Rooted, RoomAt
<1>8. ASSUME NEW n, n.rows = b.rows \cup {NewRow(p, FALSE, c, node)}, n.versions = b.versions
      PROVE  Attached(n) /\ Swapped(s, n, p, ref, c, node)
  <2> DEFINE w == NewRow(p, FALSE, c, node)
  <2>1. w.path = p /\ ~w.dir
    BY DEF NewRow
  <2> HIDE DEF w
  <2>2. Attached(n)
    BY <1>1, <1>3, <1>4, <1>8, <2>1 DEF Attached, w
  <2> QED
    BY <1>4, <1>8, <2>2 DEF Swapped, r, a
<1>9. /\ Inserted(AddStream(b, p, c, node), b, NewRow(p, FALSE, c, node))
      /\ Inserted(AddBytes(b, p, c, node), b, NewRow(p, FALSE, c, node))
  BY <1>1, <1>2, <1>4, <1>6, <1>7, AddedStored
<1> QED
  BY <1>8, <1>9 DEF Inserted, Overwritten, a, b

LEMMA OverwriteMirror ==
  ASSUME LikeIsExact, NEW s, StoreInv(s), MirrorInv(s), NEW p, IsFile(s, p), p[1] # TRASH,
         NEW ref \in Refs, \A e \in s.disk : e.path # Blob(ref), NEW c, NEW node
  PROVE  /\ Replaced(s, AddStream(Overwritten(s, p, ref), p, c, node), p, ref, c, node)
         /\ Replaced(s, AddBytes(Overwritten(s, p, ref), p, c, node), p, ref, c, node)
<1>1. Stored(s) /\ Attached(s) /\ Unreserved(s.rows) /\ Apart(s.rows)
  BY UnreservedApart DEF MirrorInv
<1>2. PICK w \in s.rows : w.path = p
  BY DEF IsFile
<1>3. Plain(p)
  BY <1>1, <1>2 DEF Unreserved
<1>4. ASSUME NEW n, Swapped(s, n, p, ref, c, node)
      PROVE  Unreserved(n.rows)
  <2>1. NewRow(p, FALSE, c, node).path = p /\ NewRow(p, FALSE, c, node).orig = NoPath
    BY DEF NewRow
  <2> QED
    BY <1>1, <1>3, <1>4, <2>1 DEF Swapped, Unreserved
<1> QED
  BY <1>1, <1>4, OverwriteStored DEF Replaced, MirrorInv

LEMMA MoveMirror ==
  ASSUME LikeIsExact, NEW s, StoreInv(s), MirrorInv(s), NEW o \in s.rows, IsPlace(o.path),
         NEW q \in Path, Len(q) >= 1, Plain(q), RoomAt(Bytes(s.rows), q),
         \A r \in s.rows : r.path # q, ~RelocateFails(s, o.path, q, o.dir)
  PROVE  MirrorInv(Relocate(s, o.path, q, o.dir)) /\ StoreInv(Relocate(s, o.path, q, o.dir))
<1>1. /\ Stored(s) /\ Attached(s) /\ Unreserved(s.rows) /\ Apart(s.rows) /\ RowsInv(s.rows)
      /\ q[1] # VERSIONS /\ o.path \in Path /\ o.dir \in BOOLEAN
  BY UnreservedApart DEF MirrorInv, Plain, StoreInv, RowsInv, RowType
<1>2. Stored(Relocate(s, o.path, q, o.dir)) /\ Attached(Relocate(s, o.path, q, o.dir))
  BY <1>1, RelocatedStored
<1>3. Unreserved(Relocate(s, o.path, q, o.dir).rows)
  <2>1. Unreserved(RelocateRows(s.rows, o.path, q, o.dir))
    BY <1>1, UnreservedRelocated
  <2> QED
    BY <2>1 DEF Relocate
<1>4. StoreInv(Relocate(s, o.path, q, o.dir))
  BY <1>1, RelocateInv
<1> QED
  BY <1>2, <1>3, <1>4 DEF MirrorInv

LEMMA MarkMirror ==
  ASSUME NEW s, StoreInv(s), MirrorInv(s), NEW p, NEW orig, Plain(orig), NEW b
  PROVE  /\ MirrorInv([s EXCEPT !.rows = Stamped(s.rows, p, orig)])
         /\ MirrorInv([s EXCEPT !.rows = Unstamped(s.rows, p)])
         /\ MirrorInv([s EXCEPT !.rows = Starred(s.rows, p, b)])
<1>1. s.rows \subseteq RowType /\ s = [rows |-> s.rows, versions |-> s.versions, disk |-> s.disk]
  BY DEF StoreInv, StoreType, RowsInv
<1>2. Stored(s) /\ Attached(s) /\ Unreserved(s.rows)
  BY DEF MirrorInv
<1>3. ASSUME NEW rows \in {Stamped(s.rows, p, orig), Unstamped(s.rows, p), Starred(s.rows, p, b)}
      PROVE  MirrorInv([s EXCEPT !.rows = rows])
  <2> DEFINE n == [s EXCEPT !.rows = rows]
  <2>1. n.rows = rows /\ n.versions = s.versions /\ n.disk = s.disk
    BY <1>1
  <2> HIDE DEF n
  <2>2. n.rows \in {Stamped(s.rows, p, orig), Unstamped(s.rows, p), Starred(s.rows, p, b)}
    BY <2>1
  <2>3. Stored(n) /\ Attached(n)
    BY <1>1, <1>2, <2>1, <2>2, MarkedStored
  <2>4. Unreserved(n.rows)
    BY <1>1, <1>2, <2>2, UnreservedMarked
  <2> QED
    BY <2>3, <2>4 DEF MirrorInv, n
<1> QED
  BY <1>3

DiskIInv == TreeIInv /\ MirrorInv(store)

LEMMA MirrorStep ==
  ASSUME LikeIsExact, {TRASH, VERSIONS} \cap Names = {}
  PROVE  DiskIInv /\ [Next]_vars => DiskIInv'
<1> SUFFICES ASSUME TreeIInv, MirrorInv(store), [Next]_vars
             PROVE  TreeIInv' /\ MirrorInv(store')
  BY DEF DiskIInv
<1>1. TreeIInv'
  <2>1. TRASH \notin Names
    OBVIOUS
  <2> QED
    BY <2>1, TreeStep
<1>2. /\ StoreInv(store) /\ MarksInv(store.rows) /\ TrashInv(store.rows) /\ TreeInv(store.rows)
      /\ RowsInv(store.rows) /\ store.rows \subseteq RowType
      /\ Stored(store) /\ Attached(store) /\ Unreserved(store.rows) /\ Apart(store.rows)
      /\ Rooted(Bytes(store.rows))
  BY UnreservedApart DEF TreeIInv, TrashIInv, MarksInv, StoreInv, RowsInv, MirrorInv, Stored
<1>3. \A s : MirrorInv(s) /\ Become(s) => MirrorInv(store')
  BY DEF Become
<1>4. ASSUME NEW p, Live(store, p)
      PROVE  /\ p \in Path /\ Len(p) >= 1 /\ p[1] # TRASH /\ IsPlace(p) /\ Plain(p)
             /\ FolderAt(store.rows, ParentOf(p))
             /\ RowAt(store, p) \in store.rows /\ RowAt(store, p).path = p
             /\ RowAt(store, p).name \in Segments /\ RowAt(store, p).name # VERSIONS
             /\ RowAt(store, p).dir \in BOOLEAN
  <2>1. /\ p \in Path /\ Len(p) >= 1 /\ p[1] # TRASH /\ FolderAt(store.rows, ParentOf(p))
        /\ RowAt(store, p) \in store.rows /\ RowAt(store, p).path = p
        /\ RowAt(store, p).name \in Segments /\ RowAt(store, p).dir \in BOOLEAN
    BY <1>2, <1>4, LiveParent
  <2>2. Plain(p)
    BY <1>2, <2>1 DEF Unreserved
  <2>3. RowAt(store, p).name = NameOf(p)
    BY <1>2, <2>1 DEF TreeInv, Columns
  <2> QED
    BY <2>1, <2>2, <2>3 DEF IsPlace, Plain
<1>5. ASSUME NEW p, p[1] # TRASH, ~Live(store, p)
      PROVE  ~HasKey(store, p) /\ \A r \in store.rows : r.path # p
  BY <1>2, <1>5 DEF TrashInv, Live, HasKey
<1>6. ASSUME NEW p, IsFolder(store, p)
      PROVE  FolderAt(store.rows, p) /\ p \in Path /\ (p # Root => Plain(p) /\ p[1] # TRASH)
  <2>1. \A r \in store.rows : r.deleted \in BOOLEAN
    BY <1>2 DEF RowType
  <2>2. FolderAt(store.rows, p) /\ p \in Path
    BY <1>2, <1>6, <2>1, FolderPath DEF IsFolder, FolderAt
  <2>3. p # Root => Live(store, p)
    BY <1>6 DEF IsFolder, Live
  <2> QED
    BY <1>4, <2>2, <2>3
<1>7. ASSUME NEW p, IsFolder(store, p), NEW name \in Segments, name # VERSIONS, name # TRASH
      PROVE  LET q == Child(p, name)
             IN  /\ q \in Path /\ Len(q) >= 1 /\ ParentOf(q) = p /\ FolderAt(store.rows, p)
                 /\ Plain(q) /\ q[1] # TRASH
  <2> DEFINE q == Child(p, name)
  <2>1. FolderAt(store.rows, p) /\ p \in Path /\ (p # Root => Plain(p) /\ p[1] # TRASH)
    BY <1>6, <1>7
  <2>2. /\ q \in Path /\ Len(q) = Len(p) + 1 /\ ParentOf(q) = p /\ NameOf(q) = name
        /\ \A i \in 1 .. Len(p) : q[i] = p[i]
    BY <2>1, ChildPath
  <2> HIDE DEF q
  <2>3. Len(p) \in Nat /\ (Len(p) = 0 => p = Root)
    BY <2>1, PathElement DEF Root, Path
  <2>4. CASE p = Root
    <3>1. Len(q) = 1
      BY <2>2, <2>4 DEF Root
    <3>2. q[1] = name
      BY <2>2, <3>1 DEF NameOf
    <3> QED
      BY <1>7, <2>1, <2>2, <3>1, <3>2 DEF Plain, q
  <2>5. CASE p # Root
    <3>1. Len(p) >= 1
      BY <2>3, <2>5
    <3>2. q[1] = p[1] /\ Len(q) >= 1
      BY <2>2, <3>1
    <3> QED
      BY <1>7, <2>1, <2>2, <2>5, <3>2 DEF Plain, q
  <2> QED
    BY <2>4, <2>5
<1>8. \A name \in Names : name \in Segments /\ name # VERSIONS /\ name # TRASH
  BY FilesystemAssumption
<1>9. \A parent \in Folders : IsFolder(store, parent)
  BY DEF Folders, IsFolder
<1>10. ASSUME NEW parent \in Folders, NEW name \in Names, NEW c, NEW n,
              Upload(parent, name, c, n) \/ CreateFolder(parent, name, n)
       PROVE  MirrorInv(store')
  <2> DEFINE p == Child(parent, name)
  <2>1. /\ p \in Path /\ Len(p) >= 1 /\ Plain(p) /\ p[1] # TRASH
        /\ FolderAt(store.rows, ParentOf(p))
    BY <1>7, <1>8, <1>9
  <2>2. \/ Become(AddStream(store, p, c, n)) \/ Become(AddFolder(store, p, n))
    BY <1>10 DEF Upload, CreateFolder
  <2>3. ~Live(store, p)
    BY <1>10 DEF Upload, CreateFolder
  <2> HIDE DEF p
  <2>4. ~HasKey(store, p)
    BY <1>5, <2>1, <2>3
  <2>5. MirrorInv(AddStream(store, p, c, n)) /\ MirrorInv(AddFolder(store, p, n))
    BY <1>2, <2>1, <2>4, NewEntryMirror
  <2> QED
    BY <1>3, <2>2, <2>5
<1>11. ASSUME NEW p, NEW c, NEW ref \in Refs, UploadOver(p, c, ref) \/ SaveContent(p, c, ref)
       PROVE  MirrorInv(store')
  <2>1. IsFile(store, p) /\ \A e \in store.disk : e.path # Blob(ref)
    BY <1>11 DEF UploadOver, SaveContent, FreshRef
  <2>2. Live(store, p)
    BY <2>1 DEF IsFile, Live
  <2>3. p[1] # TRASH
    BY <1>4, <2>2
  <2>4. \A node : /\ MirrorInv(AddStream(Overwritten(store, p, ref), p, c, node))
                  /\ MirrorInv(AddBytes(Overwritten(store, p, ref), p, c, node))
    BY <1>2, <2>1, <2>3, OverwriteMirror DEF Replaced
  <2>5. \E node : \/ Become(AddStream(Overwritten(store, p, ref), p, c, node))
                  \/ Become(AddBytes(Overwritten(store, p, ref), p, c, node))
    BY <1>11 DEF UploadOver, SaveContent
  <2> QED
    BY <1>3, <2>4, <2>5
<1>12. ASSUME NEW p, NEW q, Live(store, p), ~Live(store, q), CanRelocate(p, q), Become(Relocated(p, q)),
              q \in Path, Len(q) >= 1, Plain(q), q[1] # TRASH, FolderAt(store.rows, ParentOf(q))
       PROVE  MirrorInv(store')
  <2> DEFINE o == RowAt(store, p)
  <2>1. o \in store.rows /\ o.path = p /\ IsPlace(p)
    BY <1>4, <1>12
  <2>2. RoomAt(Bytes(store.rows), q)
    BY <1>2, <1>12, RoomUnder
  <2>3. \A r \in store.rows : r.path # q
    BY <1>5, <1>12
  <2>4. ~RelocateFails(store, p, q, o.dir) /\ Become(Relocate(store, p, q, o.dir))
    BY <1>12 DEF CanRelocate, Relocated
  <2> HIDE DEF o
  <2>5. MirrorInv(Relocate(store, o.path, q, o.dir))
    BY <1>2, <1>12, <2>1, <2>2, <2>3, <2>4, MoveMirror
  <2> QED
    BY <1>3, <2>1, <2>4, <2>5
<1>13. ASSUME NEW p, NEW name \in Names, Rename(p, name)
       PROVE  MirrorInv(store')
  <2> DEFINE q == Child(ParentOf(p), name)
  <2>1. Live(store, p) /\ ~Live(store, q) /\ CanRelocate(p, q) /\ Become(Relocated(p, q))
    BY <1>13 DEF Rename
  <2>2. IsFolder(store, ParentOf(p))
    <3>1. FolderAt(store.rows, ParentOf(p))
      BY <1>4, <2>1
    <3> QED
      BY <3>1 DEF FolderAt, IsFolder
  <2>3. /\ q \in Path /\ Len(q) >= 1 /\ Plain(q) /\ q[1] # TRASH
        /\ FolderAt(store.rows, ParentOf(q))
    BY <1>7, <1>8, <2>2
  <2> HIDE DEF q
  <2> QED
    BY <1>12, <2>1, <2>3
<1>14. ASSUME NEW p, NEW parent \in Folders, Move(p, parent)
       PROVE  MirrorInv(store')
  <2> DEFINE q == Child(parent, RowAt(store, p).name)
  <2>1. Live(store, p) /\ ~Live(store, q) /\ CanRelocate(p, q) /\ Become(Relocated(p, q))
    BY <1>14 DEF Move
  <2>2. /\ RowAt(store, p).name \in Segments /\ RowAt(store, p).name # VERSIONS
        /\ RowAt(store, p).name # TRASH
    BY <1>2, <1>4, <2>1 DEF MarksInv, NamesInv
  <2>3. /\ q \in Path /\ Len(q) >= 1 /\ Plain(q) /\ q[1] # TRASH
        /\ FolderAt(store.rows, ParentOf(q))
    BY <1>7, <1>9, <2>2
  <2> HIDE DEF q
  <2> QED
    BY <1>12, <2>1, <2>3
<1>15. ASSUME NEW p, NEW id \in TrashIds, Delete(p, id)
       PROVE  MirrorInv(store')
  <2> DEFINE o == RowAt(store, p)
             t == TrashPath(id, o.name)
             moved == Relocate(store, p, t, o.dir)
  <2>1. /\ Live(store, p) /\ id \in Segments /\ NothingUnder(store.rows, id)
        /\ ~RelocateFails(store, p, t, o.dir) /\ Become(SoftDelete(store, p, id))
    BY <1>15, FilesystemAssumption DEF Delete, FreshTrash, NothingUnder, CanRelocate
  <2>2. /\ o \in store.rows /\ o.path = p /\ IsPlace(p) /\ Plain(p)
        /\ o.name \in Segments /\ o.name # VERSIONS
    BY <1>4, <2>1
  <2> HIDE DEF o
  <2>3. /\ t \in Path /\ Len(t) = 3 /\ t[1] = TRASH /\ t[3] = o.name
    BY <2>1, <2>2, StorageAssumption DEF TrashPath, Path
  <2>4. Plain(t)
    BY <2>2, <2>3, StorageAssumption DEF Plain, NameOf
  <2>5. \A r \in store.rows : r.path # t
    BY <1>2, <2>1, <2>2, NothingCovered DEF Covers
  <2>6. RoomAt(Bytes(store.rows), t)
    <3>1. ASSUME NEW u \in Path, IsPlace(u), Below(u, t)
          PROVE  FALSE
      <4>1. Len(u) \in Nat /\ Len(u) < 3 /\ \A i \in 1 .. Len(u) : t[i] = u[i]
        BY <2>3, <3>1, PathElement, BelowElements
      <4>2. Len(u) >= 1 /\ u[1] # TRASH
        BY <3>1, <4>1 DEF IsPlace
      <4> QED
        BY <2>3, <4>1, <4>2
    <3> QED
      BY <3>1 DEF RoomAt
  <2> HIDE DEF t
  <2>7. MirrorInv(moved) /\ StoreInv(moved)
    <3>1. Len(t) >= 1
      BY <2>3
    <3>2. ~RelocateFails(store, o.path, t, o.dir) /\ IsPlace(o.path)
      BY <2>1, <2>2
    <3>3. MirrorInv(Relocate(store, o.path, t, o.dir)) /\ StoreInv(Relocate(store, o.path, t, o.dir))
      BY <1>2, <2>2, <2>3, <2>4, <2>5, <2>6, <3>1, <3>2, MoveMirror
    <3> QED
      BY <2>2, <3>3
  <2> HIDE DEF moved
  <2>8. MirrorInv([moved EXCEPT !.rows = Stamped(moved.rows, t, p)])
    BY <2>2, <2>7, MarkMirror
  <2>9. SoftDelete(store, p, id) = [moved EXCEPT !.rows = Stamped(moved.rows, t, p)]
    BY DEF SoftDelete, moved, t, o
  <2> QED
    BY <1>3, <2>1, <2>8, <2>9
<1>16. ASSUME NEW root \in TrashRoots(store), Restore(root)
       PROVE  MirrorInv(store')
  <2> DEFINE moved == Relocate(store, root.path, root.orig, root.dir)
  <2>1. /\ root \in store.rows /\ root.orig # NoPath /\ root.deleted
        /\ root.path \in Path /\ root.orig \in Path /\ Len(root.orig) >= 1
    BY <1>2 DEF TrashRoots, RowType, RowsInv
  <2>2. /\ Len(root.path) = 3 /\ root.orig[1] # TRASH /\ Plain(root.orig) /\ IsPlace(root.path)
    BY <1>2, <2>1 DEF TrashInv, Unreserved, IsPlace
  <2>3. /\ ~Live(store, root.orig) /\ IsFolder(store, ParentOf(root.orig))
        /\ ~RelocateFails(store, root.path, root.orig, root.dir) /\ Become(Restored(store, root))
    BY <1>16 DEF Restore
  <2>4. RoomAt(Bytes(store.rows), root.orig)
    BY <1>2, <1>6, <2>1, <2>3, RoomUnder
  <2>5. \A r \in store.rows : r.path # root.orig
    BY <1>5, <2>2, <2>3
  <2>6. MirrorInv(moved) /\ StoreInv(moved)
    BY <1>2, <2>1, <2>2, <2>3, <2>4, <2>5, MoveMirror
  <2> HIDE DEF moved
  <2>7. MirrorInv([moved EXCEPT !.rows = Unstamped(moved.rows, root.orig)])
    BY <2>2, <2>6, MarkMirror
  <2>8. Restored(store, root) = [moved EXCEPT !.rows = Unstamped(moved.rows, root.orig)]
    BY DEF Restored, moved
  <2> QED
    BY <1>3, <2>3, <2>7, <2>8
<1>17. ASSUME EmptyTrash \/ \E root \in TrashRoots(store) : Purge(root)
       PROVE  MirrorInv(store')
  <2>1. \A t \in TrashRoots(store) : t \in store.rows /\ IsPlace(t.path)
    BY <1>2 DEF TrashRoots, TrashInv, IsPlace
  <2>2. PICK roots \in SUBSET TrashRoots(store) : Become(Purged(store, roots))
    BY <1>17 DEF EmptyTrash, Purge
  <2>3. roots \in SUBSET store.rows /\ \A t \in roots : IsPlace(t.path)
    BY <2>1
  <2>4. Stored(Purged(store, roots)) /\ Attached(Purged(store, roots))
    BY <1>2, <2>3, PurgedStored
  <2>5. Unreserved(Purged(store, roots).rows)
    BY <1>2 DEF Purged, Unreserved
  <2> QED
    BY <1>3, <2>2, <2>4, <2>5 DEF MirrorInv
<1>18. ASSUME NEW p, NEW v \in store.versions, NEW ref \in Refs, RestoreVersion(p, v, ref)
       PROVE  MirrorInv(store')
  <2> DEFINE s == Snapshot(store, p, ref)
  <2>1. /\ IsFile(store, p) /\ v.path = p /\ \A e \in store.disk : e.path # Blob(ref)
        /\ Become(RolledBack(s, p, v))
    BY <1>18 DEF RestoreVersion, VersionsAt, FreshRef
  <2>2. PICK r \in store.rows : r.path = p /\ ~r.dir
    BY <2>1 DEF IsFile
  <2>3. StoreInv(s) /\ Stored(s) /\ Attached(s) /\ s.rows = store.rows
    BY <1>2, <2>1, SnapshotInv, SnapshotStored
  <2>4. v \in s.versions
    <3>1. store = [rows |-> store.rows, versions |-> store.versions, disk |-> store.disk]
      BY <1>2 DEF StoreInv, StoreType
    <3>2. \A a, b : [[store EXCEPT !.disk = a] EXCEPT !.versions = b].versions = b
      BY <3>1
    <3> QED
      BY <3>1, <3>2 DEF Snapshot
  <2> HIDE DEF s
  <2>5. Stored(RolledBack(s, p, v)) /\ Attached(RolledBack(s, p, v))
    BY <1>2, <2>2, <2>3, <2>4, RolledBackStored
  <2>6. Unreserved(RolledBack(s, p, v).rows)
    <3>1. s \in [rows : SUBSET RowType, versions : SUBSET VersionType, disk : SUBSET EntryType]
      BY <2>3 DEF StoreInv, StoreType
    <3>2. RolledBack(s, p, v).rows = Rehashed(store.rows, p, v.sum)
      BY <2>3, <3>1 DEF RolledBack
    <3>3. Plain(p)
      BY <1>2, <2>2 DEF Unreserved
    <3>4. Unreserved(Rehashed(store.rows, p, v.sum))
      BY <1>2, <3>3, UnreservedMarked
    <3> QED
      BY <3>2, <3>4
  <2> QED
    BY <1>3, <2>1, <2>5, <2>6 DEF MirrorInv
<1>19. ASSUME NEW p, NEW b, SetFavorite(p, b)
       PROVE  MirrorInv(store')
  <2>1. Live(store, p) /\ Become([store EXCEPT !.rows = Starred(store.rows, p, b)])
    BY <1>19 DEF SetFavorite
  <2>2. Plain(p)
    BY <1>4, <2>1
  <2>3. MirrorInv([store EXCEPT !.rows = Starred(store.rows, p, b)])
    BY <1>2, <2>2, MarkMirror
  <2> QED
    BY <1>3, <2>1, <2>3
<1>20. ASSUME UNCHANGED vars
       PROVE  MirrorInv(store')
  BY <1>20 DEF vars
<1>21. MirrorInv(store')
  BY <1>10, <1>11, <1>13, <1>14, <1>15, <1>16, <1>17, <1>18, <1>19, <1>20 DEF Next
<1> QED
  BY <1>1, <1>21

----------------------------------------------------------------------------
LEMMA MirrorAlways ==
  ASSUME LikeIsExact, {TRASH, VERSIONS} \cap Names = {}
  PROVE  Spec => []DiskIInv
<1>1. Init => DiskIInv
  <2>1. Init => TreeIInv
    BY TrashInit DEF TreeIInv, Init, EmptyStore, TreeInv
  <2>2. Init => MirrorInv(store)
    BY DEF Init, EmptyStore, MirrorInv, Stored, Attached, Unreserved, Rooted, Bytes, Blobs,
           RefsUnique, Numbered
  <2> QED
    BY <2>1, <2>2 DEF DiskIInv
<1>2. DiskIInv /\ [Next]_vars => DiskIInv'
  BY MirrorStep
<1> QED
  BY <1>1, <1>2, PTL DEF Spec

(* The disk holds exactly what the rows say, a directory for every folder  *)
(* and the bytes of the stored checksum for every file, after any sequence *)
(* of requests: the recursive removals, os.rename of whole trees and the   *)
(* two UPDATEs of _relocate_subtree select the same entries.               *)
THEOREM DiskStaysMatched ==
  ASSUME LikeIsExact, {TRASH, VERSIONS} \cap Names = {}
  PROVE  Spec => []DiskMatches
<1>1. DiskIInv => DiskMatches
  <2> SUFFICES ASSUME DiskIInv
               PROVE  DiskMatches
    OBVIOUS
  <2>1. /\ RowsInv(store.rows) /\ VersionsInv(store.versions)
        /\ store.disk = Bytes(store.rows) \cup Blobs(store.versions)
        /\ Unreserved(store.rows)
    BY DEF DiskIInv, TreeIInv, TrashIInv, StoreInv, MirrorInv, Stored
  <2>2. \A e \in Bytes(store.rows) : e.path[1] # VERSIONS
    BY <2>1, RowEntries DEF Unreserved, Plain
  <2>3. \A e \in Blobs(store.versions) : e.path[1] = VERSIONS
    BY <2>1, BlobEntries
  <2>4. {e \in store.disk : e.path[1] # VERSIONS} = Bytes(store.rows)
    BY <2>1, <2>2, <2>3
  <2> QED
    BY <2>4 DEF DiskMatches, Bytes, Entry
<1> QED
  BY <1>1, MirrorAlways, PTL

LEMMA NumbersCount ==
  ASSUME NEW s, StoreInv(s), Numbered(s.versions), NEW v \in s.versions
  PROVE  {w.no : w \in VersionsAt(s, v.path)} = 1 .. Cardinality(VersionsAt(s, v.path))
<1> DEFINE S == VersionsAt(s, v.path)
           N == {w.no : w \in S}
           f == [w \in S |-> w.no]
<1>1. /\ S \in SUBSET s.versions /\ v \in S /\ IsFiniteSet(S)
      /\ \A w \in S : w.no \in Nat /\ w.no >= 1 /\ w.path = v.path
  <2>1. S \in SUBSET s.versions /\ IsFiniteSet(s.versions)
    BY DEF VersionsAt, StoreInv, VersionsInv
  <2> QED
    BY <2>1, FS_Subset DEF VersionsAt, StoreInv, VersionsInv, VersionType
<1>2. \A u \in s.versions : u.path = v.path => u \in S
  BY DEF VersionsAt
<1> HIDE DEF S
<1>3. f \in Surjection(S, N) /\ f \in Injection(S, N)
  BY <1>1 DEF Surjection, Injection, IsInjective, Numbered
<1>4. IsFiniteSet(N) /\ Cardinality(N) = Cardinality(S)
  BY <1>1, <1>3, FS_Surjection
<1>5. N \in SUBSET Int /\ N # {}
  BY <1>1
<1>6. PICK m \in N : \A k \in N : k <= m
  BY <1>4, <1>5, MaxOfFinite
<1>7. N = 1 .. m
  <2>1. \A k \in N : k \in 1 .. m
    BY <1>1, <1>6
  <2>2. PICK w \in S : w.no = m
    BY <1>6
  <2>3. ASSUME NEW k \in 1 .. m
        PROVE  k \in N
    <3>1. PICK u \in s.versions : u.path = w.path /\ u.no = k
      BY <1>1, <2>2, <2>3 DEF Numbered
    <3> QED
      BY <1>1, <1>2, <3>1
  <2> QED
    BY <2>1, <2>3
<1>8. Cardinality(1 .. m) = m
  <2>1. m \in Nat /\ m >= 1
    BY <1>1, <1>6
  <2> QED
    BY <2>1, FS_Interval
<1> QED
  BY <1>4, <1>7, <1>8 DEF S

(* History follows the file: through overwrites, roll-backs, moves of      *)
(* whole folders, deletes, restores and purges every version keeps its     *)
(* file, the numbers at a path run 1..n, and every blob has one row.       *)
THEOREM HistoryStaysAttached ==
  ASSUME LikeIsExact, {TRASH, VERSIONS} \cap Names = {}
  PROVE  Spec => []HistoryAttached
<1>1. DiskIInv => HistoryAttached
  <2> SUFFICES ASSUME DiskIInv
               PROVE  HistoryAttached
    OBVIOUS
  <2>1. /\ StoreInv(store) /\ RowsInv(store.rows) /\ VersionsInv(store.versions)
        /\ store.disk = Bytes(store.rows) \cup Blobs(store.versions)
        /\ Unreserved(store.rows) /\ Attached(store)
        /\ RefsUnique(store.versions) /\ Numbered(store.versions)
    BY DEF DiskIInv, TreeIInv, TrashIInv, StoreInv, MirrorInv, Stored
  <2>2. \A v \in store.versions :
          /\ \E r \in store.rows : r.path = v.path /\ ~r.dir
          /\ {w.no : w \in VersionsAt(store, v.path)} = 1 .. Cardinality(VersionsAt(store, v.path))
    BY <2>1, NumbersCount DEF Attached
  <2>3. \A e \in Bytes(store.rows) : e.path[1] # VERSIONS
    BY <2>1, RowEntries DEF Unreserved, Plain
  <2>4. \A e \in Blobs(store.versions) : e.path[1] = VERSIONS
    BY <2>1, BlobEntries
  <2>5. {e \in store.disk : e.path[1] = VERSIONS} = Blobs(store.versions)
    BY <2>1, <2>3, <2>4
  <2>6. Cardinality({v.ref : v \in store.versions}) = Cardinality(store.versions)
    <3> DEFINE f == [v \in store.versions |-> v.ref]
               T == {v.ref : v \in store.versions}
    <3>1. f \in Surjection(store.versions, T) /\ f \in Injection(store.versions, T)
      BY <2>1 DEF Surjection, Injection, IsInjective, RefsUnique
    <3>2. IsFiniteSet(store.versions)
      BY <2>1 DEF VersionsInv
    <3> QED
      BY <3>1, <3>2, FS_Surjection
  <2> QED
    BY <2>2, <2>5, <2>6 DEF HistoryAttached, Blobs, BlobOf
<1> QED
  BY <1>1, MirrorAlways, PTL

----------------------------------------------------------------------------
(* Nothing is lost.  An entry is known by its node; what it holds is its   *)
(* own content and that of its versions, wherever it has been moved to.    *)

HoldsAt(s, r, c) ==
  (~r.dir /\ c = r.sum) \/ \E v \in s.versions : v.path = r.path /\ v.sum = c
Follows(s, r, t, x) == x.node = r.node /\ \A c : HoldsAt(s, r, c) => HoldsAt(t, x, c)
Carried(s, t) == \A r \in s.rows : \E x \in t.rows : Follows(s, r, t, x)
CarriedLive(s, t) == \A r \in s.rows : ~r.deleted => \E x \in t.rows : Follows(s, r, t, x)
NodesUnique(rows) == \A r, t \in rows : r.node = t.node => r = t

LEMMA OneBlobOnDisk ==
  ASSUME NEW s, StoreInv(s), Stored(s), Apart(s.rows), NEW v \in s.versions
  PROVE  FileOn(s.disk, Blob(v.ref)) = {BlobOf(v)} /\ BlobOf(v).data = v.sum
<1>1. RowsInv(s.rows) /\ VersionsInv(s.versions) /\ v.ref \in Refs
  BY DEF StoreInv, VersionsInv, VersionType
<1>2. \A e \in Bytes(s.rows) : e.path # Blob(v.ref)
  BY <1>1, RowEntries, BlobPath DEF Apart
<1>3. /\ BlobOf(v) \in Blobs(s.versions) /\ BlobOf(v).path = Blob(v.ref)
      /\ BlobOf(v).data = v.sum /\ BlobOf(v).data # DIR
  BY <1>1, BlobEntries
<1>4. ASSUME NEW e \in Blobs(s.versions), e.path = Blob(v.ref)
      PROVE  e = BlobOf(v)
  <2>1. PICK w \in s.versions : e = BlobOf(w)
    BY DEF Blobs
  <2>2. Blob(w.ref) = Blob(v.ref) /\ w.ref \in Refs
    BY <1>1, <1>4, <2>1 DEF BlobOf, VersionsInv, VersionType
  <2>3. w = v
    BY <1>1, <2>2, BlobsApart DEF Stored, RefsUnique
  <2> QED
    BY <2>1, <2>3
<1> QED
  BY <1>1, <1>2, <1>3, <1>4 DEF FileOn, Stored

LEMMA RecoverableHeld ==
  ASSUME NEW s, StoreInv(s), MirrorInv(s), NEW n, NEW c
  PROVE  c \in Recoverable(s, n) <=> \E r \in s.rows : r.node = n /\ HoldsAt(s, r, c)
<1> DEFINE Of(r) == {e.data : e \in FileOn(s.disk, r.path)} \cup
                    {e.data : e \in UNION {FileOn(s.disk, Blob(v.ref)) : v \in VersionsAt(s, r.path)}}
<1>1. /\ Stored(s) /\ Unreserved(s.rows) /\ Apart(s.rows)
      /\ RowsInv(s.rows) /\ VersionsInv(s.versions)
  BY UnreservedApart DEF MirrorInv, StoreInv
<1>2. ASSUME NEW r \in s.rows
      PROVE  c \in Of(r) <=> HoldsAt(s, r, c)
  <2>1. c \in {e.data : e \in FileOn(s.disk, r.path)} <=> ~r.dir /\ c = r.sum
    <3>1. CASE r.dir
      <4>1. \A e \in Bytes(s.rows) : e.path = r.path => e.data = DIR
        BY <1>1, <3>1, RowEntries
      <4>2. \A e \in Blobs(s.versions) : e.path # r.path
        BY <1>1, BlobEntries DEF Unreserved, Plain
      <4>3. FileOn(s.disk, r.path) = {}
        BY <1>1, <4>1, <4>2 DEF FileOn, Stored
      <4> QED
        BY <3>1, <4>3
    <3>2. CASE ~r.dir
      <4>1. FileOn(s.disk, r.path) = {Entry(r)} /\ Entry(r).data = r.sum
        BY <1>1, <3>2, OneFileOnDisk, RowEntries
      <4> QED
        BY <3>2, <4>1
    <3> QED
      BY <3>1, <3>2
  <2>2. c \in {e.data : e \in UNION {FileOn(s.disk, Blob(v.ref)) : v \in VersionsAt(s, r.path)}}
          <=> \E v \in s.versions : v.path = r.path /\ v.sum = c
    <3>1. \A v \in s.versions : FileOn(s.disk, Blob(v.ref)) = {BlobOf(v)} /\ BlobOf(v).data = v.sum
      BY <1>1, OneBlobOnDisk
    <3> QED
      BY <3>1 DEF VersionsAt
  <2> QED
    BY <2>1, <2>2 DEF HoldsAt
<1>3. Recoverable(s, n) = UNION {Of(r) : r \in {x \in s.rows : x.node = n}}
  BY DEF Recoverable
<1> HIDE DEF Of
<1> QED
  BY <1>2, <1>3

LEMMA CarriedLost ==
  ASSUME NEW s, StoreInv(s), MirrorInv(s), NodesUnique(s.rows),
         NEW t, StoreInv(t), MirrorInv(t), CarriedLive(s, t), NEW r \in s.rows, ~r.deleted
  PROVE  /\ \E x \in t.rows : x.node = r.node
         /\ Recoverable(s, r.node) \subseteq Recoverable(t, r.node)
<1>1. PICK x \in t.rows : x.node = r.node /\ \A c : HoldsAt(s, r, c) => HoldsAt(t, x, c)
  BY DEF CarriedLive, Follows
<1>2. ASSUME NEW c \in Recoverable(s, r.node)
      PROVE  c \in Recoverable(t, r.node)
  <2>1. PICK o \in s.rows : o.node = r.node /\ HoldsAt(s, o, c)
    BY RecoverableHeld
  <2>2. o = r
    BY <2>1 DEF NodesUnique
  <2>3. HoldsAt(t, x, c)
    BY <1>1, <2>1, <2>2
  <2> QED
    BY <1>1, <2>3, RecoverableHeld
<1> QED
  BY <1>1, <1>2

----------------------------------------------------------------------------
(* What each change of the rows does to the entries and what they hold.    *)

LEMMA CarriedTrans ==
  ASSUME NEW s, NEW t, NEW u, Carried(s, t), Carried(t, u)
  PROVE  Carried(s, u)
<1> SUFFICES ASSUME NEW r \in s.rows
             PROVE  \E y \in u.rows : Follows(s, r, u, y)
  BY DEF Carried
<1>1. PICK x \in t.rows : Follows(s, r, t, x)
  BY DEF Carried
<1>2. PICK y \in u.rows : Follows(t, x, u, y)
  BY DEF Carried
<1> QED
  BY <1>1, <1>2 DEF Follows

LEMMA CarriedByMove ==
  ASSUME NEW s, StoreInv(s), NodesUnique(s.rows), NEW old \in Path, NEW new \in Path,
         Len(new) >= 1, NEW dir \in BOOLEAN
  PROVE  /\ NodesUnique(Relocate(s, old, new, dir).rows)
         /\ Carried(s, Relocate(s, old, new, dir))
<1> DEFINE t == Relocate(s, old, new, dir)
           F(r) == MovedRow(old, new, dir, r)
           M(v) == [v EXCEPT !.path = MovedPath(old, new, dir, @)]
<1>1. t.rows = {F(r) : r \in s.rows} /\ t.versions = {M(v) : v \in s.versions}
  BY DEF Relocate, RelocateRows, RelocateVersions
<1>2. ASSUME NEW r \in s.rows
      PROVE  /\ F(r).path = MovedPath(old, new, dir, r.path) /\ F(r).dir = r.dir
             /\ F(r).sum = r.sum /\ F(r).node = r.node
  <2>1. r \in RowType /\ Len(r.path) >= 1
    BY DEF StoreInv, RowsInv
  <2>2. F(r).node = r.node
    BY <2>1 DEF MovedRow, RowType
  <2> QED
    BY <2>1, <2>2, MovedRowFields
<1>3. ASSUME NEW v \in s.versions
      PROVE  M(v).path = MovedPath(old, new, dir, v.path) /\ M(v).sum = v.sum
  <2>1. v \in VersionType
    BY DEF StoreInv, VersionsInv
  <2> QED
    BY <2>1 DEF VersionType
<1> HIDE DEF t, F, M
<1>4. NodesUnique(t.rows)
  BY <1>1, <1>2 DEF NodesUnique
<1>5. ASSUME NEW r \in s.rows
      PROVE  F(r) \in t.rows /\ Follows(s, r, t, F(r))
  <2>1. ASSUME NEW c, HoldsAt(s, r, c)
        PROVE  HoldsAt(t, F(r), c)
    BY <1>1, <1>2, <1>3, <2>1 DEF HoldsAt
  <2> QED
    BY <1>1, <1>2, <2>1 DEF Follows
<1> QED
  BY <1>4, <1>5 DEF Carried, t

SameNode(r, x) == x.path = r.path /\ x.dir = r.dir /\ x.sum = r.sum /\ x.node = r.node

LEMMA CarriedByMark ==
  ASSUME NEW s, StoreInv(s), NodesUnique(s.rows), NEW p, NEW orig, NEW b
  PROVE  \A rows \in {Stamped(s.rows, p, orig), Unstamped(s.rows, p), Starred(s.rows, p, b)} :
           /\ NodesUnique([s EXCEPT !.rows = rows].rows)
           /\ Carried(s, [s EXCEPT !.rows = rows])
<1> SUFFICES ASSUME NEW rows \in {Stamped(s.rows, p, orig), Unstamped(s.rows, p), Starred(s.rows, p, b)}
             PROVE  /\ NodesUnique([s EXCEPT !.rows = rows].rows)
                    /\ Carried(s, [s EXCEPT !.rows = rows])
  OBVIOUS
<1> DEFINE t == [s EXCEPT !.rows = rows]
           A(r) == [r EXCEPT !.deleted = TRUE, !.orig = IF r.path = p THEN orig ELSE @]
           B(r) == [r EXCEPT !.deleted = FALSE, !.orig = NoPath]
           C(r) == [r EXCEPT !.fav = b]
<1>1. t.rows = rows /\ t.versions = s.versions
  BY DEF StoreInv, StoreType
<1>2. ASSUME NEW r \in s.rows
      PROVE  SameNode(r, A(r)) /\ SameNode(r, B(r)) /\ SameNode(r, C(r)) /\ SameNode(r, r)
  <2>1. r \in RowType
    BY DEF StoreInv, RowsInv
  <2>2. SameNode(r, A(r))
    BY <2>1 DEF SameNode, RowType
  <2>3. SameNode(r, B(r))
    BY <2>1 DEF SameNode, RowType
  <2>4. SameNode(r, C(r)) /\ SameNode(r, r)
    BY <2>1 DEF SameNode, RowType
  <2> QED
    BY <2>2, <2>3, <2>4
<1>3. \/ rows = {IF Covers(p, r.path) THEN A(r) ELSE r : r \in s.rows}
      \/ rows = {IF Covers(p, r.path) THEN B(r) ELSE r : r \in s.rows}
      \/ rows = {IF r.path = p THEN C(r) ELSE r : r \in s.rows}
  BY DEF Stamped, Unstamped, Starred
<1> HIDE DEF t, A, B, C
<1>4. \A r \in s.rows : \E x \in rows : SameNode(r, x)
  BY <1>2, <1>3
<1>5. NodesUnique(rows)
  <2>1. \A r \in s.rows : A(r).node = r.node /\ B(r).node = r.node /\ C(r).node = r.node
    BY <1>2 DEF SameNode
  <2> QED
    BY <1>3, <2>1 DEF NodesUnique
<1>6. \A r \in s.rows, x \in rows : SameNode(r, x) => Follows(s, r, t, x)
  BY <1>1 DEF SameNode, Follows, HoldsAt
<1> QED
  BY <1>1, <1>4, <1>5, <1>6 DEF Carried, t

LEMMA SnapshotHolds ==
  ASSUME NEW s, StoreInv(s), MirrorInv(s), NEW p, IsFile(s, p), NEW ref
  PROVE  /\ s.versions \subseteq Snapshot(s, p, ref).versions
         /\ \E v \in Snapshot(s, p, ref).versions : v.path = p /\ v.sum = RowAt(s, p).sum
<1> DEFINE r == RowAt(s, p)
           v == [path |-> p, no |-> NextNo(s, p), sum |-> r.sum, ref |-> ref]
<1>1. r \in s.rows /\ r.path = p /\ ~r.dir
  <2>1. Live(s, p)
    BY DEF IsFile, Live
  <2> QED
    BY <2>1, RowAtLive
<1>2. FileOn(s.disk, p) # {}
  <2> HIDE DEF r
  <2>1. FileOn(s.disk, r.path) = {Entry(r)}
    BY <1>1, OneFileOnDisk, UnreservedApart DEF MirrorInv
  <2> QED
    BY <1>1, <2>1
<1>3. s = [rows |-> s.rows, versions |-> s.versions, disk |-> s.disk]
  BY DEF StoreInv, StoreType
<1>4. \A a, b : [[s EXCEPT !.disk = a] EXCEPT !.versions = b].versions = b
  BY <1>3
<1>5. Snapshot(s, p, ref).versions = s.versions \cup {v}
  BY <1>2, <1>3, <1>4 DEF Snapshot
<1>6. v.path = p /\ v.sum = r.sum
  OBVIOUS
<1> QED
  BY <1>5, <1>6

LEMMA CarriedByInsert ==
  ASSUME NEW s, NodesUnique(s.rows), NEW r, \A t \in s.rows : t.node # r.node,
         NEW n, n.rows \in {s.rows, s.rows \cup {r}}, n.versions = s.versions
  PROVE  NodesUnique(n.rows) /\ Carried(s, n)
  BY DEF NodesUnique, Carried, Follows, HoldsAt

(* The overwritten content is that of the version that was just made.      *)
LEMMA CarriedByOverwrite ==
  ASSUME NEW s, StoreInv(s), MirrorInv(s), NodesUnique(s.rows), NEW p, IsFile(s, p), NEW ref, NEW c,
         NEW n, Replaced(s, n, p, ref, c, RowAt(s, p).node)
  PROVE  NodesUnique(n.rows) /\ Carried(s, n)
<1> DEFINE r == RowAt(s, p)
           x == NewRow(p, FALSE, c, r.node)
<1>1. r \in s.rows /\ r.path = p
  <2>1. Live(s, p)
    BY DEF IsFile, Live
  <2> QED
    BY <2>1, RowAtLive
<1>2. n.rows = (s.rows \ {r}) \cup {x} /\ x.node = r.node /\ x.path = p
  BY DEF Replaced, Swapped, NewRow
<1>3. /\ s.versions \subseteq n.versions
      /\ \E v \in n.versions : v.path = p /\ v.sum = r.sum
  BY SnapshotHolds DEF Replaced, Swapped
<1> HIDE DEF r, x
<1>4. NodesUnique(n.rows)
  BY <1>1, <1>2 DEF NodesUnique
<1>5. \A t \in s.rows : t # r => Follows(s, t, n, t) /\ t \in n.rows
  BY <1>2, <1>3 DEF Follows, HoldsAt
<1>6. Follows(s, r, n, x)
  BY <1>1, <1>2, <1>3 DEF Follows, HoldsAt
<1> QED
  BY <1>2, <1>4, <1>5, <1>6 DEF Carried

LEMMA CarriedByRollBack ==
  ASSUME NEW s, StoreInv(s), MirrorInv(s), NodesUnique(s.rows), NEW p, IsFile(s, p), NEW ref, NEW sum,
         NEW n, n.rows = Rehashed(s.rows, p, sum), n.versions = Snapshot(s, p, ref).versions
  PROVE  NodesUnique(n.rows) /\ Carried(s, n)
<1> DEFINE F(r) == IF r.path = p THEN [r EXCEPT !.sum = sum] ELSE r
<1>1. RowsInv(s.rows) /\ RowAt(s, p) \in s.rows /\ RowAt(s, p).path = p
  <2>1. Live(s, p)
    BY DEF IsFile, Live
  <2> QED
    BY <2>1, RowAtLive DEF StoreInv
<1>2. ASSUME NEW r \in s.rows
      PROVE  /\ F(r).path = r.path /\ F(r).dir = r.dir /\ F(r).node = r.node
             /\ r.path # p => F(r).sum = r.sum
             /\ r.path = p => r = RowAt(s, p)
  <2>1. r \in RowType
    BY <1>1 DEF RowsInv
  <2> QED
    BY <1>1, <2>1 DEF RowType, RowsInv, KeysUnique
<1>3. n.rows = {F(r) : r \in s.rows}
  BY DEF Rehashed
<1> HIDE DEF F
<1>4. /\ s.versions \subseteq n.versions
      /\ \E v \in n.versions : v.path = p /\ v.sum = RowAt(s, p).sum
  BY SnapshotHolds
<1>5. NodesUnique(n.rows)
  BY <1>2, <1>3 DEF NodesUnique
<1>6. ASSUME NEW r \in s.rows
      PROVE  Follows(s, r, n, F(r))
  <2>1. ASSUME NEW c, HoldsAt(s, r, c)
        PROVE  HoldsAt(n, F(r), c)
    BY <1>2, <1>4, <2>1 DEF HoldsAt
  <2> QED
    BY <1>2, <2>1 DEF Follows
<1> QED
  BY <1>3, <1>5, <1>6 DEF Carried

LEMMA CarriedByPurge ==
  ASSUME LikeIsExact, NEW s, StoreInv(s), TrashInv(s.rows), NodesUnique(s.rows),
         NEW roots \in SUBSET TrashRoots(s)
  PROVE  NodesUnique(Purged(s, roots).rows) /\ CarriedLive(s, Purged(s, roots))
<1> DEFINE n == Purged(s, roots)
<1>1. /\ n.rows = {r \in s.rows : ~CoveredBy(roots, r.path)}
      /\ n.versions = s.versions \ {v \in s.versions : CoveredBy(roots, v.path)}
  BY DEF Purged
<1> HIDE DEF n
<1>2. ASSUME NEW r \in s.rows, ~r.deleted
      PROVE  ~CoveredBy(roots, r.path)
  <2>1. r.path[1] # TRASH /\ r.path \in Path
    BY <1>2 DEF TrashInv, StoreInv, RowsInv, RowType
  <2>2. ASSUME NEW t \in roots
        PROVE  ~Covers(t.path, r.path)
    <3>1. t.path[1] = TRASH /\ t.path \in Path /\ Len(t.path) >= 1
      BY DEF TrashRoots, TrashInv, StoreInv, RowsInv, RowType
    <3> QED
      BY <2>1, <3>1, CoveredFirst
  <2> QED
    BY <2>2 DEF CoveredBy
<1>3. ASSUME NEW r \in s.rows, ~r.deleted
      PROVE  r \in n.rows /\ Follows(s, r, n, r)
  <2>1. ~CoveredBy(roots, r.path)
    BY <1>2, <1>3
  <2> QED
    BY <1>1, <2>1 DEF Follows, HoldsAt
<1>4. NodesUnique(n.rows)
  BY <1>1 DEF NodesUnique
<1> QED
  BY <1>3, <1>4 DEF CarriedLive, n

LEMMA CarriedStep ==
  ASSUME LikeIsExact, {TRASH, VERSIONS} \cap Names = {}
  PROVE  DiskIInv /\ NodesUnique(store.rows) /\ [Next]_vars
           => NodesUnique(store'.rows) /\ CarriedLive(store, store')
<1> DEFINE Safe(s) == NodesUnique(s.rows) /\ CarriedLive(store, s)
<1> SUFFICES ASSUME DiskIInv, NodesUnique(store.rows), [Next]_vars
             PROVE  Safe(store')
  OBVIOUS
<1>1. /\ StoreInv(store) /\ MarksInv(store.rows) /\ TrashInv(store.rows) /\ TreeInv(store.rows)
      /\ MirrorInv(store) /\ RowsInv(store.rows) /\ store.rows \subseteq RowType
      /\ store \in StoreType
  BY DEF DiskIInv, TreeIInv, TrashIInv, MarksInv, StoreInv, RowsInv
<1>2. \A s : Safe(s) /\ Become(s) => Safe(store')
  BY DEF Become
<1>3. \A s : NodesUnique(s.rows) /\ Carried(store, s) => Safe(s)
  BY DEF Carried, CarriedLive
<1> HIDE DEF Safe
<1>4. ASSUME NEW p, Live(store, p)
      PROVE  /\ p \in Path /\ Len(p) >= 1 /\ p[1] # TRASH /\ ParentOf(p) \in Path
             /\ RowAt(store, p) \in store.rows /\ RowAt(store, p).path = p
             /\ RowAt(store, p).name \in Segments /\ RowAt(store, p).dir \in BOOLEAN
  BY <1>1, <1>4, LiveParent, ParentPath
<1>5. \A p \in Path, name \in Segments : Child(p, name) \in Path /\ Len(Child(p, name)) >= 1
  BY ChildPath, PathElement
<1>6. \A parent \in Folders : parent \in Path
  BY <1>1, FolderPath DEF Folders, IsFolder
<1>7. ASSUME NEW parent, NEW name, NEW c, NEW n,
             Upload(parent, name, c, n) \/ CreateFolder(parent, name, n)
      PROVE  Safe(store')
  <2> DEFINE p == Child(parent, name)
  <2>1. \A t \in store.rows : t.node # n
    BY <1>7 DEF Upload, CreateFolder, FreshNode
  <2>2. \A dir, sum : NewRow(p, dir, sum, n).node = n
    BY DEF NewRow
  <2>3. Become(AddStream(store, p, c, n)) \/ Become(AddFolder(store, p, n))
    BY <1>7 DEF Upload, CreateFolder
  <2> HIDE DEF p
  <2>4. /\ AddStream(store, p, c, n).rows \in {store.rows, store.rows \cup {NewRow(p, FALSE, c, n)}}
        /\ AddFolder(store, p, n).rows \in {store.rows, store.rows \cup {NewRow(p, TRUE, NoSum, n)}}
    BY <1>1, AddedRows
  <2>5. /\ AddStream(store, p, c, n).versions = store.versions
        /\ AddFolder(store, p, n).versions = store.versions
    <3>1. store = [rows |-> store.rows, versions |-> store.versions, disk |-> store.disk]
      BY <1>1 DEF StoreType
    <3>2. /\ \A a : [store EXCEPT !.disk = a].versions = store.versions
          /\ \A a, b : [[store EXCEPT !.disk = a] EXCEPT !.rows = b].versions = store.versions
          /\ \A a, b : [[store EXCEPT !.rows = a] EXCEPT !.disk = b].versions = store.versions
      BY <3>1
    <3> QED
      BY <3>2 DEF AddStream, AddFolder
  <2>6. ASSUME NEW row, row.node = n,
               NEW s, s.rows \in {store.rows, store.rows \cup {row}}, s.versions = store.versions
        PROVE  Safe(s)
    <3>1. \A t \in store.rows : t.node # row.node
      BY <2>1, <2>6
    <3>2. NodesUnique(s.rows) /\ Carried(store, s)
      BY <2>6, <3>1, CarriedByInsert
    <3> QED
      BY <1>3, <3>2
  <2>7. Safe(AddStream(store, p, c, n)) /\ Safe(AddFolder(store, p, n))
    <3> DEFINE added == AddStream(store, p, c, n)
               made  == AddFolder(store, p, n)
               file  == NewRow(p, FALSE, c, n)
               dir   == NewRow(p, TRUE, NoSum, n)
    <3>1. /\ file.node = n /\ added.rows \in {store.rows, store.rows \cup {file}}
          /\ added.versions = store.versions
          /\ dir.node = n /\ made.rows \in {store.rows, store.rows \cup {dir}}
          /\ made.versions = store.versions
      BY <2>2, <2>4, <2>5
    <3> HIDE DEF added, made, file, dir
    <3>2. Safe(added) /\ Safe(made)
      BY <2>6, <3>1
    <3> QED
      BY <3>2 DEF added, made
  <2> QED
    BY <1>2, <2>3, <2>7
<1>8. ASSUME NEW p, NEW c, NEW ref \in Refs, UploadOver(p, c, ref) \/ SaveContent(p, c, ref)
      PROVE  Safe(store')
  <2> DEFINE node == RowAt(store, p).node
  <2>1. IsFile(store, p) /\ \A e \in store.disk : e.path # Blob(ref)
    BY <1>8 DEF UploadOver, SaveContent, FreshRef
  <2>2. p[1] # TRASH
    <3>1. Live(store, p)
      BY <2>1 DEF IsFile, Live
    <3> QED
      BY <1>4, <3>1
  <2>3. /\ Replaced(store, AddStream(Overwritten(store, p, ref), p, c, node), p, ref, c, node)
        /\ Replaced(store, AddBytes(Overwritten(store, p, ref), p, c, node), p, ref, c, node)
    BY <1>1, <2>1, <2>2, OverwriteMirror
  <2>4. Safe(AddStream(Overwritten(store, p, ref), p, c, node))
    BY <1>1, <1>3, <2>1, <2>3, CarriedByOverwrite
  <2>5. Safe(AddBytes(Overwritten(store, p, ref), p, c, node))
    BY <1>1, <1>3, <2>1, <2>3, CarriedByOverwrite
  <2>6. \/ Become(AddStream(Overwritten(store, p, ref), p, c, node))
        \/ Become(AddBytes(Overwritten(store, p, ref), p, c, node))
    BY <1>8 DEF UploadOver, SaveContent
  <2> QED
    BY <1>2, <2>4, <2>5, <2>6
<1>9. ASSUME NEW p, NEW q \in Path, Len(q) >= 1, Live(store, p), Become(Relocated(p, q))
      PROVE  Safe(store')
  <2>1. p \in Path /\ RowAt(store, p).dir \in BOOLEAN
    BY <1>4, <1>9
  <2>2. Safe(Relocated(p, q))
    BY <1>1, <1>3, <1>9, <2>1, CarriedByMove DEF Relocated
  <2> QED
    BY <1>2, <1>9, <2>2
<1>10. ASSUME NEW p, NEW name \in Names, Rename(p, name)
       PROVE  Safe(store')
  <2>1. Live(store, p) /\ Become(Relocated(p, Child(ParentOf(p), name))) /\ name \in Segments
    BY <1>10, FilesystemAssumption DEF Rename
  <2> QED
    BY <1>4, <1>5, <1>9, <2>1
<1>11. ASSUME NEW p, NEW parent \in Folders, Move(p, parent)
       PROVE  Safe(store')
  <2>1. Live(store, p) /\ Become(Relocated(p, Child(parent, RowAt(store, p).name)))
    BY <1>11 DEF Move
  <2> QED
    BY <1>4, <1>5, <1>6, <1>9, <2>1
<1>12. ASSUME NEW old \in Path, NEW new \in Path, Len(new) >= 1, NEW dir \in BOOLEAN,
              ~RelocateFails(store, old, new, dir), NEW p, NEW orig
       PROVE  LET moved == Relocate(store, old, new, dir)
              IN  /\ Safe([moved EXCEPT !.rows = Stamped(moved.rows, p, orig)])
                  /\ Safe([moved EXCEPT !.rows = Unstamped(moved.rows, p)])
  <2> DEFINE moved == Relocate(store, old, new, dir)
             a == [moved EXCEPT !.rows = Stamped(moved.rows, p, orig)]
             b == [moved EXCEPT !.rows = Unstamped(moved.rows, p)]
  <2>1. NodesUnique(moved.rows) /\ Carried(store, moved)
    BY <1>1, <1>12, CarriedByMove
  <2>2. StoreInv(moved)
    BY <1>1, <1>12, RelocateInv
  <2> HIDE DEF moved
  <2>3. NodesUnique(a.rows) /\ Carried(moved, a) /\ NodesUnique(b.rows) /\ Carried(moved, b)
    BY <2>1, <2>2, CarriedByMark
  <2> HIDE DEF a, b
  <2>4. Carried(store, a) /\ Carried(store, b)
    BY <2>1, <2>3, CarriedTrans
  <2> QED
    BY <1>3, <2>3, <2>4 DEF a, b, moved
<1>13. ASSUME NEW p, NEW id \in TrashIds, Delete(p, id)
       PROVE  Safe(store')
  <2> DEFINE o == RowAt(store, p)
             t == TrashPath(id, o.name)
  <2>1. /\ Live(store, p) /\ id \in Segments
        /\ ~RelocateFails(store, p, t, o.dir) /\ Become(SoftDelete(store, p, id))
    BY <1>13, FilesystemAssumption DEF Delete, CanRelocate
  <2>2. p \in Path /\ o.name \in Segments /\ o.dir \in BOOLEAN
    BY <1>4, <2>1
  <2> HIDE DEF o
  <2>3. t \in Path /\ Len(t) >= 1
    BY <2>1, <2>2, StorageAssumption DEF TrashPath, Path
  <2>4. Safe(SoftDelete(store, p, id))
    BY <1>12, <2>1, <2>2, <2>3 DEF SoftDelete, o
  <2> QED
    BY <1>2, <2>1, <2>4
<1>14. ASSUME NEW root \in TrashRoots(store), Restore(root)
       PROVE  Safe(store')
  <2>1. /\ root.path \in Path /\ root.dir \in BOOLEAN /\ root.orig \in Path /\ Len(root.orig) >= 1
    BY <1>1 DEF TrashRoots, RowType, RowsInv
  <2>2. ~RelocateFails(store, root.path, root.orig, root.dir) /\ Become(Restored(store, root))
    BY <1>14 DEF Restore
  <2>3. Safe(Restored(store, root))
    BY <1>12, <2>1, <2>2 DEF Restored
  <2> QED
    BY <1>2, <2>2, <2>3
<1>15. ASSUME EmptyTrash \/ \E root \in TrashRoots(store) : Purge(root)
       PROVE  Safe(store')
  <2>1. PICK roots \in SUBSET TrashRoots(store) : Become(Purged(store, roots))
    BY <1>15 DEF EmptyTrash, Purge
  <2>2. Safe(Purged(store, roots))
    BY <1>1, CarriedByPurge DEF Safe
  <2> QED
    BY <1>2, <2>1, <2>2
<1>16. ASSUME NEW p, NEW v, NEW ref \in Refs, RestoreVersion(p, v, ref)
       PROVE  Safe(store')
  <2> DEFINE s == Snapshot(store, p, ref)
             n == RolledBack(s, p, v)
  <2>1. IsFile(store, p) /\ Become(n)
    BY <1>16 DEF RestoreVersion
  <2>2. StoreInv(s) /\ s.rows = store.rows
    BY <1>1, SnapshotInv, OverwrittenRows
  <2>3. n.rows = Rehashed(store.rows, p, v.sum) /\ n.versions = s.versions
    <3> HIDE DEF s
    <3>1. s = [rows |-> s.rows, versions |-> s.versions, disk |-> s.disk]
      BY <2>2 DEF StoreInv, StoreType
    <3>2. \A a, b : LET m == [[s EXCEPT !.disk = a] EXCEPT !.rows = b]
                    IN  m.rows = b /\ m.versions = s.versions
      BY <3>1
    <3> QED
      BY <2>2, <3>1, <3>2 DEF RolledBack
  <2> HIDE DEF n
  <2>4. Safe(n)
    BY <1>1, <1>3, <2>1, <2>3, CarriedByRollBack
  <2> QED
    BY <1>2, <2>1, <2>4
<1>17. ASSUME NEW p, NEW b, SetFavorite(p, b)
       PROVE  Safe(store')
  <2>1. Become([store EXCEPT !.rows = Starred(store.rows, p, b)])
    BY <1>17 DEF SetFavorite
  <2>2. Safe([store EXCEPT !.rows = Starred(store.rows, p, b)])
    BY <1>1, <1>3, CarriedByMark
  <2> QED
    BY <1>2, <2>1, <2>2
<1>18. ASSUME UNCHANGED vars
       PROVE  Safe(store')
  <2>1. Carried(store, store)
    BY DEF Carried, Follows
  <2> QED
    BY <1>3, <1>18, <2>1 DEF vars
<1> QED
  BY <1>7, <1>8, <1>10, <1>11, <1>13, <1>14, <1>15, <1>16, <1>17, <1>18 DEF Next

(* No request loses what a user stored: an entry that is live before a     *)
(* request exists after it, and every content it ever had can be got back  *)
(* from its bytes or its versions.  Only a purge forgets, and only what    *)
(* was in the trash.                                                       *)
THEOREM NothingIsLost ==
  ASSUME LikeIsExact, {TRASH, VERSIONS} \cap Names = {}
  PROVE  Spec => NothingLost
<1> DEFINE NInv == DiskIInv /\ NodesUnique(store.rows)
           Kept == \A r \in store.rows :
                     ~r.deleted => /\ \E t \in store'.rows : t.node = r.node
                                   /\ Recoverable(store, r.node) \subseteq Recoverable(store', r.node)
<1>1. Init => NodesUnique(store.rows)
  BY DEF Init, EmptyStore, NodesUnique
<1>2. DiskIInv /\ NodesUnique(store.rows) /\ [Next]_vars => NodesUnique(store.rows)'
  BY CarriedStep
<1>3. DiskIInv /\ DiskIInv' /\ NodesUnique(store.rows) /\ [Next]_vars => [Kept]_vars
  <2> SUFFICES ASSUME DiskIInv, DiskIInv', NodesUnique(store.rows), [Next]_vars
               PROVE  Kept
    OBVIOUS
  <2>1. StoreInv(store) /\ MirrorInv(store)
    BY DEF DiskIInv, TreeIInv, TrashIInv
  <2>2. StoreInv(store') /\ MirrorInv(store')
    BY DEF DiskIInv, TreeIInv, TrashIInv
  <2>3. CarriedLive(store, store')
    BY CarriedStep
  <2> QED
    BY <2>1, <2>2, <2>3, CarriedLost
<1> QED
  BY <1>1, <1>2, <1>3, MirrorAlways, PTL DEF Spec, NothingLost

----------------------------------------------------------------------------
(* The refinement of FileTree.  A step changes the entry of one row, or    *)
(* drops what a purge covers; every other entry reads as before, although  *)
(* its row may have another path.                                          *)

Good(s) == /\ StoreInv(s) /\ MarksInv(s.rows) /\ TreeInv(s.rows)
           /\ MirrorInv(s) /\ NodesUnique(s.rows)

LEMMA GoodRows ==
  ASSUME NEW s, Good(s)
  PROVE  /\ s \in StoreType /\ RowsInv(s.rows) /\ s.rows \subseteq RowType
         /\ VersionsInv(s.versions) /\ s.versions \subseteq VersionType
         /\ IsFiniteSet(s.versions) /\ TrashInv(s.rows) /\ Apart(s.rows)
         /\ Stored(s) /\ Attached(s) /\ Numbered(s.versions) /\ Rooted(Bytes(s.rows))
         /\ \A r, t \in s.rows : r.path = t.path => r = t
         /\ \A r, t \in s.rows : r.node = t.node => r = t
<1>1. StoreInv(s) /\ s \in StoreType /\ RowsInv(s.rows) /\ VersionsInv(s.versions)
  BY DEF Good, StoreInv
<1>2. TrashInv(s.rows) /\ Unreserved(s.rows) /\ Stored(s) /\ Attached(s) /\ NodesUnique(s.rows)
  BY DEF Good, MarksInv, MirrorInv
<1>3. Apart(s.rows)
  BY <1>2, UnreservedApart
<1>4. s.rows \subseteq RowType /\ KeysUnique(s.rows)
  BY <1>1 DEF RowsInv
<1>5. s.versions \subseteq VersionType /\ IsFiniteSet(s.versions)
  BY <1>1 DEF VersionsInv
<1>6. Numbered(s.versions) /\ Rooted(Bytes(s.rows))
  BY <1>2 DEF Stored
<1> QED
  BY <1>1, <1>2, <1>3, <1>4, <1>5, <1>6 DEF KeysUnique, NodesUnique

\* A row, its path and its place.
LEMMA GoodRow ==
  ASSUME NEW s, Good(s), NEW r \in s.rows
  PROVE  /\ r \in RowType /\ r.path \in Path /\ Len(r.path) \in Nat /\ Len(r.path) >= 1
         /\ r.parent \in Path /\ r.parent = ParentOf(r.path) /\ r.name = NameOf(r.path)
         /\ Len(r.parent) = Len(r.path) - 1
         /\ r.dir \in BOOLEAN /\ r.deleted \in BOOLEAN /\ r.node \in Nodes
         /\ ~r.dir => r.sum \in Contents
         /\ r.deleted <=> r.path[1] = TRASH
         /\ r.orig # NoPath <=> r.deleted /\ Len(r.path) = 3
         /\ Placed(s.rows, r)
<1>1. r \in RowType /\ Len(r.path) >= 1 /\ (~r.dir => r.sum \in Contents)
  BY GoodRows DEF RowsInv
<1>2. Columns(r) /\ Placed(s.rows, r)
  BY DEF Good, TreeInv
<1>3. (r.deleted <=> r.path[1] = TRASH) /\ (r.orig # NoPath <=> r.deleted /\ Len(r.path) = 3)
  BY GoodRows DEF TrashInv
<1>4. /\ r.path \in Path /\ r.parent \in Path /\ r.dir \in BOOLEAN
      /\ r.deleted \in BOOLEAN /\ r.node \in Nodes
  BY <1>1 DEF RowType
<1>5. Len(ParentOf(r.path)) = Len(r.path) - 1
  BY <1>1, <1>4, ParentPath, EmptySeq DEF Root
<1> QED
  BY <1>1, <1>2, <1>3, <1>4, <1>5, PathElement DEF Columns

LEMMA RootLength ==
  /\ Root \in Path /\ Len(Root) = 0
  /\ \A p \in Path : Len(p) = 0 => p = Root
  BY EmptySeq DEF Root, Path

\* A row that the trash does not list hangs from "/" or from its folder.
LEMMA GoodParent ==
  ASSUME NEW s, Good(s), NEW r \in s.rows, r.orig = NoPath, r.parent # Root
  PROVE  \E f \in s.rows : f.path = r.parent /\ f.dir /\ f.deleted = r.deleted
  BY GoodRow DEF Placed

\* A live row at the top is all there is at the top.
LEMMA GoodPlace ==
  ASSUME NEW s, Good(s), NEW r \in s.rows
  PROVE  IsPlace(r.path) /\ (r.orig = NoPath /\ r.parent = Root => ~r.deleted)
<1> DEFINE L == {Len(x.path) : x \in {y \in s.rows : y.deleted = TRUE}}
<1>1. ASSUME NEW x \in s.rows, x.deleted = TRUE, Len(x.path) # 3
      PROVE  Len(x.path) - 1 \in L
  <2>1. x.orig = NoPath /\ Placed(s.rows, x) /\ Len(x.parent) = Len(x.path) - 1
    BY <1>1, GoodRow
  <2>2. PICK f \in s.rows : f.path = x.parent /\ f.dir /\ f.deleted = x.deleted
    BY <1>1, <2>1 DEF Placed
  <2>3. f.deleted = TRUE /\ Len(f.path) = Len(x.path) - 1
    BY <1>1, <2>1, <2>2
  <2> QED
    BY <2>3
<1>2. \A x \in s.rows : Len(x.path) \in Nat /\ Len(x.path) >= 1
  BY GoodRow
<1>3. \A n \in L : n \in Nat /\ n >= 1 /\ (n # 3 => n - 1 \in L)
  BY <1>1, <1>2
<1>4. \A x \in s.rows : x.deleted = TRUE => Len(x.path) \in L
  OBVIOUS
<1> HIDE DEF L
<1>5. 1 \notin L /\ 2 \notin L
  <2>1. 1 \notin L
    BY <1>3
  <2> QED
    BY <1>3, <2>1
<1>6. /\ r.deleted \in BOOLEAN /\ (r.deleted <=> r.path[1] = TRASH)
      /\ Len(r.parent) = Len(r.path) - 1 /\ Len(Root) = 0
  BY GoodRow, RootLength
<1>7. r.deleted = TRUE => Len(r.path) >= 3
  BY <1>2, <1>3, <1>4, <1>5
<1>8. r.path[1] = TRASH => Len(r.path) >= 3
  BY <1>6, <1>7
<1>9. IsPlace(r.path)
  BY <1>2, <1>8 DEF IsPlace
<1>10. r.parent = Root => Len(r.path) = 1
  BY <1>2, <1>6
<1>11. ASSUME r.parent = Root PROVE ~r.deleted
  <2>1. Len(r.path) = 1
    BY <1>10, <1>11
  <2>2. r.path[1] # TRASH
    BY <1>8, <2>1
  <2> QED
    BY <1>6, <2>2
<1> QED
  BY <1>9, <1>11

----------------------------------------------------------------------------
(* The entry a row stands for.                                             *)

LEMMA EntriesAt ==
  ASSUME NEW s, Good(s)
  PROVE  /\ DOMAIN EntriesOf(s) = {r.node : r \in s.rows}
         /\ \A r \in s.rows : /\ r.node \in DOMAIN EntriesOf(s)
                              /\ EntriesOf(s)[r.node] = EntryOf(s, r)
<1>1. ASSUME NEW r \in s.rows
      PROVE  (CHOOSE t \in s.rows : t.node = r.node) = r
  <2>1. \A t \in s.rows : t.node = r.node => t = r
    BY GoodRows
  <2> QED
    BY <2>1
<1>2. DOMAIN EntriesOf(s) = {r.node : r \in s.rows}
  BY DEF EntriesOf
<1>3. ASSUME NEW r \in s.rows
      PROVE  EntriesOf(s)[r.node] = EntryOf(s, r)
  <2>1. r.node \in {t.node : t \in s.rows}
    OBVIOUS
  <2>2. EntriesOf(s)[r.node] = EntryOf(s, CHOOSE t \in s.rows : t.node = r.node)
    BY <2>1 DEF EntriesOf
  <2> QED
    BY <1>1, <2>2
<1> QED
  BY <1>2, <1>3

LEMMA EntryFields ==
  ASSUME NEW s, NEW r
  PROVE  /\ EntryOf(s, r).parent = ParentEntry(s, r) /\ EntryOf(s, r).name = r.name
         /\ EntryOf(s, r).dir = r.dir /\ EntryOf(s, r).orig = r.orig
         /\ EntryOf(s, r).fav = r.fav /\ EntryOf(s, r).history = HistoryAt(s, r.path)
BY DEF EntryOf

LEMMA EntryReads ==
  ASSUME NEW s, Good(s), NEW r \in s.rows
  PROVE  /\ EntriesOf(s)[r.node] = EntryOf(s, r)
         /\ EntriesOf(s)[r.node].parent = ParentEntry(s, r)
         /\ EntriesOf(s)[r.node].name = r.name /\ EntriesOf(s)[r.node].dir = r.dir
         /\ EntriesOf(s)[r.node].orig = r.orig
<1>1. EntriesOf(s)[r.node] = EntryOf(s, r)
  BY EntriesAt
<1> QED
  BY <1>1, EntryFields

LEMMA ParentEntryIs ==
  ASSUME NEW s, Good(s), NEW r \in s.rows
  PROVE  /\ r.orig # NoPath => ParentEntry(s, r) = TRASH
         /\ r.orig = NoPath /\ r.parent = Root => ParentEntry(s, r) = Root
         /\ r.orig = NoPath => \A f \in s.rows : f.path = r.parent => ParentEntry(s, r) = f.node
<1>1. r.orig # NoPath => ParentEntry(s, r) = TRASH
  BY DEF ParentEntry
<1>2. r.orig = NoPath /\ r.parent = Root => ParentEntry(s, r) = Root
  BY DEF ParentEntry
<1>3. ASSUME r.orig = NoPath, NEW f \in s.rows, f.path = r.parent
      PROVE  ParentEntry(s, r) = f.node
  <2>1. r.parent # Root
    BY <1>3, GoodRow, RootLength
  <2>2. RowAt(s, r.parent) = f
    <3>1. \A t \in s.rows : t.path = r.parent => t = f
      BY <1>3, GoodRows
    <3> QED
      BY <1>3, <3>1 DEF RowAt
  <2> QED
    BY <1>3, <2>1, <2>2 DEF ParentEntry, NodeAt
<1> QED
  BY <1>1, <1>2, <1>3

\* Which edge it is: the trash, "/", or the folder of the row.
LEMMA ParentEntryOf ==
  ASSUME EdgesApart, NEW s, Good(s), NEW r \in s.rows
  PROVE  /\ ParentEntry(s, r) = TRASH <=> r.orig # NoPath
         /\ ParentEntry(s, r) = Root <=> r.orig = NoPath /\ r.parent = Root
         /\ \A f \in s.rows : ParentEntry(s, r) = f.node <=> r.orig = NoPath /\ r.parent = f.path
<1>1. \A f \in s.rows : f.node \in Nodes /\ f.node # Root /\ f.node # TRASH
  BY GoodRow DEF EdgesApart
<1>2. r.orig = NoPath /\ r.parent # Root => \E f \in s.rows : f.path = r.parent /\ ParentEntry(s, r) = f.node
  BY GoodParent, ParentEntryIs
<1>3. /\ r.orig # NoPath => ParentEntry(s, r) = TRASH
      /\ r.orig = NoPath /\ r.parent = Root => ParentEntry(s, r) = Root
      /\ r.orig = NoPath => \A f \in s.rows : f.path = r.parent => ParentEntry(s, r) = f.node
  BY ParentEntryIs
<1>4. TRASH # Root /\ \A f, g \in s.rows : f.node = g.node => f = g
  BY GoodRows DEF EdgesApart
<1> QED
  BY <1>1, <1>2, <1>3, <1>4

LEMMA BytesAre ==
  ASSUME NEW s, Good(s)
  PROVE  /\ \A r \in s.rows : ~r.dir => BytesAt(s, r.path) = r.sum
         /\ \A v \in s.versions : BytesAt(s, Blob(v.ref)) = v.sum
<1>1. StoreInv(s) /\ Stored(s) /\ Apart(s.rows)
  BY GoodRows DEF Good
<1>2. ASSUME NEW r \in s.rows, ~r.dir
      PROVE  BytesAt(s, r.path) = r.sum
  <2>1. FileOn(s.disk, r.path) = {Entry(r)}
    BY <1>1, <1>2, OneFileOnDisk
  <2>2. Entry(r).data = r.sum
    BY <1>2 DEF Entry
  <2> HIDE DEF Entry
  <2>3. (CHOOSE e \in {Entry(r)} : TRUE) = Entry(r)
    OBVIOUS
  <2> QED
    BY <2>1, <2>2, <2>3 DEF BytesAt
<1>3. ASSUME NEW v \in s.versions
      PROVE  BytesAt(s, Blob(v.ref)) = v.sum
  <2>1. FileOn(s.disk, Blob(v.ref)) = {BlobOf(v)} /\ BlobOf(v).data = v.sum
    BY <1>1, OneBlobOnDisk
  <2>2. (CHOOSE e \in {BlobOf(v)} : TRUE) = BlobOf(v)
    OBVIOUS
  <2> QED
    BY <2>1, <2>2 DEF BytesAt
<1> QED
  BY <1>2, <1>3

----------------------------------------------------------------------------
(* The history of an entry.                                                *)

LEMMA VersionsNumbered ==
  ASSUME NEW s, Good(s), NEW p
  PROVE  LET k == Cardinality(VersionsAt(s, p))
         IN  /\ k \in Nat
             /\ \A i \in 1 .. k : /\ VersionOf(s, p, i) \in s.versions
                                  /\ VersionOf(s, p, i).path = p /\ VersionOf(s, p, i).no = i
             /\ \A v \in s.versions : v.path = p => v.no \in 1 .. k /\ VersionOf(s, p, v.no) = v
<1> DEFINE V == VersionsAt(s, p)
           k == Cardinality(V)
<1>1. StoreInv(s) /\ Numbered(s.versions)
  BY GoodRows DEF Good
<1>2. V \subseteq s.versions /\ \A v \in s.versions : v \in V <=> v.path = p
  BY DEF VersionsAt
<1>3. k \in Nat
  BY <1>2, GoodRows, FS_Subset, FS_CardinalityType
<1>4. CASE V = {}
  <2>1. k = 0
    BY <1>4, FS_EmptySet
  <2>2. 1 .. k = {}
    BY <2>1
  <2> QED
    BY <1>2, <1>3, <1>4, <2>2
<1>5. CASE V # {}
  <2>1. PICK w \in s.versions : w.path = p
    BY <1>2, <1>5
  <2>2. {v.no : v \in V} = 1 .. k
    BY <1>1, <2>1, NumbersCount
  <2>3. ASSUME NEW i \in 1 .. k
        PROVE  VersionOf(s, p, i) \in V /\ VersionOf(s, p, i).no = i
    <3>1. \E v \in V : v.no = i
      BY <2>2
    <3> QED
      BY <3>1 DEF VersionOf
  <2>4. ASSUME NEW v \in s.versions, v.path = p
        PROVE  v.no \in 1 .. k /\ VersionOf(s, p, v.no) = v
    <3>1. v \in V
      BY <1>2, <2>4
    <3>2. v.no \in 1 .. k
      BY <2>2, <3>1
    <3>3. VersionOf(s, p, v.no) \in V /\ VersionOf(s, p, v.no).no = v.no
      BY <2>3, <3>2
    <3> QED
      BY <1>1, <1>2, <2>4, <3>2, <3>3 DEF Numbered
  <2>5. \A i \in 1 .. k : /\ VersionOf(s, p, i) \in s.versions
                          /\ VersionOf(s, p, i).path = p /\ VersionOf(s, p, i).no = i
    BY <1>2, <2>3
  <2> QED
    BY <1>3, <2>4, <2>5
<1> QED
  BY <1>4, <1>5

LEMMA HistoryIs ==
  ASSUME NEW s, Good(s), NEW p
  PROVE  LET k == Cardinality(VersionsAt(s, p))
         IN  /\ HistoryAt(s, p) = [i \in 1 .. k |-> VersionOf(s, p, i).sum]
             /\ HistoryAt(s, p) \in Seq(Contents)
             /\ Len(HistoryAt(s, p)) = k
<1> DEFINE k == Cardinality(VersionsAt(s, p))
           h == [i \in 1 .. k |-> VersionOf(s, p, i).sum]
<1>1. k \in Nat /\ \A i \in 1 .. k : VersionOf(s, p, i) \in s.versions
  BY VersionsNumbered
<1>2. \A i \in 1 .. k : BytesAt(s, Blob(VersionOf(s, p, i).ref)) = VersionOf(s, p, i).sum
  BY <1>1, BytesAre
<1>3. HistoryAt(s, p) = h
  BY <1>2 DEF HistoryAt
<1>4. \A i \in 1 .. k : VersionOf(s, p, i).sum \in Contents
  BY <1>1, GoodRows DEF VersionType
<1> HIDE DEF k
<1>5. h \in [1 .. k -> Contents]
  BY <1>4
<1>6. h \in Seq(Contents)
  BY <1>1, <1>5, SeqDef
<1>7. Len(h) = k
  BY <1>1, <1>6, LenProperties
<1> QED
  BY <1>3, <1>6, <1>7 DEF k

\* Two paths with the same versions have the same history.
VersionsMatch(s, p, n, q) ==
  /\ \A v \in s.versions : v.path = p =>
       \E u \in n.versions : u.path = q /\ u.no = v.no /\ u.sum = v.sum
  /\ \A u \in n.versions : u.path = q =>
       \E v \in s.versions : v.path = p /\ u.no = v.no

LEMMA HistorySame ==
  ASSUME NEW s, Good(s), NEW n, Good(n), NEW p, NEW q, VersionsMatch(s, p, n, q)
  PROVE  HistoryAt(n, q) = HistoryAt(s, p)
<1> DEFINE k == Cardinality(VersionsAt(s, p))
           m == Cardinality(VersionsAt(n, q))
           V(i) == VersionOf(s, p, i)
           U(i) == VersionOf(n, q, i)
<1>1. /\ k \in Nat
      /\ \A i \in 1 .. k : V(i) \in s.versions /\ V(i).path = p /\ V(i).no = i
      /\ \A v \in s.versions : v.path = p => v.no \in 1 .. k
  BY VersionsNumbered
<1>2. /\ m \in Nat
      /\ \A i \in 1 .. m : U(i) \in n.versions /\ U(i).path = q /\ U(i).no = i
      /\ \A u \in n.versions : u.path = q => u.no \in 1 .. m /\ U(u.no) = u
  BY VersionsNumbered
<1> HIDE DEF k, m, V, U
<1>3. ASSUME NEW i \in 1 .. k
      PROVE  i \in 1 .. m /\ U(i).sum = V(i).sum
  <2>1. V(i) \in s.versions /\ V(i).path = p /\ V(i).no = i
    BY <1>1
  <2>2. PICK u \in n.versions : u.path = q /\ u.no = i /\ u.sum = V(i).sum
    BY <2>1 DEF VersionsMatch
  <2> QED
    BY <1>2, <2>2
<1>4. ASSUME NEW i \in 1 .. m PROVE i \in 1 .. k
  <2>1. U(i) \in n.versions /\ U(i).path = q /\ U(i).no = i
    BY <1>2
  <2>2. PICK v \in s.versions : v.path = p /\ v.no = i
    BY <2>1 DEF VersionsMatch
  <2> QED
    BY <1>1, <2>2
<1>5. k = m
  <2>1. k <= m
    BY <1>1, <1>2, <1>3
  <2>2. m <= k
    BY <1>1, <1>2, <1>4
  <2> QED
    BY <1>1, <1>2, <2>1, <2>2
<1>6. [i \in 1 .. k |-> V(i).sum] = [i \in 1 .. m |-> U(i).sum]
  BY <1>3, <1>5
<1> QED
  BY <1>6, HistoryIs DEF k, m, U, V

LEMMA AppendIs ==
  ASSUME NEW S, NEW h \in Seq(S), NEW g \in Seq(S), NEW c \in S, Len(g) = Len(h) + 1,
         \A i \in 1 .. Len(h) : g[i] = h[i], g[Len(h) + 1] = c
  PROVE  g = Append(h, c)
<1>1. /\ Append(h, c) \in Seq(S) /\ Len(Append(h, c)) = Len(h) + 1
      /\ \A i \in 1 .. Len(h) : Append(h, c)[i] = h[i]
      /\ Append(h, c)[Len(h) + 1] = c
  BY AppendProperties
<1>2. Len(h) \in Nat
  BY LenProperties
<1>3. \A i \in 1 .. Len(h) + 1 : g[i] = Append(h, c)[i]
  BY <1>1, <1>2
<1> QED
  BY <1>1, <1>3, SeqEqual

\* A version under the next number is the last of the history.
LEMMA HistoryGrows ==
  ASSUME NEW s, Good(s), NEW n, Good(n), NEW w, n.versions = s.versions \cup {w},
         w.no = NextNo(s, w.path)
  PROVE  /\ HistoryAt(n, w.path) = Append(HistoryAt(s, w.path), w.sum)
         /\ \A q : q # w.path => HistoryAt(n, q) = HistoryAt(s, q)
<1> DEFINE p == w.path
           k == Cardinality(VersionsAt(s, p))
           m == Cardinality(VersionsAt(n, p))
           V(i) == VersionOf(s, p, i)
           U(i) == VersionOf(n, p, i)
           h == HistoryAt(s, p)
           g == HistoryAt(n, p)
<1>1. /\ k \in Nat
      /\ \A i \in 1 .. k : V(i) \in s.versions /\ V(i).path = p /\ V(i).no = i
      /\ \A v \in s.versions : v.path = p => v.no \in 1 .. k
  BY VersionsNumbered
<1>2. /\ m \in Nat
      /\ \A i \in 1 .. m : U(i) \in n.versions /\ U(i).path = p /\ U(i).no = i
      /\ \A u \in n.versions : u.path = p => u.no \in 1 .. m /\ U(u.no) = u
  BY VersionsNumbered
<1>3. /\ \A u \in s.versions : u.path = p => u.no < w.no
      /\ w.no # 1 => \E u \in s.versions : u.path = p /\ u.no = w.no - 1
      /\ w.no \in Nat /\ w.no >= 1
  BY NextNoIsNext, NextNoType DEF Good
<1>4. /\ h = [i \in 1 .. k |-> V(i).sum] /\ h \in Seq(Contents) /\ Len(h) = k
      /\ g = [i \in 1 .. m |-> U(i).sum] /\ g \in Seq(Contents) /\ Len(g) = m
  BY HistoryIs
<1>5. w \in n.versions /\ w.path = p /\ s.versions \subseteq n.versions
  OBVIOUS
<1>6. \A u \in n.versions : u = w \/ u \in s.versions
  OBVIOUS
<1>7. w.sum \in Contents
  BY <1>5, GoodRows DEF VersionType
<1>8. \A q : q # p => VersionsMatch(s, q, n, q)
  BY <1>5, <1>6 DEF VersionsMatch
<1> HIDE DEF p, k, m, V, U, h, g
<1>9. w.no = k + 1
  <2>1. k >= 1 => V(k).no < w.no /\ V(k).no = k
    BY <1>1, <1>3
  <2>2. w.no # 1 => w.no - 1 \in 1 .. k
    BY <1>1, <1>3
  <2> QED
    BY <1>1, <1>3, <2>1, <2>2
<1>10. m = k + 1
  <2>1. k + 1 <= m
    BY <1>1, <1>2, <1>5, <1>9
  <2>2. m >= 1 => m \in 1 .. k \/ m = k + 1
    <3>1. m >= 1 => U(m) \in n.versions /\ U(m).path = p /\ U(m).no = m
      BY <1>2
    <3> QED
      BY <1>1, <1>6, <1>9, <3>1
  <2> QED
    BY <1>1, <1>2, <2>1, <2>2
<1>11. \A i \in 1 .. k : U(i) = V(i)
  <2> SUFFICES ASSUME NEW i \in 1 .. k PROVE U(i) = V(i)
    OBVIOUS
  <2>1. V(i) \in n.versions /\ V(i).path = p /\ V(i).no = i
    BY <1>1, <1>5
  <2> QED
    BY <1>2, <2>1
<1>12. U(k + 1) = w
  BY <1>2, <1>5, <1>9
<1>13. g = Append(h, w.sum)
  <2>1. \A i \in 1 .. k : g[i] = h[i]
    BY <1>1, <1>4, <1>10, <1>11
  <2>2. g[k + 1] = w.sum
    BY <1>1, <1>4, <1>10, <1>12
  <2>3. h \in Seq(Contents) /\ g \in Seq(Contents) /\ Len(h) = k /\ Len(g) = k + 1
    BY <1>4, <1>10
  <2> QED
    BY <1>7, <2>1, <2>2, <2>3, AppendIs
<1>14. ASSUME NEW q, q # p
       PROVE  HistoryAt(n, q) = HistoryAt(s, q)
  <2>1. VersionsMatch(s, q, n, q)
    BY <1>8, <1>14
  <2> QED
    BY <2>1, HistorySame
<1> QED
  BY <1>13, <1>14 DEF g, h, p

LEMMA NoHistory ==
  ASSUME NEW s, Good(s), NEW p, \A v \in s.versions : v.path # p
  PROVE  HistoryAt(s, p) = << >>
<1>1. VersionsAt(s, p) = {}
  BY DEF VersionsAt
<1>2. Len(HistoryAt(s, p)) = 0 /\ HistoryAt(s, p) \in Seq(Contents)
  BY <1>1, HistoryIs, FS_EmptySet
<1> QED
  BY <1>2, EmptySeq

----------------------------------------------------------------------------
(* The entries above an entry are those of the prefixes of its path.       *)

LEMMA ShortestRow ==
  ASSUME NEW R, R # {}, \A r \in R : Len(r.path) \in Nat
  PROVE  \E r \in R : \A t \in R : Len(r.path) <= Len(t.path)
<1> DEFINE sizes == {Len(r.path) : r \in R}
<1>1. sizes \subseteq Nat /\ sizes # {}
  OBVIOUS
<1>2. PICK n \in sizes : \A m \in sizes : ~(<<m, n>> \in OpToRel(<, Nat))
  BY <1>1, NatLessThanWellFounded, WFMin
<1>3. \A m \in sizes : ~(m < n)
  BY <1>1, <1>2 DEF OpToRel
<1>4. PICK r \in R : n = Len(r.path)
  BY <1>2
<1>5. \A t \in R : Len(t.path) \in sizes
  OBVIOUS
<1> HIDE DEF sizes
<1>6. \A t \in R : ~(Len(t.path) < Len(r.path))
  BY <1>3, <1>4, <1>5
<1> QED
  BY <1>6

LEMMA AtOrBelowElements ==
  ASSUME NEW p \in Path, NEW q \in Path
  PROVE  AtOrBelow(p, q) <=> Len(p) <= Len(q) /\ \A i \in 1 .. Len(p) : q[i] = p[i]
<1>1. Len(p) \in Nat /\ Len(q) \in Nat
  BY PathElement
<1>2. Below(p, q) <=> Len(p) < Len(q) /\ \A i \in 1 .. Len(p) : q[i] = p[i]
  BY BelowElements
<1>3. Len(p) = Len(q) /\ (\A i \in 1 .. Len(p) : q[i] = p[i]) => q = p
  BY PathEqual
<1> QED
  BY <1>1, <1>2, <1>3 DEF AtOrBelow

LEMMA GoodOrig ==
  ASSUME NEW s, Good(s), NEW r \in s.rows
  PROVE  r.orig # NoPath <=> r.path[1] = TRASH /\ Len(r.path) = 3
  BY GoodRow, Zenon

\* What lies under an entry, by its path: closed downwards, and closed
\* upwards as far as that entry.
LEMMA UpwardTo ==
  ASSUME EdgesApart, Good(store), NEW t \in store.rows, NEW r \in store.rows,
         AtOrBelow(t.path, r.path), NEW S \in SUBSET DOMAIN EntriesOf(store),
         r.node \in S, Tree!Upward(S)
  PROVE  t.node \in S
<1> DEFINE R == {x \in store.rows : x.node \in S /\ AtOrBelow(t.path, x.path)}
<1>1. PICK x \in R : \A y \in R : Len(x.path) <= Len(y.path)
  <2>1. R # {} /\ \A y \in R : Len(y.path) \in Nat
    BY GoodRow
  <2> HIDE DEF R
  <2> QED
    BY <2>1, ShortestRow
<1>2. /\ x \in store.rows /\ x.node \in S /\ AtOrBelow(t.path, x.path)
      /\ \A y \in store.rows :
           y.node \in S /\ AtOrBelow(t.path, y.path) => Len(x.path) <= Len(y.path)
  BY <1>1
<1> HIDE DEF R
<1>3. CASE x.path = t.path
  BY <1>2, <1>3, GoodRows
<1>4. CASE x.path # t.path
  <2>1. /\ t.path \in Path /\ Len(t.path) \in Nat /\ Len(t.path) >= 1 /\ IsPlace(t.path)
        /\ x.path \in Path /\ Len(x.path) \in Nat /\ Len(x.path) >= 1
        /\ x.parent = ParentOf(x.path) /\ Len(x.parent) = Len(x.path) - 1
    BY <1>2, GoodRow, GoodPlace
  <2>2. Below(t.path, x.path) /\ Len(t.path) < Len(x.path) /\ x.path[1] = t.path[1]
    <3>1. Below(t.path, x.path)
      BY <1>2, <1>4 DEF AtOrBelow
    <3> QED
      BY <2>1, <3>1, BelowElements
  <2>3. x.orig = NoPath
    <3>1. x.path[1] = TRASH => Len(t.path) >= 3
      BY <2>1, <2>2 DEF IsPlace
    <3>2. \A a, b \in Nat : a >= 3 /\ a < b => b # 3
      OBVIOUS
    <3>3. x.path[1] = TRASH => Len(x.path) # 3
      BY <2>1, <2>2, <3>1, <3>2, Zenon
    <3> QED
      BY <1>2, <3>3, GoodOrig
  <2>4. x.parent # Root
    BY <2>1, <2>2, RootLength
  <2>5. PICK f \in store.rows : f.path = x.parent
    BY <1>2, <2>3, <2>4, GoodParent
  <2>6. EntriesOf(store)[x.node].parent = f.node
    <3>1. ParentEntry(store, x) = f.node
      BY <1>2, <2>3, <2>5, ParentEntryIs
    <3> QED
      BY <1>2, <3>1, EntryReads
  <2>7. f.node \in S
    <3>1. f.node \in S \cup {Root, TRASH}
      BY <1>2, <2>6 DEF Tree!Upward
    <3>2. f.node # Root /\ f.node # TRASH
      BY GoodRow DEF EdgesApart
    <3> QED
      BY <3>1, <3>2
  <2>8. AtOrBelow(t.path, f.path)
    BY <2>1, <2>2, <2>5, BelowParent
  <2>9. Len(x.path) <= Len(f.path)
    BY <1>2, <2>7, <2>8
  <2> QED
    BY <2>1, <2>5, <2>9
<1> QED
  BY <1>3, <1>4

LEMMA UpwardOff ==
  ASSUME EdgesApart, Good(store), NEW t \in store.rows
  PROVE  Tree!Upward({x.node : x \in {y \in store.rows : ~AtOrBelow(t.path, y.path)}})
<1> DEFINE R == {y \in store.rows : ~AtOrBelow(t.path, y.path)}
           S == {x.node : x \in R}
<1> SUFFICES ASSUME NEW x \in R
             PROVE  EntriesOf(store)[x.node].parent \in S \cup {Root, TRASH}
  BY DEF Tree!Upward
<1>1. EntriesOf(store)[x.node].parent = ParentEntry(store, x)
  BY EntryReads
<1>2. CASE x.orig # NoPath \/ x.parent = Root
  BY <1>1, <1>2, ParentEntryIs
<1>3. CASE x.orig = NoPath /\ x.parent # Root
  <2>1. PICK f \in store.rows : f.path = x.parent
    BY <1>3, GoodParent
  <2>2. ParentEntry(store, x) = f.node
    BY <1>3, <2>1, ParentEntryIs
  <2>3. ~AtOrBelow(t.path, f.path)
    <3>1. t.path \in Path /\ x.path \in Path /\ Len(x.path) >= 1 /\ x.parent = ParentOf(x.path)
      BY GoodRow
    <3>2. ~Below(t.path, x.path)
      BY DEF AtOrBelow
    <3> QED
      BY <2>1, <3>1, <3>2, BelowParent
  <2> QED
    BY <1>1, <2>2, <2>3
<1> QED
  BY <1>2, <1>3

LEMMA AboveIs ==
  ASSUME EdgesApart, Good(store), NEW r \in store.rows
  PROVE  Tree!Above(r.node) = {t.node : t \in {y \in store.rows : AtOrBelow(y.path, r.path)}}
<1> DEFINE D == DOMAIN EntriesOf(store)
           off(t) == {x.node : x \in {y \in store.rows : ~AtOrBelow(t.path, y.path)}}
<1>1. D = {t.node : t \in store.rows}
  BY EntriesAt
<1>2. ASSUME NEW t \in store.rows, AtOrBelow(t.path, r.path)
      PROVE  t.node \in Tree!Above(r.node)
  <2>1. t.node \in D
    BY <1>1
  <2>2. ASSUME NEW S \in SUBSET D, r.node \in S, Tree!Upward(S)
        PROVE  t.node \in S
    BY <1>2, <2>2, UpwardTo
  <2> QED
    BY <2>1, <2>2 DEF Tree!Above
<1>3. ASSUME NEW t \in store.rows, ~AtOrBelow(t.path, r.path)
      PROVE  t.node \notin Tree!Above(r.node)
  <2>1. off(t) \in SUBSET D /\ r.node \in off(t)
    BY <1>1, <1>3
  <2>2. Tree!Upward(off(t))
    BY UpwardOff
  <2>3. t.node \notin off(t)
    <3>1. AtOrBelow(t.path, t.path)
      BY DEF AtOrBelow
    <3> QED
      BY <3>1, GoodRows
  <2> HIDE DEF off
  <2> QED
    BY <2>1, <2>2, <2>3 DEF Tree!Above
<1>4. Tree!Above(r.node) \subseteq {t.node : t \in store.rows}
  BY <1>1 DEF Tree!Above
<1> QED
  BY <1>2, <1>3, <1>4

LEMMA LiveRow ==
  ASSUME NEW s, Good(s), NEW r \in s.rows, ~r.deleted
  PROVE  r.path[1] # TRASH /\ r.orig = NoPath
<1>1. r.path[1] # TRASH
  BY GoodRow
<1> QED
  BY <1>1, GoodOrig

\* Every prefix of a live path has a live row.
LEMMA PrefixRow ==
  ASSUME NEW s, Good(s), NEW r \in s.rows, ~r.deleted, NEW i \in 1 .. Len(r.path)
  PROVE  \E f \in s.rows : /\ f.path = SubSeq(r.path, 1, i) /\ Len(f.path) = i
                           /\ AtOrBelow(f.path, r.path) /\ ~f.deleted
<1> DEFINE p == r.path
           q == SubSeq(p, 1, i)
<1>1. p \in Path /\ Len(p) \in Nat /\ p[1] # TRASH
  BY GoodRow, LiveRow
<1>2. q \in Path /\ Len(q) = i /\ \A j \in 1 .. i : q[j] = p[j]
  BY <1>1, PrefixPath
<1> HIDE DEF q, p
<1>3. AtOrBelow(q, p)
  <2>1. Len(q) <= Len(p) /\ \A j \in 1 .. Len(q) : p[j] = q[j]
    BY <1>1, <1>2 DEF p
  <2> QED
    BY <1>1, <1>2, <2>1, AtOrBelowElements
<1>4. q[1] # TRASH
  BY <1>1, <1>2
<1> USE DEF p
<1>5. \E f \in s.rows : f.path = q
  <2>1. CASE q = p
    BY <2>1
  <2>2. CASE Below(q, p)
    <3>1. IsPlace(q)
      BY <1>2, <1>4 DEF IsPlace
    <3>2. Entry(r) \in Bytes(s.rows) /\ Entry(r).path = p /\ RowsInv(s.rows)
      BY GoodRows, RowEntries
    <3>3. RoomAt(Bytes(s.rows), p)
      BY <3>2, GoodRows DEF Rooted
    <3>4. Dir(q) \in Bytes(s.rows)
      BY <1>2, <2>2, <3>1, <3>3 DEF RoomAt
    <3>5. PICK f \in s.rows : Dir(q) = Entry(f) /\ Entry(f).path = f.path
      BY <3>2, <3>4, RowEntries
    <3> QED
      BY <3>5 DEF Dir
  <2> QED
    BY <1>3, <2>1, <2>2 DEF AtOrBelow
<1>6. PICK f \in s.rows : f.path = q
  BY <1>5
<1>7. ~f.deleted
  BY <1>4, <1>6, GoodRow
<1> QED
  BY <1>2, <1>3, <1>6, <1>7 DEF q

LEMMA IsLiveIs ==
  ASSUME EdgesApart, Good(store), NEW r \in store.rows
  PROVE  Tree!IsLive(r.node) <=> ~r.deleted
<1>1. r.node \in DOMAIN EntriesOf(store)
  BY EntriesAt
<1>2. Tree!Above(r.node) = {t.node : t \in {y \in store.rows : AtOrBelow(y.path, r.path)}}
  BY AboveIs
<1>3. r.path \in Path /\ Len(r.path) \in Nat /\ Len(r.path) >= 1
  BY GoodRow
<1>4. ASSUME ~r.deleted
      PROVE  Tree!IsLive(r.node)
  <2>1. PICK f \in store.rows : Len(f.path) = 1 /\ AtOrBelow(f.path, r.path) /\ ~f.deleted
    <3>1. 1 \in 1 .. Len(r.path)
      BY <1>3
    <3> QED
      BY <1>4, <3>1, PrefixRow
  <2>2. f.parent = Root
    <3>1. f.parent \in Path /\ Len(f.parent) = Len(f.path) - 1
      BY GoodRow
    <3> QED
      BY <2>1, <3>1, RootLength
  <2>3. ParentEntry(store, f) = Root
    BY <2>1, <2>2, LiveRow, ParentEntryIs
  <2>4. EntriesOf(store)[f.node].parent = Root
    BY <2>3, EntryReads
  <2>5. f.node \in Tree!Above(r.node)
    BY <1>2, <2>1
  <2> QED
    BY <1>1, <2>4, <2>5 DEF Tree!IsLive
<1>5. ASSUME Tree!IsLive(r.node)
      PROVE  ~r.deleted
  <2>1. PICK m \in Tree!Above(r.node) : EntriesOf(store)[m].parent = Root
    BY <1>5 DEF Tree!IsLive
  <2>2. PICK t \in store.rows : m = t.node /\ AtOrBelow(t.path, r.path)
    BY <1>2
  <2>3. ParentEntry(store, t) = Root
    BY <2>1, <2>2, EntryReads
  <2>4. t.orig = NoPath /\ t.parent = Root
    BY <2>3, ParentEntryOf
  <2>5. ~t.deleted
    BY <2>4, GoodPlace
  <2>6. t.path \in Path /\ Len(t.path) \in Nat /\ Len(t.path) >= 1 /\ t.path[1] # TRASH
    BY <2>5, GoodRow, LiveRow
  <2>7. r.path[1] = t.path[1]
    BY <1>3, <2>2, <2>6, AtOrBelowElements
  <2> QED
    BY <2>6, <2>7, GoodRow
<1> QED
  BY <1>4, <1>5

\* Two chains with the same end that step to the same parents are equal.
LEMMA ChainsMeet ==
  ASSUME NEW k \in Nat, NEW w, NEW g, w[k] = g[k],
         \A i \in 2 .. k : w[i] = g[i] => w[i - 1] = g[i - 1]
  PROVE  \A i \in 1 .. k : w[i] = g[i]
<1> DEFINE B == {j \in 0 .. k - 1 : w[k - j] # g[k - j]}
<1>1. B = {}
  <2> SUFFICES ASSUME B # {} PROVE FALSE
    OBVIOUS
  <2>1. B \subseteq Nat
    OBVIOUS
  <2>2. PICK j \in B : \A m \in B : ~(<<m, j>> \in OpToRel(<, Nat))
    BY <2>1, NatLessThanWellFounded, WFMin
  <2>3. \A m \in B : ~(m < j)
    BY <2>1, <2>2 DEF OpToRel
  <2>4. j \in 0 .. k - 1 /\ w[k - j] # g[k - j]
    OBVIOUS
  <2>5. j # 0
    BY <2>4
  <2>6. j - 1 \notin B /\ j - 1 \in 0 .. k - 1
    BY <2>3, <2>4, <2>5
  <2>7. w[k - (j - 1)] = g[k - (j - 1)]
    BY <2>6
  <2>8. k - (j - 1) \in 2 .. k /\ (k - (j - 1)) - 1 = k - j
    BY <2>4, <2>5
  <2> QED
    BY <2>4, <2>7, <2>8
<1>2. ASSUME NEW i \in 1 .. k PROVE w[i] = g[i]
  <2>1. k - i \in 0 .. k - 1 /\ k - (k - i) = i
    OBVIOUS
  <2>2. k - i \notin B
    BY <1>1
  <2> QED
    BY <2>1, <2>2
<1> QED
  BY <1>2

LEMMA SameCardinality == \A S : Tree!Cardinality(S) = Cardinality(S)
BY DEF Tree!Cardinality, Cardinality

LEMMA PathOfIs ==
  ASSUME EdgesApart, Good(store), NEW r \in store.rows, ~r.deleted
  PROVE  Tree!PathOf(r.node) = r.path
<1> DEFINE p == r.path
           k == Len(p)
           G(i) == CHOOSE f \in store.rows : f.path = SubSeq(p, 1, i)
           g == [i \in 1 .. k |-> G(i).node]
           A == Tree!Above(r.node)
<1>1. p \in Path /\ k \in Nat /\ k >= 1 /\ p[1] # TRASH
  BY GoodRow, LiveRow
<1>2. ASSUME NEW i \in 1 .. k
      PROVE  /\ G(i) \in store.rows /\ G(i).path = SubSeq(p, 1, i) /\ Len(G(i).path) = i
             /\ AtOrBelow(G(i).path, p) /\ G(i).orig = NoPath
  <2>1. PICK f \in store.rows : f.path = SubSeq(p, 1, i) /\ Len(f.path) = i /\ AtOrBelow(f.path, p)
                                /\ ~f.deleted
    BY PrefixRow
  <2>2. G(i) = f
    <3>1. \A t \in store.rows : t.path = SubSeq(p, 1, i) => t = f
      BY <2>1, GoodRows
    <3> QED
      BY <2>1, <3>1
  <2> QED
    BY <2>1, <2>2, LiveRow
<1>3. ASSUME NEW t \in store.rows, AtOrBelow(t.path, p)
      PROVE  Len(t.path) \in 1 .. k /\ t = G(Len(t.path))
  <2>1. t.path \in Path /\ Len(t.path) \in Nat /\ Len(t.path) >= 1
    BY GoodRow
  <2>2. Len(t.path) <= k /\ \A j \in 1 .. Len(t.path) : p[j] = t.path[j]
    BY <1>1, <1>3, <2>1, AtOrBelowElements
  <2>3. Len(t.path) \in 1 .. k
    BY <1>1, <2>1, <2>2
  <2>4. /\ SubSeq(p, 1, Len(t.path)) \in Path /\ Len(SubSeq(p, 1, Len(t.path))) = Len(t.path)
        /\ \A j \in 1 .. Len(t.path) : SubSeq(p, 1, Len(t.path))[j] = p[j]
    BY <1>1, <2>1, <2>2, PrefixPath
  <2>5. SubSeq(p, 1, Len(t.path)) = t.path
    BY <2>1, <2>2, <2>4, PathEqual
  <2>6. G(Len(t.path)) \in store.rows /\ G(Len(t.path)).path = t.path
    BY <1>2, <2>3, <2>5
  <2> QED
    BY <2>3, <2>6, GoodRows
<1>4. G(k) = r
  <2>1. AtOrBelow(p, p)
    BY DEF AtOrBelow
  <2> QED
    BY <1>3, <2>1
<1> HIDE DEF G
<1>5. A = {t.node : t \in {y \in store.rows : AtOrBelow(y.path, p)}}
  BY AboveIs
<1> HIDE DEF A
<1>6. \A i \in 1 .. k : g[i] \in A
  BY <1>2, <1>5
<1>7. \A m \in A : \E i \in 1 .. k : g[i] = m
  BY <1>3, <1>5
<1>8. ASSUME NEW i \in 1 .. k, NEW j \in 1 .. k, g[i] = g[j]
      PROVE  i = j
  <2>1. G(i).node = G(j).node
    BY <1>8
  <2>2. G(i) = G(j)
    BY <1>2, <2>1, GoodRows
  <2> QED
    BY <1>2, <2>2
<1>9. Cardinality(A) = k
  <2>1. g \in Bijection(1 .. k, A)
    BY <1>6, <1>7, <1>8 DEF Bijection, Injection, Surjection, IsInjective
  <2> QED
    BY <1>1, <2>1, FS_CountingElements DEF ExistsBijection
<1> DEFINE T == EntriesOf(store)
           IsChain(w) == w[k] = r.node /\ \A i \in 2 .. k : T[w[i]].parent = w[i - 1]
<1>10. ASSUME NEW i \in 2 .. k
       PROVE  T[g[i]].parent = g[i - 1]
  <2>1. i \in 1 .. k /\ i - 1 \in 1 .. k
    BY <1>1
  <2>2. G(i) \in store.rows /\ G(i).orig = NoPath /\ G(i - 1) \in store.rows
    BY <1>2, <2>1
  <2>3. G(i).parent = G(i - 1).path
    <3>1. /\ G(i).path = SubSeq(p, 1, i) /\ Len(G(i).path) = i
          /\ G(i - 1).path = SubSeq(p, 1, i - 1)
      BY <1>2, <2>1
    <3>2. G(i).parent = ParentOf(SubSeq(p, 1, i)) /\ Len(SubSeq(p, 1, i)) = i
      BY <2>2, <3>1, GoodRow
    <3>3. G(i).parent \in Path /\ Len(G(i).parent) = i - 1
      BY <2>2, <3>1, GoodRow
    <3>4. \A j \in 1 .. i - 1 : G(i).parent[j] = p[j]
      <4> DEFINE u == SubSeq(p, 1, i)
      <4>1. u \in Path /\ \A j \in 1 .. i : u[j] = p[j]
        BY <1>1, <2>1, PrefixPath
      <4>2. Len(u) = i /\ u # Root /\ G(i).parent = ParentOf(u)
        BY <3>2, RootLength
      <4> HIDE DEF u
      <4>3. \A j \in 1 .. Len(u) - 1 : ParentOf(u)[j] = u[j]
        BY <4>1, <4>2, ParentPath
      <4>4. i \in Nat
        OBVIOUS
      <4> QED
        BY <4>1, <4>2, <4>3, <4>4
    <3>5. /\ SubSeq(p, 1, i - 1) \in Path /\ Len(SubSeq(p, 1, i - 1)) = i - 1
          /\ \A j \in 1 .. i - 1 : SubSeq(p, 1, i - 1)[j] = p[j]
      BY <1>1, <2>1, PrefixPath
    <3> QED
      BY <3>1, <3>3, <3>4, <3>5, PathEqual
  <2>4. ParentEntry(store, G(i)) = G(i - 1).node
    BY <2>2, <2>3, ParentEntryIs
  <2>5. T[G(i).node].parent = G(i - 1).node
    BY <2>2, <2>4, EntryReads
  <2> QED
    BY <2>1, <2>5
<1>11. g \in [1 .. k -> A] /\ IsChain(g)
  <2>1. g[k] = r.node
    BY <1>1, <1>4
  <2>2. g = [i \in 1 .. k |-> g[i]]
    OBVIOUS
  <2> HIDE DEF g, k, T
  <2>3. g \in [1 .. k -> A]
    BY <1>6, <2>2
  <2> QED
    BY <1>10, <2>1, <2>3
<1>12. Tree!Chain(r.node) = CHOOSE w \in [1 .. k -> A] : IsChain(w)
  <2>1. Tree!Cardinality(Tree!Above(r.node)) = k
    BY <1>9, SameCardinality DEF A
  <2> QED
    BY <2>1 DEF Tree!Chain, A
<1> DEFINE w == Tree!Chain(r.node)
<1> HIDE DEF w, T, g
<1>13. IsChain(w)
  BY <1>11, <1>12 DEF w
<1>14. \A i \in 1 .. k : w[i] = g[i]
  <2>1. w[k] = g[k] /\ \A i \in 2 .. k : w[i] = g[i] => w[i - 1] = g[i - 1]
    BY <1>11, <1>13
  <2> QED
    BY <1>1, <2>1, ChainsMeet
<1>15. ASSUME NEW i \in 1 .. k
       PROVE  T[w[i]].name = p[i]
  <2>1. w[i] = G(i).node
    BY <1>14 DEF g
  <2>2. /\ G(i) \in store.rows /\ G(i).path = SubSeq(p, 1, i) /\ Len(G(i).path) = i
    BY <1>2
  <2>3. T[w[i]].name = G(i).path[i]
    BY <2>1, <2>2, EntryReads, GoodRow DEF T, NameOf
  <2> QED
    BY <1>1, <2>2, <2>3, PrefixPath
<1>16. Tree!PathOf(r.node) = [i \in 1 .. k |-> T[w[i]].name]
  <2>1. Tree!Cardinality(Tree!Above(r.node)) = k
    BY <1>9, SameCardinality DEF A
  <2> QED
    BY <2>1 DEF Tree!PathOf, A, T, w
<1>17. p = [i \in 1 .. k |-> p[i]]
  BY <1>1, LenProperties DEF Path
<1> QED
  BY <1>15, <1>16, <1>17

----------------------------------------------------------------------------
(* Places, and what is free in them.                                       *)

LEMMA PathIsChild ==
  ASSUME NEW p \in Path, Len(p) >= 1
  PROVE  p = Child(ParentOf(p), NameOf(p))
<1> DEFINE u == ParentOf(p)
           q == Child(u, NameOf(p))
<1>1. /\ u \in Path /\ Len(u) = Len(p) - 1 /\ Len(p) \in Nat /\ p[Len(p)] \in Segments
      /\ \A i \in 1 .. Len(p) - 1 : u[i] = p[i]
  BY ParentPath, PathElement, EmptySeq DEF Root
<1>2. NameOf(p) = p[Len(p)]
  BY DEF NameOf
<1> HIDE DEF u
<1>3. q \in Path /\ Len(q) = Len(u) + 1 /\ (\A i \in 1 .. Len(u) : q[i] = u[i]) /\ NameOf(q) = p[Len(p)]
  BY <1>1, <1>2, ChildPath
<1> HIDE DEF q
<1>4. Len(q) = Len(p) /\ q[Len(p)] = p[Len(p)]
  BY <1>1, <1>3 DEF NameOf
<1>5. \A i \in 1 .. Len(p) : i \in 1 .. Len(p) - 1 \/ i = Len(p)
  BY <1>1
<1>6. \A i \in 1 .. Len(p) : q[i] = p[i]
  BY <1>1, <1>3, <1>4, <1>5
<1>7. q = p
  BY <1>3, <1>4, <1>6, PathEqual
<1> QED
  BY <1>7 DEF q, u

PlaceAt(s, d) == IF d = Root THEN Root ELSE NodeAt(s, d)

LEMMA FolderRow ==
  ASSUME NEW s, Good(s), NEW d, FolderAt(s.rows, d), d # Root
  PROVE  \E f \in s.rows : f.path = d /\ f.dir /\ ~f.deleted /\ PlaceAt(s, d) = f.node
<1>1. PICK f \in s.rows : f.path = d /\ f.dir /\ f.deleted = FALSE
  BY DEF FolderAt
<1>2. RowAt(s, d) = f
  <2>1. \A t \in s.rows : t.path = d => t = f
    BY <1>1, GoodRows
  <2> QED
    BY <1>1, <2>1 DEF RowAt
<1> QED
  BY <1>1, <1>2 DEF PlaceAt, NodeAt

LEMMA PlaceIs ==
  ASSUME EdgesApart, Good(store), NEW d, FolderAt(store.rows, d)
  PROVE  /\ PlaceAt(store, d) \in Tree!Places
         /\ (IF PlaceAt(store, d) = Root THEN << >> ELSE Tree!PathOf(PlaceAt(store, d))) = d
         /\ \A r \in store.rows :
              EntriesOf(store)[r.node].parent = PlaceAt(store, d) <=> r.orig = NoPath /\ r.parent = d
<1>1. CASE d = Root
  <2>1. PlaceAt(store, d) = Root
    BY <1>1 DEF PlaceAt
  <2>2. Root \in Tree!Places
    BY DEF Tree!Places
  <2>3. \A r \in store.rows : EntriesOf(store)[r.node].parent = ParentEntry(store, r)
    BY EntryReads
  <2> QED
    BY <1>1, <2>1, <2>2, <2>3, ParentEntryOf DEF Root
<1>2. CASE d # Root
  <2>1. PICK f \in store.rows : f.path = d /\ f.dir /\ ~f.deleted /\ PlaceAt(store, d) = f.node
    BY <1>2, FolderRow
  <2>2. Tree!IsLive(f.node) /\ Tree!PathOf(f.node) = d /\ f.node # Root
    <3>1. f.node # Root
      BY GoodRow DEF EdgesApart
    <3> QED
      BY <2>1, <3>1, IsLiveIs, PathOfIs
  <2>3. f.node \in DOMAIN EntriesOf(store) /\ EntriesOf(store)[f.node].dir
    BY <2>1, EntriesAt, EntryReads
  <2>4. f.node \in Tree!Places
    BY <2>2, <2>3 DEF Tree!Places
  <2>5. \A r \in store.rows : EntriesOf(store)[r.node].parent = ParentEntry(store, r)
    BY EntryReads
  <2> QED
    BY <2>1, <2>2, <2>4, <2>5, ParentEntryOf
<1> QED
  BY <1>1, <1>2

LEMMA FreePlace ==
  ASSUME EdgesApart, Good(store), NEW d, FolderAt(store.rows, d), NEW name,
         \A r \in store.rows : r.path # Child(d, name)
  PROVE  Tree!Free(PlaceAt(store, d), name)
<1> SUFFICES ASSUME NEW n \in DOMAIN EntriesOf(store),
                    EntriesOf(store)[n].parent = PlaceAt(store, d)
             PROVE  EntriesOf(store)[n].name # name
  BY DEF Tree!Free
<1>1. PICK r \in store.rows : n = r.node
  <2>1. DOMAIN EntriesOf(store) = {r.node : r \in store.rows}
    BY EntriesAt
  <2> QED
    BY <2>1
<1>2. r.parent = d /\ EntriesOf(store)[n].name = r.name
  BY <1>1, PlaceIs, EntryReads
<1>3. r.path = Child(r.parent, r.name)
  BY GoodRow, PathIsChild
<1> QED
  BY <1>2, <1>3

----------------------------------------------------------------------------
(* Rows that read alike in two stores, and the tree of the second one.     *)

Alike(s, r, n, x) ==
  /\ x.node = r.node /\ x.name = r.name /\ x.dir = r.dir /\ x.sum = r.sum
  /\ x.orig = r.orig /\ x.fav = r.fav
  /\ VersionsMatch(s, r.path, n, x.path)

\* It hangs where it did.
SameEdge(s, r, n, x) ==
  /\ r.parent = Root => x.parent = Root
  /\ \A f \in s.rows : f.path = r.parent => \E g \in n.rows : g.node = f.node /\ g.path = x.parent

LEMMA SameParent ==
  ASSUME NEW s, Good(s), NEW n, Good(n), NEW r \in s.rows, NEW x \in n.rows,
         x.orig = r.orig, SameEdge(s, r, n, x)
  PROVE  ParentEntry(n, x) = ParentEntry(s, r)
<1>1. CASE r.orig # NoPath
  BY <1>1, ParentEntryIs
<1>2. CASE r.orig = NoPath /\ r.parent = Root
  BY <1>2, ParentEntryIs DEF SameEdge
<1>3. CASE r.orig = NoPath /\ r.parent # Root
  <2>1. PICK f \in s.rows : f.path = r.parent
    BY <1>3, GoodParent
  <2>2. PICK g \in n.rows : g.node = f.node /\ g.path = x.parent
    BY <2>1 DEF SameEdge
  <2> QED
    BY <1>3, <2>1, <2>2, ParentEntryIs
<1> QED
  BY <1>1, <1>2, <1>3

LEMMA AlikeFields ==
  ASSUME NEW s, Good(s), NEW n, Good(n), NEW r \in s.rows, NEW x \in n.rows,
         x.dir = r.dir, x.sum = r.sum
  PROVE  (IF x.dir THEN NoPath ELSE BytesAt(n, x.path)) = (IF r.dir THEN NoPath ELSE BytesAt(s, r.path))
<1>1. CASE r.dir
  BY <1>1
<1>2. CASE ~r.dir
  BY <1>2, BytesAre
<1> QED
  BY <1>1, <1>2

LEMMA SameEntryOf ==
  ASSUME NEW s, Good(s), NEW n, Good(n), NEW r \in s.rows, NEW x \in n.rows,
         Alike(s, r, n, x), SameEdge(s, r, n, x)
  PROVE  EntryOf(n, x) = EntryOf(s, r)
<1>1. ParentEntry(n, x) = ParentEntry(s, r)
  BY SameParent DEF Alike
<1>2. HistoryAt(n, x.path) = HistoryAt(s, r.path)
  BY HistorySame DEF Alike
<1>3. (IF x.dir THEN NoPath ELSE BytesAt(n, x.path)) = (IF r.dir THEN NoPath ELSE BytesAt(s, r.path))
  BY AlikeFields DEF Alike
<1> QED
  BY <1>1, <1>2, <1>3 DEF EntryOf, Alike

\* One entry changes, or is new.
OnlyPuts(s, n, k) ==
  EntriesOf(n) = [m \in DOMAIN EntriesOf(s) \cup {k.node} |->
                    IF m = k.node THEN EntryOf(n, k) ELSE EntriesOf(s)[m]]

LEMMA OnePut ==
  ASSUME NEW s, Good(s), NEW n, Good(n), NEW k \in n.rows,
         \A x \in n.rows : x.node # k.node =>
           \E r \in s.rows : r.node = x.node /\ EntryOf(n, x) = EntryOf(s, r),
         \A r \in s.rows : \E x \in n.rows : x.node = r.node
  PROVE  OnlyPuts(s, n, k)
<1> DEFINE D == DOMAIN EntriesOf(s) \cup {k.node}
           F == [m \in D |-> IF m = k.node THEN EntryOf(n, k) ELSE EntriesOf(s)[m]]
<1>1. DOMAIN EntriesOf(s) = {r.node : r \in s.rows} /\ DOMAIN EntriesOf(n) = {x.node : x \in n.rows}
  BY EntriesAt
<1>2. D = DOMAIN EntriesOf(n)
  BY <1>1
<1>3. ASSUME NEW m \in DOMAIN EntriesOf(n)
      PROVE  EntriesOf(n)[m] = F[m]
  <2>1. PICK x \in n.rows : x.node = m
    BY <1>1
  <2>2. EntriesOf(n)[m] = EntryOf(n, x)
    BY <2>1, EntriesAt
  <2>3. CASE m = k.node
    <3>1. x = k
      BY <2>1, <2>3, GoodRows
    <3> QED
      BY <1>2, <2>2, <2>3, <3>1
  <2>4. CASE m # k.node
    <3>1. PICK r \in s.rows : r.node = m /\ EntryOf(n, x) = EntryOf(s, r)
      BY <2>1, <2>4
    <3>2. EntriesOf(s)[m] = EntryOf(s, r)
      BY <3>1, EntriesAt
    <3> QED
      BY <1>2, <2>2, <2>4, <3>1, <3>2
  <2> QED
    BY <2>3, <2>4
<1>4. EntriesOf(n) = [m \in DOMAIN EntriesOf(n) |-> EntriesOf(n)[m]]
  BY DEF EntriesOf
<1>5. EntriesOf(n) = [m \in D |-> F[m]]
  BY <1>2, <1>3, <1>4
<1> QED
  BY <1>5 DEF OnlyPuts

\* The rows stay where they are, except for one entry's.
LEMMA PutInPlace ==
  ASSUME NEW s, Good(s), NEW n, Good(n), NEW k \in n.rows,
         \A x \in n.rows : x.node # k.node => \E r \in s.rows : Alike(s, r, n, x) /\ x.path = r.path,
         \A r \in s.rows : \E x \in n.rows : x.node = r.node /\ x.path = r.path
  PROVE  OnlyPuts(s, n, k)
<1>1. ASSUME NEW x \in n.rows, NEW r \in s.rows, x.path = r.path
      PROVE  SameEdge(s, r, n, x)
  <2>1. x.parent = r.parent
    BY <1>1, GoodRow
  <2> QED
    BY <2>1 DEF SameEdge
<1>2. ASSUME NEW x \in n.rows, x.node # k.node
      PROVE  \E r \in s.rows : r.node = x.node /\ EntryOf(n, x) = EntryOf(s, r)
  <2>1. PICK r \in s.rows : Alike(s, r, n, x) /\ x.path = r.path
    BY <1>2
  <2>2. r.node = x.node
    BY <2>1 DEF Alike
  <2>3. EntryOf(n, x) = EntryOf(s, r)
    BY <1>1, <2>1, SameEntryOf
  <2> QED
    BY <2>2, <2>3
<1>3. \A r \in s.rows : \E x \in n.rows : x.node = r.node
  OBVIOUS
<1> QED
  BY <1>2, <1>3, OnePut, Zenon

LEMMA PutIs ==
  ASSUME NEW k, NEW e, OnlyPuts(store, store', k), EntryOf(store', k) = e
  PROVE  Tree!Put(k.node, e)
BY DEF Tree!Put, OnlyPuts

\* A row whose place is the one of d in the store before.
LEMMA EdgeTo ==
  ASSUME NEW s, Good(s), NEW n, Good(n), NEW k \in n.rows, NEW d, k.orig = NoPath, k.parent = d,
         FolderAt(s.rows, d),
         \A f \in s.rows : f.path = d => \E g \in n.rows : g.node = f.node /\ g.path = d
  PROVE  ParentEntry(n, k) = PlaceAt(s, d)
<1>1. CASE d = Root
  BY <1>1, ParentEntryIs DEF PlaceAt
<1>2. CASE d # Root
  <2>1. PICK f \in s.rows : f.path = d /\ PlaceAt(s, d) = f.node
    BY <1>2, FolderRow
  <2>2. PICK g \in n.rows : g.node = f.node /\ g.path = d
    BY <2>1
  <2> QED
    BY <2>1, <2>2, ParentEntryIs
<1> QED
  BY <1>1, <1>2

----------------------------------------------------------------------------
(* An entry by its fields, and what the requests change of it.             *)

Fields(a, b, c, d, h, o, f) ==
  [parent |-> a, name |-> b, dir |-> c, data |-> d, history |-> h, orig |-> o, fav |-> f]

WithBytes(E, c) == [E EXCEPT !.history = Append(@, E.data), !.data = c]
WithNewBytes(E, c, b) == [E EXCEPT !.history = Append(@, E.data), !.data = c, !.fav = b]
Hung(E, parent, name) == [E EXCEPT !.parent = parent, !.name = name]
HungBack(E, parent, name) == [E EXCEPT !.parent = parent, !.name = name, !.orig = NoPath]
Binned(E, orig) == [E EXCEPT !.parent = TRASH, !.orig = orig]

DataAt(s, r) == IF r.dir THEN NoPath ELSE BytesAt(s, r.path)
LEMMA EntryIs ==
  ASSUME NEW s, NEW r
  PROVE  EntryOf(s, r) = Fields(ParentEntry(s, r), r.name, r.dir, DataAt(s, r),
                                HistoryAt(s, r.path), r.orig, r.fav)
BY DEF EntryOf, Fields, DataAt

LEMMA EntryReplaced ==
  ASSUME NEW s, NEW r, NEW g, Append(HistoryAt(s, r.path), DataAt(s, r)) = g, NEW c, NEW b
  PROVE  /\ WithBytes(EntryOf(s, r), c)
              = Fields(ParentEntry(s, r), r.name, r.dir, c, g, r.orig, r.fav)
         /\ WithNewBytes(EntryOf(s, r), c, b)
              = Fields(ParentEntry(s, r), r.name, r.dir, c, g, r.orig, b)
<1> DEFINE E == EntryOf(s, r)
           E1 == [E EXCEPT !.history = Append(@, E.data)]
           E2 == [E1 EXCEPT !.data = c]
           E3 == [E2 EXCEPT !.fav = b]
           P == ParentEntry(s, r)
           H == HistoryAt(s, r.path)
           D == DataAt(s, r)
<1>1. E = Fields(P, r.name, r.dir, D, H, r.orig, r.fav) /\ Append(H, D) = g
  BY EntryIs
<1> HIDE DEF E, P, H, D
<1>2. Append(E.history, E.data) = g
  BY <1>1 DEF Fields
<1>3. E1 = Fields(P, r.name, r.dir, D, g, r.orig, r.fav)
  BY <1>1, <1>2 DEF Fields
<1> HIDE DEF E1
<1>4. E2 = Fields(P, r.name, r.dir, c, g, r.orig, r.fav)
  BY <1>3 DEF Fields
<1> HIDE DEF E2
<1>5. E3 = Fields(P, r.name, r.dir, c, g, r.orig, b)
  BY <1>4 DEF Fields
<1> HIDE DEF E3
<1> QED
  BY <1>4, <1>5 DEF E, E1, E2, E3, P, WithBytes, WithNewBytes

LEMMA EntryMoved ==
  ASSUME NEW s, NEW r, NEW a, NEW b, NEW o
  PROVE  LET D == DataAt(s, r)
             H == HistoryAt(s, r.path)
         IN  /\ Hung(EntryOf(s, r), a, b) = Fields(a, b, r.dir, D, H, r.orig, r.fav)
             /\ HungBack(EntryOf(s, r), a, b) = Fields(a, b, r.dir, D, H, NoPath, r.fav)
             /\ Binned(EntryOf(s, r), o) = Fields(TRASH, r.name, r.dir, D, H, o, r.fav)
<1> DEFINE E == EntryOf(s, r)
           E1 == [E EXCEPT !.parent = a]
           E2 == [E1 EXCEPT !.name = b]
           E3 == [E2 EXCEPT !.orig = NoPath]
           E4 == [E EXCEPT !.parent = TRASH]
           E5 == [E4 EXCEPT !.orig = o]
           P == ParentEntry(s, r)
           H == HistoryAt(s, r.path)
           D == DataAt(s, r)
<1>1. E = Fields(P, r.name, r.dir, D, H, r.orig, r.fav)
  BY EntryIs
<1> HIDE DEF E, P, H, D
<1>2. E1 = Fields(a, r.name, r.dir, D, H, r.orig, r.fav)
  BY <1>1 DEF Fields
<1>3. E4 = Fields(TRASH, r.name, r.dir, D, H, r.orig, r.fav)
  BY <1>1 DEF Fields
<1> HIDE DEF E1, E4
<1>4. E2 = Fields(a, b, r.dir, D, H, r.orig, r.fav)
  BY <1>2 DEF Fields
<1>5. E5 = Fields(TRASH, r.name, r.dir, D, H, o, r.fav)
  BY <1>3 DEF Fields
<1> HIDE DEF E2, E5
<1>6. E3 = Fields(a, b, r.dir, D, H, NoPath, r.fav)
  BY <1>4 DEF Fields
<1> HIDE DEF E3
<1> QED
  BY <1>4, <1>5, <1>6 DEF E, E1, E2, E3, E4, E5, D, H, Hung, HungBack, Binned

----------------------------------------------------------------------------
(* What each request does to the tree.                                     *)

LEMMA CreatePuts ==
  ASSUME EdgesApart, Good(store), Good(store'),
         NEW d, FolderAt(store.rows, d), d \in Path, NEW name \in Segments,
         NEW dir \in BOOLEAN, NEW c, ~dir => c \in Contents, NEW node, FreshNode(node),
         \A r \in store.rows : r.path # Child(d, name),
         store'.rows = store.rows \cup {NewRow(Child(d, name), dir, c, node)},
         store'.versions = store.versions
  PROVE  Tree!Create(node, PlaceAt(store, d), name, dir, IF dir THEN NoPath ELSE c)
<1> DEFINE p == Child(d, name)
           k == NewRow(p, dir, c, node)
           b == IF dir THEN NoPath ELSE c
           s == store
           n == store'
<1>1. NameOf(p) = name /\ ParentOf(p) = d
  BY ChildPath
<1> HIDE DEF p
<1>2. /\ k.path = p /\ k.name = name /\ k.parent = d /\ k.dir = dir /\ k.sum = c
      /\ k.orig = NoPath /\ k.fav = FALSE /\ k.node = node
  BY <1>1 DEF NewRow
<1>3. n.rows = s.rows \cup {k} /\ n.versions = s.versions /\ \A r \in s.rows : r.path # p
  BY DEF p
<1> HIDE DEF k, n, s
<1>4. k \in n.rows /\ Good(s) /\ Good(n) /\ \A r \in s.rows : r \in n.rows
  BY <1>3 DEF s, n
<1>5. \A r \in s.rows : r.node # node
  BY DEF FreshNode, s
<1>6. \A q : VersionsMatch(s, q, n, q)
  BY <1>3 DEF VersionsMatch
<1>7. OnlyPuts(s, n, k)
  <2>1. \A x \in n.rows : x.node # k.node => x \in s.rows
    BY <1>2, <1>3
  <2>2. \A x \in n.rows : x.node # k.node => \E r \in s.rows : Alike(s, r, n, x) /\ x.path = r.path
    BY <1>6, <2>1 DEF Alike
  <2> QED
    BY <1>4, <2>2, PutInPlace
<1>8. ParentEntry(n, k) = PlaceAt(s, d)
  <2>1. FolderAt(s.rows, d)
    BY DEF s
  <2> QED
    BY <1>2, <1>4, <2>1, EdgeTo
<1>9. HistoryAt(n, p) = << >>
  <2>1. \A v \in n.versions : v.path # p
    BY <1>3, <1>4, GoodRows DEF Attached
  <2> QED
    BY <1>4, <2>1, NoHistory
<1>10. ~dir => BytesAt(n, p) = c
  BY <1>2, <1>4, BytesAre
<1>11. EntryOf(n, k) = [parent |-> PlaceAt(s, d), name |-> name, dir |-> dir, data |-> b,
                        history |-> << >>, orig |-> NoPath, fav |-> FALSE]
  BY <1>2, <1>8, <1>9, <1>10 DEF EntryOf
<1>12. b \in IF dir THEN {NoPath} ELSE Contents
  OBVIOUS
<1>13. node \notin DOMAIN EntriesOf(store)
  <2>1. DOMAIN EntriesOf(store) = {r.node : r \in store.rows}
    BY EntriesAt
  <2> QED
    BY <1>5, <2>1 DEF s
<1>14. PlaceAt(store, d) \in Tree!Places /\ Tree!Free(PlaceAt(store, d), name)
  BY PlaceIs, FreePlace
<1>15. Tree!Put(node, [parent |-> PlaceAt(store, d), name |-> name, dir |-> dir, data |-> b,
                       history |-> << >>, orig |-> NoPath, fav |-> FALSE])
  BY <1>2, <1>7, <1>11, PutIs DEF s, n
<1> HIDE DEF b
<1>16. Tree!Create(node, PlaceAt(store, d), name, dir, b)
  BY <1>12, <1>13, <1>14, <1>15 DEF Tree!Create
<1> QED
  BY <1>16 DEF b

\* What a snapshot adds to the history.
LEMMA SnapshotAdds ==
  ASSUME NEW s, Good(s), NEW p, IsFile(s, p), NEW ref, NEW n, Good(n),
         n.versions = Snapshot(s, p, ref).versions
  PROVE  /\ HistoryAt(n, p) = Append(HistoryAt(s, p), RowAt(s, p).sum)
         /\ \A q : q # p => VersionsMatch(s, q, n, q)
<1> DEFINE w == [path |-> p, no |-> NextNo(s, p), sum |-> RowAt(s, p).sum, ref |-> ref]
<1>1. w.path = p /\ w.no = NextNo(s, p) /\ w.sum = RowAt(s, p).sum
  OBVIOUS
<1>2. FileOn(s.disk, p) # {}
  <2>1. RowAt(s, p) \in s.rows /\ RowAt(s, p).path = p /\ ~RowAt(s, p).dir
    <3>1. Live(s, p)
      BY DEF IsFile, Live
    <3> QED
      BY <3>1, RowAtLive DEF Good
  <2> HIDE DEF w
  <2> QED
    BY <2>1, GoodRows, OneFileOnDisk DEF Good
<1>3. n.versions = s.versions \cup {w}
  <2>1. "versions" \in DOMAIN s /\ "versions" \in DOMAIN [s EXCEPT !.disk = @ \cup {[e EXCEPT !.path = Blob(ref)] : e \in FileOn(@, p)}]
    BY DEF Good, StoreInv, StoreType
  <2> HIDE DEF w
  <2>2. Snapshot(s, p, ref) = [s EXCEPT
         !.disk = @ \cup {[e EXCEPT !.path = Blob(ref)] : e \in FileOn(@, p)},
         !.versions = @ \cup {w}]
    BY <1>2 DEF Snapshot, w
  <2> QED
    BY <2>1, <2>2
<1> HIDE DEF w
<1>4. HistoryAt(n, p) = Append(HistoryAt(s, p), RowAt(s, p).sum)
  BY <1>1, <1>3, HistoryGrows
<1>5. \A q : q # p => VersionsMatch(s, q, n, q)
  BY <1>1, <1>3 DEF VersionsMatch
<1> QED
  BY <1>4, <1>5

LEMMA FileRow ==
  ASSUME NEW s, Good(s), NEW p, IsFile(s, p)
  PROVE  /\ RowAt(s, p) \in s.rows /\ RowAt(s, p).path = p /\ RowAt(s, p).dir = FALSE
         /\ ~RowAt(s, p).deleted /\ RowAt(s, p).orig = NoPath
         /\ \A t \in s.rows : t.path = p => t = RowAt(s, p)
<1>1. Live(s, p)
  BY DEF IsFile, Live
<1>2. RowAt(s, p) \in s.rows /\ RowAt(s, p).path = p /\ RowAt(s, p).dir = FALSE
  <2>1. RowAt(s, p) \in s.rows /\ RowAt(s, p).path = p /\ ~RowAt(s, p).dir
    BY <1>1, RowAtLive DEF Good
  <2> QED
    BY <2>1, GoodRow
<1>3. \A t \in s.rows : t.path = p => t = RowAt(s, p)
  BY <1>2, GoodRows
<1>4. ~RowAt(s, p).deleted
  BY <1>3 DEF IsFile
<1> QED
  BY <1>2, <1>3, <1>4, LiveRow

LEMMA OverwritePuts ==
  ASSUME EdgesApart, Good(store), Good(store'), NEW p, IsFile(store, p), NEW ref, NEW c \in Contents,
         Swapped(store, store', p, ref, c, RowAt(store, p).node)
  PROVE  Tree!Overwrite(RowAt(store, p).node, c)
<1> DEFINE r == RowAt(store, p)
           k == NewRow(p, FALSE, c, r.node)
           s == store
           n == store'
<1>1. /\ r \in s.rows /\ r.path = p /\ r.dir = FALSE /\ ~r.deleted /\ r.orig = NoPath
      /\ \A t \in s.rows : t.path = p => t = r
  BY FileRow
<1>2. /\ k.path = p /\ k.name = r.name /\ k.parent = r.parent /\ k.dir = FALSE /\ k.sum = c
      /\ k.orig = NoPath /\ k.fav = FALSE /\ k.node = r.node
  <2>1. NameOf(p) = r.name /\ ParentOf(p) = r.parent
    BY <1>1, GoodRow
  <2> HIDE DEF r
  <2> QED
    BY <2>1 DEF NewRow
<1>3. n.rows = (s.rows \ {r}) \cup {k} /\ n.versions = Snapshot(s, p, ref).versions
  BY DEF Swapped
<1>4. Good(s) /\ Good(n) /\ k \in n.rows /\ IsFile(s, p)
  BY <1>3
<1>5. HistoryAt(n, p) = Append(HistoryAt(s, p), r.sum) /\ \A q : q # p => VersionsMatch(s, q, n, q)
  BY <1>3, <1>4, SnapshotAdds
<1> HIDE DEF k, n, s, r
<1>6. \A x \in n.rows : x.node # k.node => \E t \in s.rows : Alike(s, t, n, x) /\ x.path = t.path
  <2>1. \A x \in n.rows : x.node # k.node => x \in s.rows /\ x.path # p
    BY <1>1, <1>2, <1>3
  <2> QED
    BY <1>5, <2>1 DEF Alike
<1>7. \A t \in s.rows : \E x \in n.rows : x.node = t.node /\ x.path = t.path
  BY <1>1, <1>2, <1>3
<1>8. OnlyPuts(s, n, k)
  BY <1>4, <1>6, <1>7, PutInPlace
<1>9. ParentEntry(n, k) = ParentEntry(s, r)
  <2>1. SameEdge(s, r, n, k)
    BY <1>2, <1>7 DEF SameEdge
  <2> QED
    BY <1>1, <1>2, <1>4, <2>1, SameParent
<1>10. BytesAt(n, p) = c /\ BytesAt(s, p) = r.sum
  BY <1>1, <1>2, <1>4, BytesAre
<1>11. EntriesOf(s)[r.node] = EntryOf(s, r)
  BY <1>1, <1>4, EntriesAt
<1>12. EntryOf(n, k) = WithNewBytes(EntryOf(s, r), c, k.fav)
  <2>2. EntryOf(n, k) = Fields(ParentEntry(s, r), r.name, r.dir, c, HistoryAt(n, p), r.orig, k.fav)
    <3>1. DataAt(n, k) = c
      BY <1>2, <1>10 DEF DataAt
    <3>2. k.dir = r.dir
      BY <1>1, <1>2
    <3> QED
      BY <1>1, <1>2, <1>9, <3>1, <3>2, EntryIs
  <2>3. Append(HistoryAt(s, p), DataAt(s, r)) = HistoryAt(n, p)
    <3>1. DataAt(s, r) = r.sum
      BY <1>1, <1>10 DEF DataAt
    <3> QED
      BY <1>5, <3>1
  <2>4. WithNewBytes(EntryOf(s, r), c, k.fav)
          = Fields(ParentEntry(s, r), r.name, r.dir, c, HistoryAt(n, p), r.orig, k.fav)
    BY <1>1, <2>3, EntryReplaced
  <2> QED
    BY <2>2, <2>4
<1>13. Tree!Put(r.node, EntryOf(n, k))
  BY <1>2, <1>8, PutIs DEF s, n
<1>14. Tree!IsLive(r.node) /\ ~EntriesOf(store)[r.node].dir
  <2>1. EntriesOf(store)[r.node].dir = FALSE
    BY <1>1, <1>4, EntryReads DEF s
  <2>2. Tree!IsLive(r.node)
    BY <1>1, <1>4, IsLiveIs DEF s
  <2> QED
    BY <2>1, <2>2
<1>15. EntryOf(n, k) = WithNewBytes(EntriesOf(store)[r.node], c, FALSE)
  BY <1>2, <1>11, <1>12 DEF s
<1>16. Tree!Overwrite(r.node, c)
  BY <1>13, <1>14, <1>15 DEF Tree!Overwrite, WithNewBytes
<1> QED
  BY <1>16 DEF r

LEMMA RollBackPuts ==
  ASSUME EdgesApart, Good(store), Good(store'), NEW p, IsFile(store, p), NEW ref,
         NEW v \in VersionsAt(store, p),
         store'.rows = Rehashed(store.rows, p, v.sum),
         store'.versions = Snapshot(store, p, ref).versions
  PROVE  /\ v.no \in DOMAIN EntriesOf(store)[RowAt(store, p).node].history
         /\ Tree!RollBack(RowAt(store, p).node, v.no)
<1> DEFINE r == RowAt(store, p)
           k == [r EXCEPT !.sum = v.sum]
           s == store
           n == store'
<1>1. /\ r \in s.rows /\ r.path = p /\ r.dir = FALSE /\ ~r.deleted /\ r.orig = NoPath
      /\ \A t \in s.rows : t.path = p => t = r
  BY FileRow
<1>2. /\ k.path = p /\ k.name = r.name /\ k.parent = r.parent /\ k.dir = r.dir /\ k.sum = v.sum
      /\ k.orig = r.orig /\ k.fav = r.fav /\ k.node = r.node
  <2>1. r \in RowType /\ r.path = p
    BY <1>1, GoodRow
  <2> HIDE DEF r
  <2> QED
    BY <2>1 DEF RowType
<1> HIDE DEF r
<1>3. /\ k \in n.rows /\ (\A t \in s.rows : t.path # p => t \in n.rows)
      /\ \A x \in n.rows : (x \in s.rows /\ x.path # p) \/ x = k
  <2>1. /\ \A t \in s.rows : t.path # p => t \in n.rows
        /\ \A t \in s.rows : t.path = p => [t EXCEPT !.sum = v.sum] \in n.rows
        /\ \A x \in n.rows : \/ x \in s.rows /\ x.path # p
                             \/ \E t \in s.rows : t.path = p /\ x = [t EXCEPT !.sum = v.sum]
    BY DEF Rehashed
  <2> QED
    BY <1>1, <2>1
<1> HIDE DEF k, n, s
<1>4. /\ Good(s) /\ Good(n) /\ IsFile(s, p) /\ v \in s.versions /\ v.path = p
      /\ n.versions = Snapshot(s, p, ref).versions
  BY DEF s, n, VersionsAt
<1>5. HistoryAt(n, p) = Append(HistoryAt(s, p), r.sum) /\ \A q : q # p => VersionsMatch(s, q, n, q)
  BY <1>4, SnapshotAdds DEF r, s
<1>6. \A x \in n.rows : x.node # k.node => \E t \in s.rows : Alike(s, t, n, x) /\ x.path = t.path
  BY <1>3, <1>5 DEF Alike
<1>7. \A t \in s.rows : \E x \in n.rows : x.node = t.node /\ x.path = t.path
  BY <1>1, <1>2, <1>3
<1>8. OnlyPuts(s, n, k)
  BY <1>3, <1>4, <1>6, <1>7, PutInPlace
<1>9. ParentEntry(n, k) = ParentEntry(s, r)
  <2>1. SameEdge(s, r, n, k)
    BY <1>2, <1>7 DEF SameEdge
  <2> QED
    BY <1>1, <1>2, <1>3, <1>4, <2>1, SameParent
<1>10. DataAt(n, k) = v.sum /\ DataAt(s, r) = r.sum
  <2>1. k.dir = FALSE
    BY <1>1, <1>2
  <2>2. BytesAt(n, k.path) = k.sum
    BY <1>3, <1>4, <2>1, BytesAre
  <2>3. BytesAt(s, r.path) = r.sum
    BY <1>1, <1>4, BytesAre
  <2> QED
    BY <1>1, <1>2, <2>1, <2>2, <2>3 DEF DataAt
<1>11. EntriesOf(s)[r.node] = EntryOf(s, r)
  BY <1>1, <1>4, EntriesAt
<1>12. v.no \in DOMAIN HistoryAt(s, p) /\ HistoryAt(s, p)[v.no] = v.sum
  <2> DEFINE c == Cardinality(VersionsAt(s, p))
  <2>1. v.no \in 1 .. c /\ VersionOf(s, p, v.no) = v
    BY <1>4, VersionsNumbered
  <2>2. HistoryAt(s, p) = [i \in 1 .. c |-> VersionOf(s, p, i).sum]
    BY <1>4, HistoryIs
  <2> HIDE DEF c
  <2> QED
    BY <2>1, <2>2
<1>13. EntryOf(n, k) = WithBytes(EntryOf(s, r), v.sum)
  <2>1. EntryOf(n, k) = Fields(ParentEntry(s, r), r.name, r.dir, v.sum, HistoryAt(n, p), r.orig, r.fav)
    BY <1>2, <1>9, <1>10, EntryIs
  <2>2. Append(HistoryAt(s, p), DataAt(s, r)) = HistoryAt(n, p)
    BY <1>5, <1>10
  <2>3. \A b : /\ WithBytes(EntryOf(s, r), v.sum)
                   = Fields(ParentEntry(s, r), r.name, r.dir, v.sum, HistoryAt(n, p), r.orig, r.fav)
               /\ WithNewBytes(EntryOf(s, r), v.sum, b)
                   = Fields(ParentEntry(s, r), r.name, r.dir, v.sum, HistoryAt(n, p), r.orig, b)
    BY <1>1, <2>2, EntryReplaced
  <2> QED
    BY <2>1, <2>3
<1>14. Tree!Put(r.node, EntryOf(n, k))
  BY <1>2, <1>8, PutIs DEF s, n
<1>15. Tree!IsLive(r.node) /\ ~EntriesOf(store)[r.node].dir
  <2>1. EntriesOf(store)[r.node].dir = FALSE
    BY <1>1, <1>4, EntryReads DEF s
  <2>2. Tree!IsLive(r.node)
    BY <1>1, <1>4, IsLiveIs DEF s
  <2> QED
    BY <2>1, <2>2
<1>16. EntriesOf(store)[r.node].history = HistoryAt(s, p)
  <2>1. EntryOf(s, r).history = HistoryAt(s, r.path)
    BY EntryFields
  <2> QED
    BY <1>1, <1>11, <2>1 DEF s
<1>17. EntryOf(n, k) = WithBytes(EntriesOf(store)[r.node], EntriesOf(store)[r.node].history[v.no])
  BY <1>11, <1>12, <1>13, <1>16 DEF s
<1>18. Tree!RollBack(r.node, v.no)
  BY <1>12, <1>14, <1>15, <1>16, <1>17 DEF Tree!RollBack, WithBytes
<1> QED
  BY <1>12, <1>16, <1>18 DEF r

LEMMA FavorPuts ==
  ASSUME EdgesApart, Good(store), Good(store'), NEW r \in store.rows, ~r.deleted, NEW b,
         store'.rows = Starred(store.rows, r.path, b), store'.versions = store.versions
  PROVE  Tree!Favor(r.node, b)
<1> DEFINE p == r.path
           k == [r EXCEPT !.fav = b]
           s == store
           n == store'
<1>1. \A t \in s.rows : t.path = p => t = r
  BY GoodRows
<1>2. /\ k.path = p /\ k.name = r.name /\ k.parent = r.parent /\ k.dir = r.dir /\ k.sum = r.sum
      /\ k.orig = r.orig /\ k.fav = b /\ k.node = r.node
  <2>1. r \in RowType
    BY GoodRow
  <2> QED
    BY <2>1 DEF RowType
<1>3. /\ k \in n.rows /\ (\A t \in s.rows : t.path # p => t \in n.rows)
      /\ \A x \in n.rows : (x \in s.rows /\ x.path # p) \/ x = k
  <2>1. /\ \A t \in s.rows : t.path # p => t \in n.rows
        /\ \A t \in s.rows : t.path = p => [t EXCEPT !.fav = b] \in n.rows
        /\ \A x \in n.rows : \/ x \in s.rows /\ x.path # p
                             \/ \E t \in s.rows : t.path = p /\ x = [t EXCEPT !.fav = b]
    BY DEF Starred
  <2> QED
    BY <1>1, <2>1
<1> HIDE DEF k, n, s, p
<1>4. Good(s) /\ Good(n) /\ r \in s.rows /\ r.path = p
  BY DEF s, n, p
<1>5. \A q : VersionsMatch(s, q, n, q)
  BY DEF VersionsMatch, s, n
<1>6. \A x \in n.rows : x.node # k.node => \E t \in s.rows : Alike(s, t, n, x) /\ x.path = t.path
  BY <1>3, <1>5 DEF Alike
<1>7. \A t \in s.rows : \E x \in n.rows : x.node = t.node /\ x.path = t.path
  BY <1>1, <1>2, <1>3
<1>8. OnlyPuts(s, n, k)
  BY <1>3, <1>4, <1>6, <1>7, PutInPlace
<1>9. ParentEntry(n, k) = ParentEntry(s, r)
  <2>1. SameEdge(s, r, n, k)
    BY <1>2, <1>7 DEF SameEdge
  <2> QED
    BY <1>2, <1>3, <1>4, <2>1, SameParent
<1>10. DataAt(n, k) = DataAt(s, r)
  BY <1>2, <1>3, <1>4, AlikeFields DEF DataAt
<1>11. HistoryAt(n, p) = HistoryAt(s, p)
  BY <1>4, <1>5, HistorySame
<1>12. EntryOf(n, k) = [EntryOf(s, r) EXCEPT !.fav = b]
  <2>1. EntryOf(n, k) = Fields(ParentEntry(s, r), r.name, r.dir, DataAt(s, r), HistoryAt(s, p), r.orig, b)
    BY <1>2, <1>9, <1>10, <1>11, EntryIs
  <2>2. EntryOf(s, r) = Fields(ParentEntry(s, r), r.name, r.dir, DataAt(s, r), HistoryAt(s, p), r.orig, r.fav)
    BY <1>4, EntryIs
  <2> QED
    BY <2>1, <2>2 DEF Fields
<1>13. Tree!Put(r.node, EntryOf(n, k))
  BY <1>2, <1>8, PutIs DEF s, n
<1>14. Tree!IsLive(r.node)
  BY IsLiveIs
<1>15. EntriesOf(store)[r.node] = EntryOf(s, r)
  BY <1>4, EntriesAt DEF s
<1> QED
  BY <1>12, <1>13, <1>14, <1>15 DEF Tree!Favor

----------------------------------------------------------------------------
(* A move of a subtree: one edge changes.  The rows below it change their  *)
(* paths, and hang where they hung.                                        *)

\* Where the row r is when o has moved to new; marks of the trash aside.
Lands(o, new, r, x) ==
  LET m == MovedRow(o.path, new, o.dir, r)
  IN  /\ x.path = m.path /\ x.name = m.name /\ x.dir = m.dir /\ x.sum = m.sum
      /\ x.fav = m.fav /\ x.node = m.node
      /\ r.path # o.path => x.orig = r.orig

Target(s, o, new) ==
  /\ o \in s.rows /\ new \in Path /\ Len(new) >= 1
  /\ ~AtOrBelow(o.path, new) /\ ~KeyClash(s.rows, o.path, new, o.dir)

Shifts(s, n, o, new) ==
  /\ Target(s, o, new)
  /\ n.versions = RelocateVersions(s.versions, o.path, new, o.dir)
  /\ \A r \in s.rows : \E x \in n.rows : Lands(o, new, r, x)
  /\ \A x \in n.rows : \E r \in s.rows : Lands(o, new, r, x)

LEMMA MovedVersions ==
  ASSUME NEW s, Good(s), NEW old, NEW new, NEW dir, ~KeyClash(s.rows, old, new, dir),
         NEW n, n.versions = RelocateVersions(s.versions, old, new, dir), NEW r \in s.rows
  PROVE  VersionsMatch(s, r.path, n, MovedPath(old, new, dir, r.path))
<1> DEFINE P(q) == MovedPath(old, new, dir, q)
           M(v) == [v EXCEPT !.path = P(@)]
<1>1. n.versions = {M(v) : v \in s.versions}
  BY DEF RelocateVersions
<1>2. ASSUME NEW v \in s.versions
      PROVE  M(v).path = P(v.path) /\ M(v).sum = v.sum /\ M(v).no = v.no
  <2>1. v \in VersionType
    BY GoodRows
  <2> QED
    BY <2>1 DEF VersionType
<1> HIDE DEF M
<1>3. ASSUME NEW v \in s.versions, P(v.path) = P(r.path)
      PROVE  v.path = r.path
  <2>1. PICK t \in s.rows : t.path = v.path
    BY GoodRows DEF Attached
  <2>2. t = r
    BY <1>3, <2>1 DEF KeyClash
  <2> QED
    BY <2>1, <2>2
<1> HIDE DEF P
<1>4. VersionsMatch(s, r.path, n, P(r.path))
  BY <1>1, <1>2, <1>3 DEF VersionsMatch
<1> QED
  BY <1>4 DEF P

LEMMA NotLike ==
  ASSUME LikeIsExact, NEW s, Good(s), NEW o, NEW new, Target(s, o, new)
  PROVE  /\ o.path \in Path /\ new \in Path /\ Len(new) >= 1 /\ o.dir \in BOOLEAN
         /\ ~LikeBelow(o.path, new)
<1>1. o.path \in Path /\ o.dir \in BOOLEAN
  BY GoodRow DEF Target
<1>2. new \in Path /\ ~Below(o.path, new)
  BY DEF Target, AtOrBelow
<1> QED
  BY <1>1, <1>2, ExactLikeBelow DEF Target

LEMMA MovedReads ==
  ASSUME LikeIsExact, NEW s, Good(s), NEW o, NEW new, Target(s, o, new), NEW r \in s.rows
  PROVE  LET m == MovedRow(o.path, new, o.dir, r)
         IN  /\ m.path = MovedPath(o.path, new, o.dir, r.path)
             /\ m.dir = r.dir /\ m.sum = r.sum /\ m.fav = r.fav /\ m.node = r.node
             /\ m.parent = ParentOf(m.path) /\ m.name = NameOf(m.path)
             /\ r.path # o.path => m.name = r.name
             /\ r.path = o.path => m.path = new
             /\ ~Gone(o.path, o.dir, r) => m = r
<1> DEFINE m == MovedRow(o.path, new, o.dir, r)
<1>1. o.path \in Path /\ new \in Path /\ Len(new) >= 1 /\ o.dir \in BOOLEAN /\ ~LikeBelow(o.path, new)
  BY NotLike
<1>2. r \in RowType /\ Len(r.path) >= 1 /\ Columns(r)
  BY GoodRow DEF Columns
<1>3. m.fav = r.fav /\ m.node = r.node /\ (r.path # o.path => m.name = r.name)
  BY <1>2 DEF MovedRow, RowType
<1>4. m.path = MovedPath(o.path, new, o.dir, r.path) /\ m.dir = r.dir /\ m.sum = r.sum
  BY <1>1, <1>2, MovedRowFields
<1>5. /\ Columns(m) /\ (r.path = o.path => m.path = new)
      /\ ~Gone(o.path, o.dir, r) => m = r
  BY <1>1, <1>2, MovedRowTree
<1> HIDE DEF m
<1>6. m.parent = ParentOf(m.path) /\ m.name = NameOf(m.path)
  BY <1>5 DEF Columns
<1> QED
  BY <1>3, <1>4, <1>5, <1>6 DEF m

\* A folder moves exactly when the rows it holds do.
LEMMA FolderMoves ==
  ASSUME LikeIsExact, NEW s, Good(s), NEW o, NEW new, Target(s, o, new),
         NEW r \in s.rows, r.path # o.path, NEW f \in s.rows, f.path = r.parent
  PROVE  MovedPath(o.path, new, o.dir, f.path) = MovedRow(o.path, new, o.dir, r).parent
<1> DEFINE m == MovedRow(o.path, new, o.dir, r)
           old == o.path
           dir == o.dir
<1>1. old \in Path /\ new \in Path /\ Len(new) >= 1 /\ dir \in BOOLEAN /\ ~LikeBelow(old, new)
  BY NotLike
<1>2. /\ r \in RowType /\ r.path \in Path /\ Len(r.path) >= 1 /\ Columns(r)
      /\ r.parent = ParentOf(r.path) /\ o \in s.rows
  BY GoodRow DEF Columns, Target
<1>3. /\ r.path # old /\ Gone(old, dir, r) => m.parent = Rebase(old, new, r.parent)
      /\ ~Gone(old, dir, r) => m = r
  BY <1>1, <1>2, MovedRowTree
<1>4. /\ Covers(old, f.path) => LikeBelow(old, r.path)
      /\ LikeBelow(old, r.path) => Covers(old, f.path)
  BY <1>1, <1>2, ParentCovered
<1>5. CASE Gone(old, dir, r)
  <2>1. dir /\ LikeBelow(old, r.path)
    BY <1>5 DEF Gone
  <2>2. Covers(old, f.path)
    BY <1>4, <2>1
  <2>3. CASE f.path = old
    <3>1. MovedPath(old, new, dir, f.path) = new
      BY <1>1, <2>3 DEF MovedPath
    <3>2. Rebase(old, new, old) = new
      <4>1. Len(old) \in Nat /\ Len(old) < Len(r.path)
        BY <1>1, <2>1, PathElement DEF LikeBelow
      <4> QED
        BY <1>1, <1>2, <4>1, RebaseParent
    <3> QED
      BY <1>3, <1>5, <2>3, <3>1, <3>2
  <2>4. CASE f.path # old
    <3>1. LikeBelow(old, f.path)
      BY <2>2, <2>4 DEF Covers
    <3>2. MovedPath(old, new, dir, f.path) = Rebase(old, new, f.path)
      BY <2>1, <2>4, <3>1 DEF MovedPath
    <3> QED
      BY <1>3, <1>5, <3>2
  <2> QED
    BY <2>3, <2>4
<1>6. CASE ~Gone(old, dir, r)
  <2>1. m.parent = f.path
    BY <1>3, <1>6
  <2>2. ~(dir /\ Covers(old, f.path))
    BY <1>4, <1>6 DEF Gone
  <2>3. f.path # old
    <3> SUFFICES ASSUME f.path = old PROVE FALSE
      OBVIOUS
    <3>1. f = o
      BY <1>2, GoodRows
    <3>2. Below(f.path, r.path)
      <4>1. AtOrBelow(f.path, ParentOf(r.path))
        BY <1>2 DEF AtOrBelow
      <4> QED
        BY <1>1, <1>2, <4>1, BelowParent
    <3>3. f.dir
      BY <3>2, GoodRows, GoodPlace, FileIsLeaf
    <3> QED
      BY <2>2, <3>1, <3>3 DEF Covers
  <2>4. MovedPath(old, new, dir, f.path) = f.path
    BY <2>2, <2>3 DEF MovedPath, Covers
  <2> QED
    BY <2>1, <2>4
<1> QED
  BY <1>5, <1>6

LEMMA TopStays ==
  ASSUME LikeIsExact, NEW s, Good(s), NEW o, NEW new, Target(s, o, new),
         NEW r \in s.rows, r.path # o.path, r.parent = Root
  PROVE  MovedRow(o.path, new, o.dir, r).parent = Root
<1>1. Len(r.path) = 1 /\ Len(o.path) \in Nat /\ Len(o.path) >= 1
  <2>1. Len(r.path) \in Nat /\ Len(r.parent) = Len(r.path) - 1 /\ Len(r.parent) = 0
    BY GoodRow, RootLength
  <2> QED
    BY <2>1, GoodRow DEF Target
<1>2. ~LikeBelow(o.path, r.path)
  BY <1>1 DEF LikeBelow
<1>3. ~Gone(o.path, o.dir, r)
  BY <1>2 DEF Gone
<1> QED
  BY <1>3, MovedReads

LEMMA LandsAlike ==
  ASSUME LikeIsExact, NEW s, Good(s), NEW n, Good(n), NEW o, NEW new, Shifts(s, n, o, new),
         NEW r \in s.rows, NEW x \in n.rows, Lands(o, new, r, x)
  PROVE  /\ x.node = r.node /\ x.dir = r.dir /\ x.sum = r.sum /\ x.fav = r.fav
         /\ x.path = MovedPath(o.path, new, o.dir, r.path)
         /\ VersionsMatch(s, r.path, n, x.path)
         /\ r.path = o.path => x.path = new
         /\ r.path # o.path => Alike(s, r, n, x) /\ SameEdge(s, r, n, x)
<1> DEFINE m == MovedRow(o.path, new, o.dir, r)
<1>1. /\ m.path = MovedPath(o.path, new, o.dir, r.path)
      /\ m.dir = r.dir /\ m.sum = r.sum /\ m.fav = r.fav /\ m.node = r.node
      /\ m.parent = ParentOf(m.path)
      /\ r.path # o.path => m.name = r.name
      /\ r.path = o.path => m.path = new
  BY MovedReads DEF Shifts
<1>2. /\ x.path = m.path /\ x.name = m.name /\ x.dir = m.dir /\ x.sum = m.sum
      /\ x.fav = m.fav /\ x.node = m.node
      /\ r.path # o.path => x.orig = r.orig
  BY DEF Lands
<1>3. VersionsMatch(s, r.path, n, m.path)
  BY <1>1, MovedVersions DEF Shifts, Target
<1>4. x.parent = m.parent
  BY <1>1, <1>2, GoodRow
<1> HIDE DEF m
<1>5. r.path # o.path => Alike(s, r, n, x)
  BY <1>1, <1>2, <1>3 DEF Alike
<1>6. ASSUME r.path # o.path
      PROVE  SameEdge(s, r, n, x)
  <2>1. r.parent = Root => x.parent = Root
    BY <1>4, <1>6, TopStays DEF m, Shifts
  <2>2. ASSUME NEW f \in s.rows, f.path = r.parent
        PROVE  \E g \in n.rows : g.node = f.node /\ g.path = x.parent
    <3>1. MovedPath(o.path, new, o.dir, f.path) = x.parent
      BY <1>4, <1>6, <2>2, FolderMoves DEF m, Shifts
    <3>2. PICK g \in n.rows : Lands(o, new, f, g)
      BY DEF Shifts
    <3>3. LET l == MovedRow(o.path, new, o.dir, f)
          IN  l.path = MovedPath(o.path, new, o.dir, f.path) /\ l.node = f.node
      BY MovedReads DEF Shifts
    <3> QED
      BY <3>1, <3>2, <3>3 DEF Lands
  <2> QED
    BY <2>1, <2>2 DEF SameEdge
<1> QED
  BY <1>1, <1>2, <1>3, <1>5, <1>6

\* The row of the moved entry, and what its entry keeps.
Shifted(s, n, o, new, k) ==
  /\ k \in n.rows /\ OnlyPuts(s, n, k)
  /\ k.node = o.node /\ k.path = new /\ k.name = NameOf(new) /\ k.parent = ParentOf(new)
  /\ k.dir = o.dir /\ k.fav = o.fav
  /\ DataAt(n, k) = DataAt(s, o) /\ HistoryAt(n, k.path) = HistoryAt(s, o.path)

LEMMA ShiftPuts ==
  ASSUME LikeIsExact, NEW s, Good(s), NEW n, Good(n), NEW o, NEW new, Shifts(s, n, o, new)
  PROVE  \E k \in n.rows : Shifted(s, n, o, new, k)
<1>1. o \in s.rows /\ \A r \in s.rows : r.path = o.path => r = o
  <2>1. o \in s.rows
    BY DEF Shifts, Target
  <2> QED
    BY <2>1, GoodRows
<1>2. PICK k \in n.rows : Lands(o, new, o, k)
  BY <1>1 DEF Shifts
<1>3. /\ k.node = o.node /\ k.dir = o.dir /\ k.sum = o.sum /\ k.fav = o.fav /\ k.path = new
      /\ VersionsMatch(s, o.path, n, new)
  BY <1>1, <1>2, LandsAlike
<1>4. k.name = NameOf(new) /\ k.parent = ParentOf(new)
  BY <1>3, GoodRow
<1>5. ASSUME NEW x \in n.rows, x.node # k.node
      PROVE  \E r \in s.rows : r.node = x.node /\ EntryOf(n, x) = EntryOf(s, r)
  <2>1. PICK r \in s.rows : Lands(o, new, r, x)
    BY DEF Shifts
  <2>2. r.node = x.node /\ r.path # o.path
    <3>1. x.node = r.node
      BY <2>1, LandsAlike
    <3> QED
      BY <1>1, <1>3, <1>5, <3>1
  <2>3. Alike(s, r, n, x) /\ SameEdge(s, r, n, x)
    BY <2>1, <2>2, LandsAlike
  <2> QED
    BY <2>2, <2>3, SameEntryOf
<1>6. ASSUME NEW r \in s.rows PROVE \E x \in n.rows : x.node = r.node
  <2>1. PICK x \in n.rows : Lands(o, new, r, x)
    BY DEF Shifts
  <2> QED
    BY <2>1, LandsAlike
<1>7. OnlyPuts(s, n, k)
  BY <1>5, <1>6, OnePut
<1>8. DataAt(n, k) = DataAt(s, o)
  BY <1>1, <1>3, AlikeFields DEF DataAt
<1>9. HistoryAt(n, k.path) = HistoryAt(s, o.path)
  BY <1>3, HistorySame
<1> QED
  BY <1>3, <1>4, <1>7, <1>8, <1>9 DEF Shifted

\* The folder it moves to stays.
LEMMA ShiftEdge ==
  ASSUME LikeIsExact, NEW s, Good(s), NEW n, Good(n), NEW o, NEW new, Shifts(s, n, o, new),
         NEW k \in n.rows, k.orig = NoPath, NEW d, k.parent = d,
         FolderAt(s.rows, d), ~AtOrBelow(o.path, d)
  PROVE  ParentEntry(n, k) = PlaceAt(s, d)
<1>1. ASSUME NEW f \in s.rows, f.path = d
      PROVE  \E g \in n.rows : g.node = f.node /\ g.path = d
  <2>1. PICK g \in n.rows : Lands(o, new, f, g)
    BY DEF Shifts
  <2>2. g.node = f.node /\ g.path = MovedPath(o.path, new, o.dir, f.path)
    BY <2>1, LandsAlike
  <2>3. o.path \in Path /\ f.path \in Path
    BY GoodRow DEF Shifts, Target
  <2>4. f.path # o.path /\ ~LikeBelow(o.path, f.path)
    BY <1>1, <2>3, ExactLikeBelow DEF AtOrBelow
  <2>5. MovedPath(o.path, new, o.dir, f.path) = f.path
    BY <2>4 DEF MovedPath
  <2> QED
    BY <1>1, <2>2, <2>5
<1> QED
  BY <1>1, EdgeTo

\* The new place is not inside what moves.
LEMMA PlaceOutside ==
  ASSUME EdgesApart, Good(store), NEW o \in store.rows, NEW d, FolderAt(store.rows, d),
         ~AtOrBelow(o.path, d)
  PROVE  PlaceAt(store, d) \notin Tree!Within(o.node)
<1>1. CASE d = Root
  <2>1. PlaceAt(store, d) = Root
    BY <1>1 DEF PlaceAt
  <2>2. DOMAIN EntriesOf(store) = {r.node : r \in store.rows}
    BY EntriesAt
  <2>3. Root \notin DOMAIN EntriesOf(store)
    BY <2>2, GoodRow DEF EdgesApart
  <2> QED
    BY <2>1, <2>3 DEF Tree!Within
<1>2. CASE d # Root
  <2>1. PICK f \in store.rows : f.path = d /\ PlaceAt(store, d) = f.node
    BY <1>2, FolderRow
  <2>2. Tree!Above(f.node) = {t.node : t \in {y \in store.rows : AtOrBelow(y.path, f.path)}}
    BY AboveIs
  <2>3. o.node \notin Tree!Above(f.node)
    <3> SUFFICES ASSUME o.node \in Tree!Above(f.node) PROVE FALSE
      OBVIOUS
    <3>1. PICK t \in store.rows : t.node = o.node /\ AtOrBelow(t.path, f.path)
      BY <2>2
    <3>2. t = o
      BY <3>1, GoodRows
    <3> QED
      BY <2>1, <3>1, <3>2
  <2> QED
    BY <2>1, <2>3 DEF Tree!Within
<1> QED
  BY <1>1, <1>2

\* rename_entry and move_entry.
LEMMA RelinkPuts ==
  ASSUME LikeIsExact, EdgesApart, Good(store), Good(store'), NEW o, ~o.deleted,
         NEW d \in Path, FolderAt(store.rows, d), ~AtOrBelow(o.path, d), NEW name \in Segments,
         \A r \in store.rows : r.path # Child(d, name),
         Shifts(store, store', o, Child(d, name)),
         \A x \in store'.rows : x.node = o.node => x.orig = NoPath
  PROVE  Tree!Relink(o.node, PlaceAt(store, d), name)
<1> DEFINE q == Child(d, name)
           s == store
           n == store'
<1>1. NameOf(q) = name /\ ParentOf(q) = d
  BY ChildPath
<1> HIDE DEF q
<1>2. o \in s.rows /\ o.orig = NoPath
  <2>1. o \in s.rows
    BY DEF Shifts, Target
  <2> QED
    BY <2>1, LiveRow
<1>3. PICK k \in n.rows : Shifted(s, n, o, q, k)
  BY ShiftPuts DEF q
<1> HIDE DEF s, n
<1>4. /\ OnlyPuts(s, n, k) /\ k.node = o.node /\ k.name = name /\ k.parent = d /\ k.dir = o.dir
      /\ k.fav = o.fav /\ k.orig = NoPath
      /\ DataAt(n, k) = DataAt(s, o) /\ HistoryAt(n, k.path) = HistoryAt(s, o.path)
  BY <1>1, <1>3 DEF Shifted, n
<1>5. ParentEntry(n, k) = PlaceAt(s, d)
  BY <1>4, ShiftEdge DEF s, n
<1>6. EntryOf(n, k) = Hung(EntryOf(s, o), PlaceAt(s, d), name)
  <2>1. EntryOf(n, k) = Fields(PlaceAt(s, d), name, o.dir, DataAt(s, o), HistoryAt(s, o.path), o.orig, o.fav)
    BY <1>2, <1>4, <1>5, EntryIs
  <2>2. \A b : /\ Hung(EntryOf(s, o), PlaceAt(s, d), name)
                    = Fields(PlaceAt(s, d), name, o.dir, DataAt(s, o), HistoryAt(s, o.path), o.orig, o.fav)
               /\ Binned(EntryOf(s, o), b)
                    = Fields(TRASH, o.name, o.dir, DataAt(s, o), HistoryAt(s, o.path), b, o.fav)
    BY EntryMoved
  <2> QED
    BY <2>1, <2>2
<1>7. EntriesOf(store)[o.node] = EntryOf(s, o) /\ Tree!IsLive(o.node)
  BY <1>2, EntriesAt, IsLiveIs DEF s
<1>8. Tree!Put(o.node, EntryOf(n, k))
  BY <1>4, PutIs DEF s, n
<1>9. /\ PlaceAt(store, d) \in Tree!Places /\ Tree!Free(PlaceAt(store, d), name)
      /\ PlaceAt(store, d) \notin Tree!Within(o.node)
  BY <1>2, PlaceIs, FreePlace, PlaceOutside DEF s
<1>10. EntryOf(n, k) = Hung(EntriesOf(store)[o.node], PlaceAt(store, d), name)
  BY <1>6, <1>7 DEF s
<1> QED
  BY <1>7, <1>8, <1>9, <1>10 DEF Tree!Relink, Hung

\* The rows after the two UPDATEs of _relocate_subtree.
LEMMA MovedIs ==
  ASSUME LikeIsExact, NEW s, Good(s), NEW o, NEW new, Target(s, o, new), NEW r \in s.rows
  PROVE  LET m == MovedRow(o.path, new, o.dir, r)
         IN  /\ m \in RowType /\ m.orig = r.orig
             /\ r.path # o.path => m.path # new
             /\ r.path = o.path => m.path = new
             /\ Gone(o.path, o.dir, r) \/ m = r
<1> DEFINE m == MovedRow(o.path, new, o.dir, r)
<1>1. o \in s.rows /\ o.path \in Path /\ new \in Path /\ Len(new) >= 1 /\ o.dir \in BOOLEAN
  BY NotLike DEF Target
<1>2. r \in RowType
  BY GoodRow
<1>3. m.orig = r.orig
  BY <1>2 DEF MovedRow, RowType
<1>4. m \in RowType
  <2>1. RowsInv(RelocateRows(s.rows, o.path, new, o.dir))
    BY <1>1, GoodRows, RelocateRowsInv DEF Target
  <2> QED
    BY <2>1 DEF RelocateRows, RowsInv
<1>5. m.path = MovedPath(o.path, new, o.dir, r.path) /\ (r.path = o.path => m.path = new)
      /\ (Gone(o.path, o.dir, r) \/ m = r)
  BY MovedReads
<1> HIDE DEF m
<1>6. MovedPath(o.path, new, o.dir, o.path) = new
  <2>1. MovedRow(o.path, new, o.dir, o).path = MovedPath(o.path, new, o.dir, o.path)
        /\ MovedRow(o.path, new, o.dir, o).path = new
    BY <1>1, MovedReads
  <2> QED
    BY <2>1
<1>7. r.path # o.path => m.path # new
  BY <1>1, <1>5, <1>6 DEF Target, KeyClash
<1> QED
  BY <1>3, <1>4, <1>5, <1>7 DEF m

\* A row of the moved rows, marked as it may be: Gone rows and others.
LEMMA MarkedShifts ==
  ASSUME LikeIsExact, NEW s, Good(s), NEW o, NEW new, Target(s, o, new),
         NEW n, n.versions = RelocateVersions(s.versions, o.path, new, o.dir), NEW k,
         \/ n.rows = RelocateRows(s.rows, o.path, new, o.dir)
         \/ n.rows = Stamped(RelocateRows(s.rows, o.path, new, o.dir), new, k)
         \/ /\ n.rows = Unstamped(RelocateRows(s.rows, o.path, new, o.dir), new)
            /\ Len(o.path) = 3 /\ new[1] # TRASH
  PROVE  Shifts(s, n, o, new)
<1> DEFINE M(r) == MovedRow(o.path, new, o.dir, r)
           A(x) == IF Covers(new, x.path)
                   THEN [x EXCEPT !.deleted = TRUE, !.orig = IF x.path = new THEN k ELSE @] ELSE x
           B(x) == IF Covers(new, x.path) THEN [x EXCEPT !.deleted = FALSE, !.orig = NoPath] ELSE x
<1>1. RelocateRows(s.rows, o.path, new, o.dir) = {M(r) : r \in s.rows}
  BY DEF RelocateRows
<1>2. ASSUME NEW r \in s.rows
      PROVE  /\ M(r) \in RowType /\ M(r).orig = r.orig /\ (r.path # o.path => M(r).path # new)
             /\ Gone(o.path, o.dir, r) \/ M(r) = r
  BY MovedIs
<1>3. ASSUME NEW r \in s.rows
      PROVE  Lands(o, new, r, M(r))
  BY <1>2 DEF Lands
<1> HIDE DEF M
<1>4. ASSUME NEW x \in RowType
      PROVE  /\ A(x).path = x.path /\ A(x).name = x.name /\ A(x).dir = x.dir /\ A(x).sum = x.sum
             /\ A(x).fav = x.fav /\ A(x).node = x.node
             /\ x.path # new => A(x).orig = x.orig
  <2>1. CASE ~Covers(new, x.path)
    BY <2>1
  <2>2. CASE Covers(new, x.path)
    <3> DEFINE d == [x EXCEPT !.deleted = TRUE]
               e == IF x.path = new THEN k ELSE d.orig
               a == [d EXCEPT !.orig = e]
    <3>1. /\ d.path = x.path /\ d.name = x.name /\ d.dir = x.dir /\ d.sum = x.sum
          /\ d.fav = x.fav /\ d.node = x.node /\ d.orig = x.orig /\ "orig" \in DOMAIN d
      BY DEF RowType
    <3>2. A(x) = a
      BY <2>2
    <3> HIDE DEF d, A
    <3>3. /\ a.path = x.path /\ a.name = x.name /\ a.dir = x.dir /\ a.sum = x.sum
          /\ a.fav = x.fav /\ a.node = x.node /\ a.orig = e
      BY <3>1
    <3> HIDE DEF a
    <3> QED
      BY <3>1, <3>2, <3>3
  <2> QED
    BY <2>1, <2>2
<1>12. ASSUME NEW x \in RowType
      PROVE  /\ B(x).path = x.path /\ B(x).name = x.name /\ B(x).dir = x.dir /\ B(x).sum = x.sum
             /\ B(x).fav = x.fav /\ B(x).node = x.node
             /\ \/ B(x).orig = x.orig
                \/ Covers(new, x.path) /\ B(x).orig = NoPath
  <2>1. CASE ~Covers(new, x.path)
    BY <2>1
  <2>2. CASE Covers(new, x.path)
    <3> DEFINE b == [x EXCEPT !.deleted = FALSE, !.orig = NoPath]
    <3>1. /\ b.path = x.path /\ b.name = x.name /\ b.dir = x.dir /\ b.sum = x.sum
          /\ b.fav = x.fav /\ b.node = x.node /\ b.orig = NoPath
      BY DEF RowType
    <3>2. B(x) = b
      BY <2>2
    <3> HIDE DEF b, B
    <3> QED
      BY <2>2, <3>1, <3>2
  <2> QED
    BY <2>1, <2>2
<1>5. Stamped({M(r) : r \in s.rows}, new, k) = {A(M(r)) : r \in s.rows}
  BY DEF Stamped
<1>6. Unstamped({M(r) : r \in s.rows}, new) = {B(M(r)) : r \in s.rows}
  BY DEF Unstamped
<1> HIDE DEF A, B
<1>7. ASSUME NEW r \in s.rows PROVE Lands(o, new, r, A(M(r)))
  BY <1>2, <1>3, <1>4 DEF Lands
<1>8. ASSUME NEW r \in s.rows, Len(o.path) = 3, new[1] # TRASH
      PROVE  Lands(o, new, r, B(M(r)))
  <2>1. r.path # o.path /\ Covers(new, M(r).path) => r.orig = NoPath
    <3> SUFFICES ASSUME Covers(new, M(r).path), r.orig # NoPath, r.path # o.path PROVE FALSE
      OBVIOUS
    <3>1. /\ r.path \in Path /\ Len(r.path) = 3 /\ r.path[1] = TRASH
      BY GoodRow
    <3>2. ~LikeBelow(o.path, r.path)
      BY <1>8, <3>1 DEF LikeBelow
    <3>3. M(r) = r
      BY <1>2, <3>2 DEF Gone
    <3>4. r.path[1] = new[1]
      BY <3>1, <3>3, CoveredFirst DEF Target
    <3> QED
      BY <1>8, <3>1, <3>4
  <2>2. \/ B(M(r)).orig = M(r).orig
        \/ Covers(new, M(r).path) /\ B(M(r)).orig = NoPath
    BY <1>2, <1>12
  <2>3. r.path # o.path => B(M(r)).orig = r.orig
    BY <1>2, <2>1, <2>2
  <2> QED
    BY <1>2, <1>3, <1>12, <2>3 DEF Lands
<1>9. CASE n.rows = {M(r) : r \in s.rows}
  BY <1>3, <1>9 DEF Shifts
<1>10. CASE n.rows = {A(M(r)) : r \in s.rows}
  BY <1>7, <1>10 DEF Shifts
<1>11. CASE n.rows = {B(M(r)) : r \in s.rows} /\ Len(o.path) = 3 /\ new[1] # TRASH
  BY <1>8, <1>11 DEF Shifts
<1> QED
  BY <1>1, <1>5, <1>6, <1>9, <1>10, <1>11

\* delete_entry: the entry hangs from the trash, what is below it hangs from it.
LEMMA TrashPuts ==
  ASSUME LikeIsExact, EdgesApart, Good(store), Good(store'), NEW o \in store.rows, ~o.deleted,
         NEW t \in Path, Len(t) = 3, t[1] = TRASH, NameOf(t) = o.name,
         ~KeyClash(store.rows, o.path, t, o.dir),
         store'.versions = RelocateVersions(store.versions, o.path, t, o.dir),
         store'.rows = Stamped(RelocateRows(store.rows, o.path, t, o.dir), t, o.path)
  PROVE  Tree!Trash(o.node)
<1> DEFINE s == store
           n == store'
<1>1. o.path \in Path /\ Len(o.path) >= 1 /\ o.path[1] # TRASH /\ Len(o.path) \in Nat
  BY GoodRow, LiveRow
<1>2. Target(s, o, t)
  <2>1. ~AtOrBelow(o.path, t)
    BY <1>1, AtOrBelowElements
  <2> QED
    BY <2>1 DEF Target
<1>3. Shifts(s, n, o, t)
  BY <1>2, MarkedShifts
<1>4. PICK k \in n.rows : Shifted(s, n, o, t, k)
  BY <1>3, ShiftPuts
<1>5. k.orig = o.path
  <2>1. RelocateRows(s.rows, o.path, t, o.dir) \subseteq RowType
    BY <1>2, MovedIs DEF RelocateRows
  <2>2. PICK x \in RelocateRows(s.rows, o.path, t, o.dir) :
          k = IF Covers(t, x.path)
              THEN [x EXCEPT !.deleted = TRUE, !.orig = IF x.path = t THEN o.path ELSE @] ELSE x
    BY DEF Stamped
  <2>3. k.path = x.path
    BY <2>1, <2>2 DEF RowType
  <2>4. x.path = t /\ Covers(t, x.path)
    BY <1>4, <2>3 DEF Shifted, Covers
  <2>5. k = [x EXCEPT !.deleted = TRUE, !.orig = o.path]
    BY <2>2, <2>4
  <2> QED
    BY <2>1, <2>5 DEF RowType
<1> HIDE DEF s, n
<1>6. /\ OnlyPuts(s, n, k) /\ k.node = o.node /\ k.name = o.name /\ k.dir = o.dir
      /\ k.fav = o.fav /\ DataAt(n, k) = DataAt(s, o) /\ HistoryAt(n, k.path) = HistoryAt(s, o.path)
  BY <1>4 DEF Shifted
<1>7. ParentEntry(n, k) = TRASH
  <2>1. k.orig # NoPath
    BY <1>1, <1>5, StorageAssumption
  <2> QED
    BY <2>1, ParentEntryIs DEF n
<1>8. EntryOf(n, k) = Binned(EntryOf(s, o), o.path)
  <2>1. EntryOf(n, k) = Fields(TRASH, o.name, o.dir, DataAt(s, o), HistoryAt(s, o.path), o.path, o.fav)
    BY <1>5, <1>6, <1>7, EntryIs
  <2>2. \A a, b : /\ Hung(EntryOf(s, o), a, b)
                       = Fields(a, b, o.dir, DataAt(s, o), HistoryAt(s, o.path), o.orig, o.fav)
                  /\ Binned(EntryOf(s, o), o.path)
                       = Fields(TRASH, o.name, o.dir, DataAt(s, o), HistoryAt(s, o.path), o.path, o.fav)
    BY EntryMoved
  <2> QED
    BY <2>1, <2>2
<1>9. /\ EntriesOf(store)[o.node] = EntryOf(s, o) /\ Tree!IsLive(o.node)
      /\ Tree!PathOf(o.node) = o.path
  BY EntriesAt, IsLiveIs, PathOfIs DEF s
<1>10. Tree!Put(o.node, EntryOf(n, k))
  BY <1>6, PutIs DEF s, n
<1>11. EntryOf(n, k) = Binned(EntriesOf(store)[o.node], Tree!PathOf(o.node))
  BY <1>8, <1>9
<1> QED
  BY <1>9, <1>10, <1>11 DEF Tree!Trash, Binned

\* trash_restore: the entry hangs where it was, under its old name.
LEMMA RestorePuts ==
  ASSUME LikeIsExact, EdgesApart, Good(store), Good(store'), NEW o \in store.rows,
         o.orig \in Path, Len(o.orig) >= 1, o.orig[1] # TRASH,
         FolderAt(store.rows, ParentOf(o.orig)), \A r \in store.rows : r.path # o.orig,
         ~KeyClash(store.rows, o.path, o.orig, o.dir),
         store'.versions = RelocateVersions(store.versions, o.path, o.orig, o.dir),
         store'.rows = Unstamped(RelocateRows(store.rows, o.path, o.orig, o.dir), o.orig)
  PROVE  Tree!Restore(o.node, PlaceAt(store, ParentOf(o.orig)))
<1> DEFINE s == store
           n == store'
           d == ParentOf(o.orig)
           q == o.orig
<1>1. q # NoPath /\ q = Child(d, NameOf(q)) /\ q \in Path /\ Len(q) >= 1
  BY StorageAssumption, PathIsChild
<1>2. o.path \in Path /\ Len(o.path) = 3 /\ o.path[1] = TRASH
  BY <1>1, GoodRow
<1>3. Target(s, o, q)
  <2>1. ~AtOrBelow(o.path, q)
    BY <1>2, AtOrBelowElements
  <2> QED
    BY <2>1 DEF Target
<1>4. Shifts(s, n, o, q)
  BY <1>2, <1>3, MarkedShifts
<1>5. PICK k \in n.rows : Shifted(s, n, o, q, k)
  BY <1>4, ShiftPuts
<1>6. k.orig = NoPath
  <2>1. RelocateRows(s.rows, o.path, q, o.dir) \subseteq RowType
    BY <1>3, MovedIs DEF RelocateRows
  <2>2. PICK x \in RelocateRows(s.rows, o.path, q, o.dir) :
          k = IF Covers(q, x.path) THEN [x EXCEPT !.deleted = FALSE, !.orig = NoPath] ELSE x
    BY DEF Unstamped
  <2>3. k.path = x.path
    BY <2>1, <2>2 DEF RowType
  <2>4. Covers(q, x.path)
    BY <1>5, <2>3 DEF Shifted, Covers
  <2>5. k = [x EXCEPT !.deleted = FALSE, !.orig = NoPath]
    BY <2>2, <2>4
  <2> QED
    BY <2>1, <2>5 DEF RowType
<1>7. FolderAt(s.rows, d) /\ ~AtOrBelow(o.path, d)
  <2>1. FolderAt(s.rows, d)
    OBVIOUS
  <2>2. CASE d = Root
    <3>1. Len(d) = 0 /\ d \in Path
      BY <2>2, RootLength
    <3> QED
      BY <1>2, <2>1, <3>1, AtOrBelowElements
  <2>3. CASE d # Root
    <3>1. PICK f \in s.rows : f.path = d /\ ~f.deleted
      BY <2>1, <2>3, FolderRow
    <3>2. d \in Path /\ d[1] # TRASH
      BY <3>1, GoodRow, LiveRow
    <3> QED
      BY <1>2, <2>1, <3>2, AtOrBelowElements
  <2> QED
    BY <2>2, <2>3
<1> HIDE DEF s, n, q, d
<1>8. /\ OnlyPuts(s, n, k) /\ k.node = o.node /\ k.name = NameOf(q) /\ k.parent = d /\ k.dir = o.dir
      /\ k.fav = o.fav /\ DataAt(n, k) = DataAt(s, o) /\ HistoryAt(n, k.path) = HistoryAt(s, o.path)
  BY <1>5 DEF Shifted, d, q
<1>9. ParentEntry(n, k) = PlaceAt(s, d)
  BY <1>4, <1>6, <1>7, <1>8, ShiftEdge DEF s, n
<1>10. EntryOf(n, k) = HungBack(EntryOf(s, o), PlaceAt(s, d), NameOf(q))
  <2>1. EntryOf(n, k) = Fields(PlaceAt(s, d), NameOf(q), o.dir, DataAt(s, o), HistoryAt(s, o.path),
                               NoPath, o.fav)
    BY <1>6, <1>8, <1>9, EntryIs
  <2>2. \A b : /\ HungBack(EntryOf(s, o), PlaceAt(s, d), NameOf(q))
                    = Fields(PlaceAt(s, d), NameOf(q), o.dir, DataAt(s, o), HistoryAt(s, o.path),
                             NoPath, o.fav)
               /\ Binned(EntryOf(s, o), b)
                    = Fields(TRASH, o.name, o.dir, DataAt(s, o), HistoryAt(s, o.path), b, o.fav)
    BY EntryMoved
  <2> QED
    BY <2>1, <2>2
<1>11. /\ EntriesOf(store)[o.node] = EntryOf(s, o) /\ o.node \in DOMAIN EntriesOf(store)
       /\ EntriesOf(store)[o.node].orig = q /\ EntriesOf(store)[o.node].parent = TRASH
  <2>1. ParentEntry(store, o) = TRASH
    BY <1>1, ParentEntryIs DEF q
  <2> QED
    BY <2>1, EntriesAt, EntryReads DEF s, q
<1>12. Tree!Put(o.node, EntryOf(n, k))
  BY <1>8, PutIs DEF s, n
<1>13. /\ PlaceAt(store, d) \in Tree!Places /\ Tree!Free(PlaceAt(store, d), NameOf(q))
       /\ (IF PlaceAt(store, d) = Root THEN << >> ELSE Tree!PathOf(PlaceAt(store, d))) = d
  <2>1. \A r \in store.rows : r.path # Child(d, NameOf(q))
    BY <1>1 DEF q
  <2> QED
    BY <1>7, <2>1, PlaceIs, FreePlace DEF s
<1>14. NameOf(q) = q[Len(q)] /\ d = SubSeq(q, 1, Len(q) - 1)
  BY DEF NameOf, ParentOf, d, q
<1>15. EntryOf(n, k) = HungBack(EntriesOf(store)[o.node], PlaceAt(store, d), q[Len(q)])
  BY <1>10, <1>11, <1>14 DEF s
<1>16. Tree!Restore(o.node, PlaceAt(store, d))
  BY <1>11, <1>12, <1>13, <1>14, <1>15 DEF Tree!Restore, HungBack
<1> QED
  BY <1>16 DEF d

\* trash_purge and trash_empty: whole subtrees of the trash go.
LEMMA PurgePuts ==
  ASSUME LikeIsExact, EdgesApart, Good(store), Good(store'),
         NEW roots \in SUBSET store.rows, roots # {}, \A t \in roots : t.orig # NoPath,
         store'.rows = {r \in store.rows : ~CoveredBy(roots, r.path)},
         store'.versions = {v \in store.versions : ~CoveredBy(roots, v.path)}
  PROVE  Tree!Purge({t.node : t \in roots})
<1> DEFINE s == store
           n == store'
           R == {t.node : t \in roots}
           gone == UNION {Tree!Within(m) : m \in R}
           D == DOMAIN EntriesOf(store)
<1>1. D = {r.node : r \in s.rows} /\ DOMAIN EntriesOf(n) = {r.node : r \in n.rows}
  BY EntriesAt
<1>2. ASSUME NEW r \in s.rows
      PROVE  r.node \in gone <=> CoveredBy(roots, r.path)
  <2>1. Tree!Above(r.node) = {t.node : t \in {y \in store.rows : AtOrBelow(y.path, r.path)}}
    BY AboveIs
  <2>2. r.node \in gone <=> \E t \in roots : t.node \in Tree!Above(r.node)
    BY <1>1 DEF Tree!Within
  <2>3. ASSUME NEW t \in roots
        PROVE  t.node \in Tree!Above(r.node) <=> AtOrBelow(t.path, r.path)
    BY <2>1, GoodRows
  <2>4. ASSUME NEW t \in roots
        PROVE  AtOrBelow(t.path, r.path) <=> Covers(t.path, r.path)
    BY GoodRow, ExactLikeBelow DEF AtOrBelow, Covers
  <2> QED
    BY <2>2, <2>3, <2>4 DEF CoveredBy
<1> HIDE DEF gone
<1>3. DOMAIN EntriesOf(n) = D \ gone
  <2>1. \A r \in s.rows : r \in n.rows <=> r.node \notin gone
    BY <1>2
  <2>2. n.rows \subseteq s.rows
    OBVIOUS
  <2> HIDE DEF n, s, D
  <2> QED
    BY <1>1, <2>1, <2>2
<1>4. ASSUME NEW x \in n.rows
      PROVE  x \in s.rows /\ EntryOf(n, x) = EntryOf(s, x)
  <2>1. x \in s.rows /\ ~CoveredBy(roots, x.path)
    OBVIOUS
  <2>2. Alike(s, x, n, x)
    BY <2>1 DEF Alike, VersionsMatch
  <2>3. ASSUME NEW f \in s.rows, f.path = x.parent
        PROVE  f \in n.rows
    <3>1. x.path \in Path /\ Len(x.path) >= 1 /\ f.path = ParentOf(x.path)
      BY <2>1, <2>3, GoodRow
    <3>2. \A t \in roots : t.path \in Path
      BY GoodRow
    <3>3. ~CoveredBy(roots, f.path)
      BY <2>1, <3>1, <3>2, ParentCovered DEF CoveredBy, Covers
    <3> QED
      BY <3>3
  <2>4. SameEdge(s, x, n, x)
    BY <2>3 DEF SameEdge
  <2> QED
    BY <2>1, <2>2, <2>4, SameEntryOf
<1>5. ASSUME NEW m \in D \ gone
      PROVE  EntriesOf(n)[m] = EntriesOf(s)[m]
  <2>1. PICK x \in n.rows : x.node = m
    BY <1>1, <1>3
  <2>2. x \in s.rows /\ EntryOf(n, x) = EntryOf(s, x)
    BY <1>4
  <2> QED
    BY <2>1, <2>2, EntriesAt
<1>6. EntriesOf(n) = [m \in DOMAIN EntriesOf(n) |-> EntriesOf(n)[m]]
  BY DEF EntriesOf
<1> HIDE DEF D, s, n
<1>7. EntriesOf(n) = [m \in D \ gone |-> EntriesOf(s)[m]]
  BY <1>3, <1>5, <1>6
<1>8. \A m \in R : EntriesOf(store)[m].parent = TRASH
  <2>1. \A t \in roots : EntriesOf(store)[t.node].parent = TRASH
    BY EntryReads, ParentEntryIs
  <2> QED
    BY <2>1
<1>9. R # {}
  OBVIOUS
<1> HIDE DEF R
<1>10. EntriesOf(store)' = EntriesOf(n)
  BY DEF n
<1> QED
  BY <1>7, <1>8, <1>9, <1>10 DEF Tree!Purge, gone, D, s, R

\* rename_entry and move_entry, from their guards.
LEMMA RelocatePuts ==
  ASSUME LikeIsExact, EdgesApart, Good(store), Good(store'), NEW o \in store.rows, ~o.deleted,
         NEW d \in Path, FolderAt(store.rows, d), o.dir => ~AtOrBelow(o.path, d),
         NEW name \in Segments, Child(d, name) # o.path,
         \A r \in store.rows : r.path # Child(d, name),
         ~KeyClash(store.rows, o.path, Child(d, name), o.dir),
         store'.versions = RelocateVersions(store.versions, o.path, Child(d, name), o.dir),
         store'.rows = RelocateRows(store.rows, o.path, Child(d, name), o.dir)
  PROVE  Tree!Relink(o.node, PlaceAt(store, d), name)
<1> DEFINE q == Child(d, name)
<1>1. q \in Path /\ Len(q) >= 1 /\ ParentOf(q) = d
  BY ChildPath, PathElement
<1>2. o.path \in Path /\ Len(o.path) >= 1 /\ o.orig = NoPath
  BY GoodRow, LiveRow
<1>3. ASSUME AtOrBelow(o.path, d)
      PROVE  o.dir
  <2>1. d # Root
    BY <1>2, <1>3, RootLength, AtOrBelowElements
  <2>2. PICK f \in store.rows : f.path = d /\ f.dir
    BY <2>1, FolderRow
  <2>3. CASE d = o.path
    BY <2>2, <2>3, GoodRows
  <2>4. CASE Below(o.path, f.path)
    BY <2>4, GoodRows, GoodPlace, FileIsLeaf
  <2> QED
    BY <1>3, <2>2, <2>3, <2>4 DEF AtOrBelow
<1>4. ~AtOrBelow(o.path, d)
  BY <1>3
<1>5. ~AtOrBelow(o.path, q)
  BY <1>1, <1>2, <1>4, BelowParent DEF AtOrBelow
<1>6. Target(store, o, q)
  BY <1>1, <1>5 DEF Target
<1>7. Shifts(store, store', o, q)
  BY <1>6, MarkedShifts
<1>8. ASSUME NEW x \in store'.rows, x.node = o.node
      PROVE  x.orig = NoPath
  <2>1. PICK r \in store.rows : x = MovedRow(o.path, q, o.dir, r)
    BY DEF RelocateRows
  <2>2. x.node = r.node /\ x.orig = r.orig
    BY <1>6, <2>1, MovedReads, MovedIs
  <2>3. r = o
    BY <1>8, <2>2, GoodRows
  <2> QED
    BY <1>2, <2>2, <2>3
<1> QED
  BY <1>4, <1>7, <1>8, RelinkPuts

----------------------------------------------------------------------------
(* The steps of FileTree.                                                  *)

LEMMA CreateNext ==
  ASSUME NEW n \in Nodes, NEW parent, NEW name \in Names, NEW dir \in BOOLEAN,
         NEW c \in Contents \cup {NoPath}, Tree!Create(n, parent, name, dir, c)
  PROVE  Tree!Next
<1>1. parent \in Tree!Places
  BY DEF Tree!Create
<1> QED
  BY <1>1, Zenon DEF Tree!Next

LEMMA OverwriteNext ==
  ASSUME NEW n \in DOMAIN EntriesOf(store), NEW c \in Contents, Tree!Overwrite(n, c)
  PROVE  Tree!Next
BY Zenon DEF Tree!Next

LEMMA RollBackNext ==
  ASSUME NEW n \in DOMAIN EntriesOf(store), NEW i \in DOMAIN EntriesOf(store)[n].history,
         Tree!RollBack(n, i)
  PROVE  Tree!Next
BY Zenon DEF Tree!Next

LEMMA RelinkNext ==
  ASSUME NEW n \in DOMAIN EntriesOf(store), NEW parent,
         NEW name \in Names \cup {EntriesOf(store)[n].name}, Tree!Relink(n, parent, name)
  PROVE  Tree!Next
<1>1. parent \in Tree!Places
  BY DEF Tree!Relink
<1> QED
  BY <1>1, Zenon DEF Tree!Next

LEMMA TrashNext ==
  ASSUME NEW n \in DOMAIN EntriesOf(store), Tree!Trash(n)
  PROVE  Tree!Next
BY Zenon DEF Tree!Next

LEMMA RestoreNext ==
  ASSUME NEW n \in DOMAIN EntriesOf(store), NEW parent, Tree!Restore(n, parent)
  PROVE  Tree!Next
<1>1. parent \in Tree!Places
  BY DEF Tree!Restore
<1> QED
  BY <1>1, Zenon DEF Tree!Next

LEMMA FavorNext ==
  ASSUME NEW n \in DOMAIN EntriesOf(store), NEW b \in BOOLEAN, Tree!Favor(n, b)
  PROVE  Tree!Next
BY Zenon DEF Tree!Next

LEMMA PurgeNext ==
  ASSUME NEW roots \in SUBSET DOMAIN EntriesOf(store), Tree!Purge(roots)
  PROVE  Tree!Next
BY Zenon DEF Tree!Next

LEMMA EntriesStep ==
  ASSUME LikeIsExact, {TRASH, VERSIONS} \cap Names = {}, EdgesApart
  PROVE  DiskIInv /\ NodesUnique(store.rows) /\ [Next]_vars => [Tree!Next]_(EntriesOf(store))
<1> SUFFICES ASSUME DiskIInv, NodesUnique(store.rows), [Next]_vars, ~UNCHANGED vars
             PROVE  Tree!Next
  BY DEF vars
<1>1. Good(store) /\ Good(store')
  <2>1. DiskIInv' /\ NodesUnique(store'.rows)
    BY MirrorStep, CarriedStep
  <2>2. Good(store)
    BY DEF Good, DiskIInv, TreeIInv, TrashIInv
  <2>3. Good(store')
    BY <2>1 DEF Good, DiskIInv, TreeIInv, TrashIInv
  <2> QED
    BY <2>2, <2>3
<1>2. /\ StoreInv(store) /\ MarksInv(store.rows) /\ TreeInv(store.rows) /\ MirrorInv(store)
      /\ store \in StoreType /\ RowsInv(store.rows) /\ Stored(store) /\ Rooted(Bytes(store.rows))
      /\ Unreserved(store.rows)
  BY <1>1, GoodRows DEF Good, MirrorInv
<1>3. \A s : Become(s) => store' = s
  BY DEF Become
<1>4. ASSUME NEW p, Live(store, p)
      PROVE  /\ p \in Path /\ Len(p) >= 1 /\ p[1] # TRASH
             /\ FolderAt(store.rows, ParentOf(p)) /\ ~Covers(p, ParentOf(p)) /\ ParentOf(p) \in Path
             /\ RowAt(store, p) \in store.rows /\ RowAt(store, p).path = p
             /\ ~RowAt(store, p).deleted
             /\ RowAt(store, p).dir \in BOOLEAN /\ RowAt(store, p).name \in Segments
             /\ RowAt(store, p).node \in DOMAIN EntriesOf(store)
  <2>1. /\ p \in Path /\ Len(p) >= 1 /\ p[1] # TRASH
        /\ FolderAt(store.rows, ParentOf(p)) /\ ~Covers(p, ParentOf(p))
        /\ RowAt(store, p) \in store.rows /\ RowAt(store, p).path = p
        /\ RowAt(store, p).dir \in BOOLEAN /\ RowAt(store, p).name \in Segments
        /\ \A t \in store.rows : t.path = p => t = RowAt(store, p) /\ t.deleted = FALSE
    BY <1>2, <1>4, LiveParent
  <2>2. RowAt(store, p).node \in DOMAIN EntriesOf(store)
    BY <1>1, <2>1, EntriesAt
  <2>3. ~RowAt(store, p).deleted
    BY <2>1
  <2> QED
    BY <2>1, <2>2, <2>3, ParentPath
<1>5. ASSUME NEW q, q[1] # TRASH, ~Live(store, q)
      PROVE  ~HasKey(store, q) /\ \A r \in store.rows : r.path # q
  BY <1>1, <1>5, GoodRow DEF Live, HasKey
<1>6. ASSUME NEW d, IsFolder(store, d)
      PROVE  FolderAt(store.rows, d) /\ d \in Path /\ (d # Root => Plain(d) /\ d[1] # TRASH)
  <2>1. \A r \in store.rows : r.deleted \in BOOLEAN
    BY <1>1, GoodRow
  <2>2. FolderAt(store.rows, d) /\ d \in Path
    BY <1>2, <1>6, <2>1, FolderPath DEF IsFolder, FolderAt
  <2>3. CASE d # Root
    <3>1. PICK f \in store.rows : f.path = d /\ ~f.deleted
      BY <1>1, <2>2, <2>3, FolderRow
    <3> QED
      BY <1>1, <1>2, <2>2, <3>1, LiveRow DEF Unreserved
  <2> QED
    BY <2>2, <2>3
<1>7. \A d \in Folders : IsFolder(store, d)
  BY DEF Folders, IsFolder
<1>8. ASSUME NEW d, IsFolder(store, d), NEW name \in Segments, name # VERSIONS, name # TRASH
      PROVE  LET q == Child(d, name)
             IN  /\ q \in Path /\ Len(q) >= 1 /\ q[1] \notin {TRASH, VERSIONS} /\ IsPlace(q)
                 /\ ParentOf(q) = d
  <2> DEFINE q == Child(d, name)
  <2>1. d \in Path /\ (d # Root => d[1] # VERSIONS /\ d[1] # TRASH)
    BY <1>6, <1>8 DEF Plain
  <2>2. /\ q \in Path /\ Len(q) = Len(d) + 1 /\ ParentOf(q) = d /\ NameOf(q) = name
        /\ \A i \in 1 .. Len(d) : q[i] = d[i]
    BY <2>1, ChildPath
  <2> HIDE DEF q
  <2>3. Len(d) \in Nat /\ (Len(d) = 0 => d = Root)
    BY <2>1, PathElement, RootLength
  <2>4. CASE Len(d) = 0
    <3>1. q[1] = name /\ Len(q) = 1
      BY <2>2, <2>4 DEF NameOf
    <3> QED
      BY <1>8, <2>2, <3>1 DEF IsPlace, q
  <2>5. CASE Len(d) >= 1
    <3>1. d # Root /\ q[1] = d[1] /\ Len(q) >= 1
      BY <2>2, <2>3, <2>5, RootLength
    <3> QED
      BY <2>1, <2>2, <3>1 DEF IsPlace, q
  <2> QED
    BY <2>3, <2>4, <2>5
<1>9. \A name \in Names : name \in Segments /\ name # VERSIONS /\ name # TRASH
  BY FilesystemAssumption
<1>10. ASSUME NEW d \in Folders, NEW name \in Names, ~Live(store, Child(d, name)), NEW c, NEW node
       PROVE  LET p == Child(d, name)
              IN  /\ Inserted(AddStream(store, p, c, node), store, NewRow(p, FALSE, c, node))
                  /\ Inserted(AddFolder(store, p, node), store, NewRow(p, TRUE, NoSum, node))
                  /\ \A r \in store.rows : r.path # p
  <2> DEFINE p == Child(d, name)
  <2>1. /\ p \in Path /\ Len(p) >= 1 /\ p[1] \notin {TRASH, VERSIONS} /\ IsPlace(p)
        /\ FolderAt(store.rows, ParentOf(p))
    BY <1>6, <1>7, <1>8, <1>9
  <2>2. ~HasKey(store, p) /\ \A r \in store.rows : r.path # p
    BY <1>5, <1>10, <2>1
  <2> HIDE DEF p
  <2>3. RoomAt(Bytes(store.rows), p)
    BY <1>2, <2>1, RoomUnder
  <2>4. /\ Inserted(AddStream(store, p, c, node), store, NewRow(p, FALSE, c, node))
        /\ Inserted(AddFolder(store, p, node), store, NewRow(p, TRUE, NoSum, node))
    BY <1>2, <2>1, <2>2, <2>3, AddedStored
  <2> QED
    BY <2>2, <2>4 DEF p
<1>11. ASSUME NEW d \in Folders, NEW name \in Names, NEW c \in Contents, NEW n \in Nodes,
              Upload(d, name, c, n)
       PROVE  Tree!Next
  <2>1. /\ ~Live(store, Child(d, name)) /\ FreshNode(n)
        /\ store' = AddStream(store, Child(d, name), c, n)
    BY <1>3, <1>11 DEF Upload
  <2>2. /\ store'.rows = store.rows \cup {NewRow(Child(d, name), FALSE, c, n)}
        /\ store'.versions = store.versions /\ \A r \in store.rows : r.path # Child(d, name)
    <3>1. /\ Inserted(AddStream(store, Child(d, name), c, n), store, NewRow(Child(d, name), FALSE, c, n))
          /\ \A r \in store.rows : r.path # Child(d, name)
      BY <1>10, <2>1, Zenon
    <3> QED
      BY <2>1, <3>1 DEF Inserted
  <2>3. FolderAt(store.rows, d) /\ d \in Path /\ name \in Segments
    BY <1>6, <1>7, <1>9
  <2>4. \A dir \in BOOLEAN : ~dir => Tree!Create(n, PlaceAt(store, d), name, dir, IF dir THEN NoPath ELSE c)
    <3> SUFFICES ASSUME NEW dir \in BOOLEAN, ~dir
                 PROVE  Tree!Create(n, PlaceAt(store, d), name, dir, IF dir THEN NoPath ELSE c)
      OBVIOUS
    <3>1. store'.rows = store.rows \cup {NewRow(Child(d, name), dir, c, n)}
      BY <2>2
    <3> QED
      BY <1>1, <2>1, <2>2, <2>3, <3>1, CreatePuts
  <2>5. \E dir \in BOOLEAN : Tree!Create(n, PlaceAt(store, d), name, dir, c)
    BY <2>4
  <2>6. c \in Contents \cup {NoPath}
    OBVIOUS
  <2> QED
    BY <2>5, <2>6, CreateNext
<1>12. ASSUME NEW d \in Folders, NEW name \in Names, NEW n \in Nodes, CreateFolder(d, name, n)
       PROVE  Tree!Next
  <2>1. /\ ~Live(store, Child(d, name)) /\ FreshNode(n)
        /\ store' = AddFolder(store, Child(d, name), n)
    BY <1>3, <1>12 DEF CreateFolder
  <2>2. /\ store'.rows = store.rows \cup {NewRow(Child(d, name), TRUE, NoSum, n)}
        /\ store'.versions = store.versions /\ \A r \in store.rows : r.path # Child(d, name)
    <3>1. /\ Inserted(AddFolder(store, Child(d, name), n), store, NewRow(Child(d, name), TRUE, NoSum, n))
          /\ \A r \in store.rows : r.path # Child(d, name)
      BY <1>10, <2>1, Zenon
    <3> QED
      BY <2>1, <3>1 DEF Inserted
  <2>3. FolderAt(store.rows, d) /\ d \in Path /\ name \in Segments
    BY <1>6, <1>7, <1>9
  <2>4. \A dir \in BOOLEAN : dir => Tree!Create(n, PlaceAt(store, d), name, dir, IF dir THEN NoPath ELSE NoSum)
    <3> SUFFICES ASSUME NEW dir \in BOOLEAN, dir
                 PROVE  Tree!Create(n, PlaceAt(store, d), name, dir, IF dir THEN NoPath ELSE NoSum)
      OBVIOUS
    <3>1. store'.rows = store.rows \cup {NewRow(Child(d, name), dir, NoSum, n)}
      BY <2>2
    <3> QED
      BY <1>1, <2>1, <2>2, <2>3, <3>1, CreatePuts
  <2>5. \E dir \in BOOLEAN : Tree!Create(n, PlaceAt(store, d), name, dir, NoPath)
    BY <2>4
  <2>6. NoPath \in Contents \cup {NoPath}
    OBVIOUS
  <2> QED
    BY <2>5, <2>6, CreateNext
<1>13. ASSUME NEW p, NEW c \in Contents, NEW ref \in Refs, UploadOver(p, c, ref) \/ SaveContent(p, c, ref)
       PROVE  Tree!Next
  <2> DEFINE node == RowAt(store, p).node
  <2>1. IsFile(store, p) /\ \A e \in store.disk : e.path # Blob(ref)
    BY <1>13 DEF UploadOver, SaveContent, FreshRef
  <2>2. p[1] # TRASH /\ node \in DOMAIN EntriesOf(store)
    BY <1>4, <2>1 DEF IsFile, Live
  <2>3. /\ Replaced(store, AddStream(Overwritten(store, p, ref), p, c, node), p, ref, c, node)
        /\ Replaced(store, AddBytes(Overwritten(store, p, ref), p, c, node), p, ref, c, node)
    BY <1>2, <2>1, <2>2, OverwriteMirror
  <2>4. \/ store' = AddStream(Overwritten(store, p, ref), p, c, node)
        \/ store' = AddBytes(Overwritten(store, p, ref), p, c, node)
    BY <1>3, <1>13 DEF UploadOver, SaveContent
  <2>5. Swapped(store, store', p, ref, c, node)
    BY <2>3, <2>4 DEF Replaced
  <2>6. Tree!Overwrite(node, c)
    BY <1>1, <2>1, <2>5, OverwritePuts
  <2> QED
    BY <2>2, <2>6, OverwriteNext
<1>14. ASSUME NEW p, NEW v \in store.versions, NEW ref \in Refs, RestoreVersion(p, v, ref)
       PROVE  Tree!Next
  <2> DEFINE s == Snapshot(store, p, ref)
             n == RolledBack(s, p, v)
  <2>1. IsFile(store, p) /\ store' = n /\ v \in VersionsAt(store, p)
    BY <1>3, <1>14 DEF RestoreVersion
  <2>2. StoreInv(s) /\ s.rows = store.rows
    BY <1>2, <2>1, SnapshotInv, OverwrittenRows
  <2>3. n.rows = Rehashed(store.rows, p, v.sum) /\ n.versions = s.versions
    <3> HIDE DEF s
    <3>1. s = [rows |-> s.rows, versions |-> s.versions, disk |-> s.disk]
      BY <2>2 DEF StoreInv, StoreType
    <3>2. \A a, b : LET m == [[s EXCEPT !.disk = a] EXCEPT !.rows = b]
                    IN  m.rows = b /\ m.versions = s.versions
      BY <3>1
    <3> QED
      BY <2>2, <3>1, <3>2 DEF RolledBack
  <2> HIDE DEF n
  <2>4. /\ v.no \in DOMAIN EntriesOf(store)[RowAt(store, p).node].history
        /\ Tree!RollBack(RowAt(store, p).node, v.no)
    BY <1>1, <2>1, <2>3, RollBackPuts
  <2>5. RowAt(store, p).node \in DOMAIN EntriesOf(store)
    BY <1>4, <2>1 DEF IsFile, Live
  <2> QED
    BY <2>4, <2>5, RollBackNext
<1>15. ASSUME NEW p, NEW d, Live(store, p), IsFolder(store, d),
              RowAt(store, p).dir => ~AtOrBelow(p, d), NEW name \in Segments, name # VERSIONS, name # TRASH,
              Child(d, name) # p, ~Live(store, Child(d, name)),
              CanRelocate(p, Child(d, name)), Become(Relocated(p, Child(d, name)))
       PROVE  /\ RowAt(store, p).node \in DOMAIN EntriesOf(store)
              /\ Tree!Relink(RowAt(store, p).node, PlaceAt(store, d), name)
  <2> DEFINE o == RowAt(store, p)
             q == Child(d, name)
  <2>1. /\ o \in store.rows /\ o.path = p /\ ~o.deleted /\ o.node \in DOMAIN EntriesOf(store)
    BY <1>4, <1>15
  <2>2. FolderAt(store.rows, d) /\ d \in Path /\ q[1] \notin {TRASH, VERSIONS}
    BY <1>6, <1>8, <1>15
  <2>3. \A r \in store.rows : r.path # q
    BY <1>5, <1>15, <2>2
  <2>4. ~KeyClash(store.rows, p, q, o.dir) /\ store' = Relocate(store, p, q, o.dir)
    BY <1>3, <1>15 DEF CanRelocate, Relocated, RelocateFails
  <2>5. /\ store'.rows = RelocateRows(store.rows, p, q, o.dir)
        /\ store'.versions = RelocateVersions(store.versions, p, q, o.dir)
    BY <2>4 DEF Relocate
  <2>6. o.dir => ~AtOrBelow(o.path, d)
    BY <1>15, <2>1
  <2>7. q # p
    BY <1>15
  <2> HIDE DEF o
  <2> QED
    BY <1>1, <2>1, <2>2, <2>3, <2>4, <2>5, <2>6, <2>7, RelocatePuts DEF o
<1>16. ASSUME NEW p, NEW name \in Names, Rename(p, name)
       PROVE  Tree!Next
  <2> DEFINE d == ParentOf(p)
  <2>1. /\ Live(store, p) /\ ~Live(store, Child(d, name)) /\ Child(d, name) # p
        /\ CanRelocate(p, Child(d, name)) /\ Become(Relocated(p, Child(d, name)))
    BY <1>16 DEF Rename
  <2>2. IsFolder(store, d) /\ ~AtOrBelow(p, d)
    <3>1. p \in Path /\ d \in Path /\ FolderAt(store.rows, d) /\ ~Covers(p, d)
      BY <1>4, <2>1
    <3>2. ~AtOrBelow(p, d)
      BY <3>1, ExactLikeBelow DEF AtOrBelow, Covers
    <3> QED
      BY <3>1, <3>2 DEF FolderAt, IsFolder
  <2> HIDE DEF d
  <2>3. /\ RowAt(store, p).node \in DOMAIN EntriesOf(store)
        /\ Tree!Relink(RowAt(store, p).node, PlaceAt(store, d), name)
    BY <1>9, <1>15, <2>1, <2>2
  <2> QED
    BY <2>3, RelinkNext
<1>17. ASSUME NEW p, NEW d \in Folders, Move(p, d)
       PROVE  Tree!Next
  <2> DEFINE name == RowAt(store, p).name
  <2>1. /\ Live(store, p) /\ ~Live(store, Child(d, name)) /\ Child(d, name) # p
        /\ CanRelocate(p, Child(d, name)) /\ Become(Relocated(p, Child(d, name)))
        /\ ~(RowAt(store, p).dir /\ (d = p \/ Below(p, d)))
    BY <1>17 DEF Move
  <2>2. RowAt(store, p) \in store.rows /\ RowAt(store, p).path = p
    BY <1>4, <2>1
  <2>3. name \in Segments /\ name # VERSIONS /\ name # TRASH
    <3>1. name = NameOf(p) /\ name \in Segments
      BY <1>1, <1>4, <2>1, <2>2, GoodRow
    <3>2. NameOf(p) # VERSIONS
      BY <1>2, <2>2 DEF Unreserved, Plain
    <3>3. name # TRASH
      BY <1>2, <2>2 DEF MarksInv, NamesInv
    <3> QED
      BY <3>1, <3>2, <3>3
  <2>4. RowAt(store, p).dir => ~AtOrBelow(p, d)
    BY <2>1 DEF AtOrBelow
  <2>5. EntriesOf(store)[RowAt(store, p).node].name = name
    BY <1>1, <2>2, EntryReads
  <2> HIDE DEF name
  <2>6. /\ RowAt(store, p).node \in DOMAIN EntriesOf(store)
        /\ Tree!Relink(RowAt(store, p).node, PlaceAt(store, d), name)
    BY <1>7, <1>15, <2>1, <2>3, <2>4
  <2> QED
    BY <2>5, <2>6, RelinkNext
<1>18. ASSUME NEW p, NEW id \in TrashIds, Delete(p, id)
       PROVE  Tree!Next
  <2> DEFINE o == RowAt(store, p)
             t == TrashPath(id, o.name)
             moved == Relocate(store, p, t, o.dir)
  <2>1. /\ Live(store, p) /\ id \in Segments /\ CanRelocate(p, t)
        /\ store' = [moved EXCEPT !.rows = Stamped(moved.rows, t, p)]
    BY <1>3, <1>18, FilesystemAssumption DEF Delete, SoftDelete
  <2>2. /\ o \in store.rows /\ o.path = p /\ o.name \in Segments /\ ~o.deleted
        /\ o.node \in DOMAIN EntriesOf(store)
    BY <1>4, <2>1
  <2>3. ~KeyClash(store.rows, p, t, o.dir)
    BY <2>1 DEF CanRelocate, RelocateFails
  <2>4. /\ store'.rows = Stamped(RelocateRows(store.rows, p, t, o.dir), t, p)
        /\ store'.versions = RelocateVersions(store.versions, p, t, o.dir)
    <3> HIDE DEF o, t
    <3>1. moved = [rows |-> RelocateRows(store.rows, p, t, o.dir),
                   versions |-> RelocateVersions(store.versions, p, t, o.dir),
                   disk |-> RenameOn(store.disk, p, t)]
      BY DEF Relocate
    <3> HIDE DEF moved
    <3> QED
      BY <2>1, <3>1
  <2> HIDE DEF o
  <2>5. /\ t \in Path /\ Len(t) = 3 /\ t[1] = TRASH /\ NameOf(t) = o.name
    BY <2>1, <2>2, StorageAssumption DEF TrashPath, Path, NameOf
  <2> HIDE DEF t
  <2>6. Tree!Trash(o.node)
    BY <1>1, <2>2, <2>3, <2>4, <2>5, TrashPuts
  <2> QED
    BY <2>2, <2>6, TrashNext
<1>19. ASSUME NEW root \in TrashRoots(store), Restore(root)
       PROVE  Tree!Next
  <2> DEFINE moved == Relocate(store, root.path, root.orig, root.dir)
  <2>1. /\ root \in store.rows /\ root.orig # NoPath
        /\ root.path \in Path /\ root.orig \in Path /\ Len(root.orig) >= 1
    BY <1>2 DEF TrashRoots, RowType, RowsInv
  <2>2. root.orig[1] # TRASH /\ root.node \in DOMAIN EntriesOf(store)
    <3>1. root.orig[1] # TRASH
      BY <1>1, <2>1, GoodRows DEF TrashInv
    <3> QED
      BY <1>1, <2>1, <3>1, EntriesAt
  <2>3. /\ ~Live(store, root.orig) /\ IsFolder(store, ParentOf(root.orig))
        /\ ~KeyClash(store.rows, root.path, root.orig, root.dir)
        /\ store' = [moved EXCEPT !.rows = Unstamped(moved.rows, root.orig)]
    BY <1>3, <1>19 DEF Restore, Restored, RelocateFails
  <2>4. /\ store'.rows = Unstamped(RelocateRows(store.rows, root.path, root.orig, root.dir), root.orig)
        /\ store'.versions = RelocateVersions(store.versions, root.path, root.orig, root.dir)
    <3>1. moved = [rows |-> RelocateRows(store.rows, root.path, root.orig, root.dir),
                   versions |-> RelocateVersions(store.versions, root.path, root.orig, root.dir),
                   disk |-> RenameOn(store.disk, root.path, root.orig)]
      BY DEF Relocate
    <3> HIDE DEF moved
    <3> QED
      BY <2>3, <3>1
  <2>5. FolderAt(store.rows, ParentOf(root.orig)) /\ \A r \in store.rows : r.path # root.orig
    BY <1>5, <1>6, <2>2, <2>3
  <2>6. Tree!Restore(root.node, PlaceAt(store, ParentOf(root.orig)))
    BY <1>1, <2>1, <2>2, <2>3, <2>4, <2>5, RestorePuts
  <2> QED
    BY <2>2, <2>6, RestoreNext
<1>20. ASSUME EmptyTrash \/ \E root \in TrashRoots(store) : Purge(root)
       PROVE  Tree!Next
  <2>1. PICK roots \in SUBSET TrashRoots(store) : roots # {} /\ store' = Purged(store, roots)
    <3>1. CASE EmptyTrash
      BY <1>3, <1>20, <3>1 DEF EmptyTrash
    <3>2. CASE \E root \in TrashRoots(store) : Purge(root)
      <4>1. PICK root \in TrashRoots(store) : Become(Purged(store, {root}))
        BY <3>2 DEF Purge
      <4>2. {root} \in SUBSET TrashRoots(store) /\ {root} # {}
        OBVIOUS
      <4> QED
        BY <1>3, <4>1, <4>2
    <3> QED
      BY <1>20, <3>1, <3>2
  <2>2. roots \in SUBSET store.rows /\ \A t \in roots : t.orig # NoPath
    BY DEF TrashRoots
  <2>3. /\ store'.rows = {r \in store.rows : ~CoveredBy(roots, r.path)}
        /\ store'.versions = {v \in store.versions : ~CoveredBy(roots, v.path)}
    BY <2>1 DEF Purged
  <2>4. Tree!Purge({t.node : t \in roots})
    BY <1>1, <2>1, <2>2, <2>3, PurgePuts
  <2>5. {t.node : t \in roots} \in SUBSET DOMAIN EntriesOf(store)
    <3>1. DOMAIN EntriesOf(store) = {r.node : r \in store.rows}
      BY <1>1, EntriesAt
    <3> QED
      BY <2>2, <3>1
  <2> QED
    BY <2>4, <2>5, PurgeNext
<1>21. ASSUME NEW p, NEW b \in BOOLEAN, SetFavorite(p, b)
       PROVE  Tree!Next
  <2> DEFINE r == RowAt(store, p)
  <2>1. Live(store, p) /\ store' = [store EXCEPT !.rows = Starred(store.rows, p, b)]
    BY <1>3, <1>21 DEF SetFavorite
  <2>2. store'.rows = Starred(store.rows, p, b) /\ store'.versions = store.versions
    BY <1>2, <2>1 DEF StoreType
  <2>3. r \in store.rows /\ r.path = p /\ ~r.deleted /\ r.node \in DOMAIN EntriesOf(store)
    BY <1>4, <2>1
  <2> HIDE DEF r
  <2>4. Tree!Favor(r.node, b)
    BY <1>1, <2>2, <2>3, FavorPuts
  <2> QED
    BY <2>3, <2>4, FavorNext
<1> QED
  BY <1>11, <1>12, <1>13, <1>14, <1>16, <1>17, <1>18, <1>19, <1>20, <1>21 DEF Next

\* The store starts as the empty tree.
LEMMA EntriesInit == Init => Tree!Init
<1> SUFFICES ASSUME Init PROVE EntriesOf(store) = << >>
  BY DEF Tree!Init
<1>1. DOMAIN EntriesOf(store) = {}
  BY DEF Init, EmptyStore, EntriesOf
<1>2. EntriesOf(store) = [n \in {} |-> EntriesOf(store)[n]]
  BY <1>1 DEF EntriesOf
<1>3. [n \in {} |-> EntriesOf(store)[n]] = << >>
  OBVIOUS
<1> QED
  BY <1>2, <1>3

(* The file endpoints implement the tree of entries: although they rewrite *)
(* path prefixes row by row, a rename or move changes one edge, delete     *)
(* hangs the subtree in the trash and restore puts it back where it was,   *)
(* an overwrite or roll-back appends to the history, and only a purge      *)
(* forgets.                                                                *)
THEOREM RequestsKeepATree ==
  ASSUME LikeIsExact, {TRASH, VERSIONS} \cap Names = {}, EdgesApart
  PROVE  Spec => ImplementsFileTree
<1>1. Init => NodesUnique(store.rows)
  BY DEF Init, EmptyStore, NodesUnique
<1>2. DiskIInv /\ NodesUnique(store.rows) /\ [Next]_vars => NodesUnique(store.rows)'
  BY CarriedStep
<1>3. DiskIInv /\ NodesUnique(store.rows) /\ [Next]_vars => [Tree!Next]_(EntriesOf(store))
  BY EntriesStep
<1>4. Init => Tree!Init
  BY EntriesInit
<1> QED
  BY <1>1, <1>2, <1>3, <1>4, MirrorAlways, PTL DEF Spec, ImplementsFileTree, Tree!Spec

============================================================================
