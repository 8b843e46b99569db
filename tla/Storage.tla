------------------------------ MODULE Storage ------------------------------
(***************************************************************************)
(* What one user's files are kept in, and the steps the handlers are made  *)
(* of.  A store has three parts:                                           *)
(*                                                                         *)
(*   rows      the table "metadata" (deleted rows included);               *)
(*   versions  the table "file_versions";                                  *)
(*   disk      the user's directory: entries [path, data], where data is   *)
(*             DIR for a directory and the bytes for a file.               *)
(*                                                                         *)
(* A table is a set of records, an UPDATE maps it, a DELETE filters it.    *)
(* File contents are opaque values; a digest is the content it was         *)
(* computed from, so a row's sum and the bytes on disk can be compared.    *)
(* Every id the server draws at random (trash ids, blob refs) is fresh.    *)
(* The directories .trash, .trash/<id> and .versions are made on demand    *)
(* and hold no user data of their own: they are left implicit.             *)
(*                                                                         *)
(* node is an auxiliary field: the identity of the entry a row is about,   *)
(* kept by every UPDATE.  No guard reads it; refinement and properties do. *)
(***************************************************************************)
EXTENDS Paths, FiniteSets, FiniteSetsExt

CONSTANTS
  Contents,   \* file contents, and their digests
  DIR,        \* the data of a directory on disk
  NoPath,     \* SQL NULL in original_path
  NoSum,      \* SQL NULL in checksum
  TRASH,      \* the segment ".trash"
  VERSIONS,   \* the segment ".versions"
  Refs,       \* names of version blobs (secrets.token_hex)
  Nodes       \* identities of entries (auxiliary)

ASSUME StorageAssumption ==
  /\ {TRASH, VERSIONS} \subseteq Segments
  /\ TRASH # VERSIONS
  /\ Refs \subseteq Segments
  /\ DIR \notin Contents
  /\ NoSum \notin Contents
  /\ NoPath \notin Path

RowType == [path : Path, name : Segments, parent : Path, dir : BOOLEAN,
            sum : Contents \cup {NoSum}, deleted : BOOLEAN,
            orig : Path \cup {NoPath}, fav : BOOLEAN, node : Nodes]
VersionType == [path : Path, no : Nat \ {0}, sum : Contents, ref : Refs]
EntryType == [path : Path, data : Contents \cup {DIR}]
StoreType == [rows : SUBSET RowType, versions : SUBSET VersionType,
              disk : SUBSET EntryType]

EmptyStore == [rows |-> {}, versions |-> {}, disk |-> {}]

----------------------------------------------------------------------------
(* Queries.  get_file sees the rows that are not deleted; "/" has no row.  *)

RowsAt(s, p) == {r \in s.rows : r.path = p}
Live(s, p) == \E r \in s.rows : r.path = p /\ ~r.deleted
IsFile(s, p) == \E r \in s.rows : r.path = p /\ ~r.deleted /\ ~r.dir
IsFolder(s, p) == p = Root \/ \E r \in s.rows : r.path = p /\ ~r.deleted /\ r.dir
RowAt(s, p) == CHOOSE r \in s.rows : r.path = p

\* the rows _trash_root and list_trash accept
TrashRoots(s) == {r \in s.rows : r.deleted /\ r.orig # NoPath}

VersionsAt(s, p) == {v \in s.versions : v.path = p}
\* Bug: the number of the new version is the last one in use.
LastNo(s, p) == Max({v.no : v \in VersionsAt(s, p)} \cup {0})
NextNo(s, p) == 1 + Max({v.no : v \in VersionsAt(s, p)} \cup {0})

----------------------------------------------------------------------------
(* The disk.                                                               *)

Blob(ref) == <<VERSIONS, ref>>
FileOn(d, p) == {e \in d : e.path = p /\ e.data # DIR}
OnDisk(d, p) == \E e \in d : e.path = p \/ Below(p, e.path)
IsDirOn(d, p) == OnDisk(d, p) /\ FileOn(d, p) = {}

\* os.makedirs(os.path.dirname(...)), the implicit directories left out
MakeParents(d, p) ==
  IF p[1] \in {TRASH, VERSIONS} THEN d
  ELSE d \cup {[path |-> SubSeq(p, 1, i), data |-> DIR] : i \in 1 .. Len(p) - 1}

WriteFile(d, p, data) ==
  {e \in MakeParents(d, p) : e.path # p} \cup {[path |-> p, data |-> data]}
RemoveFileOn(d, p) == d \ FileOn(d, p)
RemoveTreeOn(d, p) == {e \in d : e.path # p /\ ~Below(p, e.path)}

(* open(p, "wb") and os.replace(tmp, p) fail on a directory, makedirs on a *)
(* parent that is a file.                                                  *)
ParentIsFile(d, p) == \E i \in 1 .. Len(p) - 1 : FileOn(d, SubSeq(p, 1, i)) # {}
WriteFails(d, p) == IsDirOn(d, p) \/ ParentIsFile(d, p)

(* os.rename(old, new): into itself, a directory onto a file or onto a     *)
(* directory that is not empty, a file onto a directory.                   *)
RenameFails(d, old, new) ==
  /\ OnDisk(d, old)
  /\ \/ Below(old, new)
     \/ ParentIsFile(d, new)
     \/ IsDirOn(d, old) /\ \E e \in d : \/ e.path = new /\ e.data # DIR
                                        \/ Below(new, e.path)
     \/ ~IsDirOn(d, old) /\ IsDirOn(d, new)

RenameOn(d, old, new) ==
  IF ~OnDisk(d, old) THEN d
  ELSE LET made == {e \in MakeParents(d, new) : e.path # new}
       IN  {IF e.path = old \/ Below(old, e.path)
            THEN [e EXCEPT !.path = Rebase(old, new, @)] ELSE e : e \in made}

----------------------------------------------------------------------------
(* _relocate_subtree: the rows, the versions, then the bytes.              *)

\* Bug: the folder UPDATE forgets parent_path.
MovedRowKeepsParent(old, new, dir, r) ==
  LET home == IF r.path = old
              THEN [r EXCEPT !.path = new, !.name = NameOf(new),
                             !.parent = ParentOf(new)]
              ELSE r
  IN  IF dir /\ LikeBelow(old, home.path)
      THEN [home EXCEPT !.path = Rebase(old, new, @)] ELSE home

\* Bug: the name column is left behind when an entry changes its path.
MovedRowKeepsName(old, new, dir, r) ==
  LET p == MovedPath(old, new, dir, r.path)
  IN  [r EXCEPT !.path = p, !.parent = ParentOf(p)]

MovedRow(old, new, dir, r) ==
  LET home == IF r.path = old
              THEN [r EXCEPT !.path = new, !.name = NameOf(new),
                             !.parent = ParentOf(new)]
              ELSE r
  IN  IF dir /\ LikeBelow(old, home.path)
      THEN [home EXCEPT !.path = Rebase(old, new, @),
                        !.parent = Rebase(old, new, @)]
      ELSE home

RelocateRows(rows, old, new, dir) == {MovedRow(old, new, dir, r) : r \in rows}

\* Bug: history follows a moved file, not the files of a moved folder.
RelocateOwnVersions(versions, old, new, dir) ==
  {[v EXCEPT !.path = IF @ = old THEN new ELSE @] : v \in versions}

RelocateVersions(versions, old, new, dir) ==
  {[v EXCEPT !.path = MovedPath(old, new, dir, @)] : v \in versions}

\* The UPDATEs violate PRIMARY KEY (owner_id, path).
KeyClash(rows, old, new, dir) ==
  \E r, t \in rows :
    r # t /\ MovedPath(old, new, dir, r.path) = MovedPath(old, new, dir, t.path)

RelocateFails(s, old, new, dir) ==
  KeyClash(s.rows, old, new, dir) \/ RenameFails(s.disk, old, new)

Relocate(s, old, new, dir) ==
  [rows     |-> RelocateRows(s.rows, old, new, dir),
   versions |-> RelocateVersions(s.versions, old, new, dir),
   disk     |-> RenameOn(s.disk, old, new)]

----------------------------------------------------------------------------
(* snapshot_version: no-op unless p is a live file with bytes.             *)

Snapshot(s, p, ref) ==
  IF ~IsFile(s, p) \/ FileOn(s.disk, p) = {} THEN s
  ELSE [s EXCEPT
         !.disk = @ \cup {[e EXCEPT !.path = Blob(ref)] : e \in FileOn(@, p)},
         !.versions = @ \cup {[path |-> p, no |-> NextNo(s, p),
                               sum |-> RowAt(s, p).sum, ref |-> ref]}]

\* remove_file, which the handlers call on files only
RemoveFile(s, p) ==
  [s EXCEPT !.rows = {r \in @ : ~Covers(p, r.path)},
            !.disk = RemoveFileOn(@, p)]

NewRow(p, dir, sum, node) ==
  [path |-> p, name |-> NameOf(p), parent |-> ParentOf(p), dir |-> dir,
   sum |-> sum, deleted |-> FALSE, orig |-> NoPath, fav |-> FALSE, node |-> node]

HasKey(s, p) == \E r \in s.rows : r.path = p

(* add_file_stream and add_file_from_disk: the bytes are moved into place, *)
(* then the row is inserted; a failed insert removes the bytes again.      *)
AddStream(s, p, c, node) ==
  IF WriteFails(s.disk, p) THEN s
  ELSE IF HasKey(s, p)
       THEN [s EXCEPT !.disk = RemoveFileOn(WriteFile(@, p, c), p)]
       ELSE [s EXCEPT !.disk = WriteFile(@, p, c),
                      !.rows = @ \cup {NewRow(p, FALSE, c, node)}]

(* add_file: the row is committed first, then the bytes are written.       *)
AddBytes(s, p, c, node) ==
  IF HasKey(s, p) THEN s
  ELSE [s EXCEPT !.rows = @ \cup {NewRow(p, FALSE, c, node)},
                 !.disk = IF WriteFails(@, p) THEN @ ELSE WriteFile(@, p, c)]

AddFolder(s, p, node) ==
  IF HasKey(s, p) THEN s
  ELSE [s EXCEPT !.rows = @ \cup {NewRow(p, TRUE, NoSum, node)},
                 !.disk = IF FileOn(@, p) # {} \/ ParentIsFile(@, p) THEN @
                          ELSE MakeParents(@, p) \cup {[path |-> p, data |-> DIR]}]

(* The one-row UPDATEs of restore_version and of set_favorite.             *)
Rehashed(rows, p, sum) ==
  {IF r.path = p THEN [r EXCEPT !.sum = sum] ELSE r : r \in rows}
Starred(rows, p, b) ==
  {IF r.path = p THEN [r EXCEPT !.fav = b] ELSE r : r \in rows}

----------------------------------------------------------------------------
(* The trash.                                                              *)

TrashPath(id, name) == <<TRASH, id, name>>

\* Bug: only the root of the trashed tree is marked as deleted.
StampedRoot(rows, p, orig) ==
  {IF r.path = p THEN [r EXCEPT !.deleted = TRUE, !.orig = orig] ELSE r : r \in rows}

Stamped(rows, p, orig) ==
  {IF Covers(p, r.path)
   THEN [r EXCEPT !.deleted = TRUE, !.orig = IF r.path = p THEN orig ELSE @]
   ELSE r : r \in rows}

Unstamped(rows, p) ==
  {IF Covers(p, r.path) THEN [r EXCEPT !.deleted = FALSE, !.orig = NoPath] ELSE r
     : r \in rows}

SoftDelete(s, p, id) ==
  LET r == RowAt(s, p)
      t == TrashPath(id, r.name)
      moved == Relocate(s, p, t, r.dir)
  IN  [moved EXCEPT !.rows = Stamped(@, t, p)]

Restored(s, root) ==
  LET moved == Relocate(s, root.path, root.orig, root.dir)
  IN  [moved EXCEPT !.rows = Unstamped(@, root.orig)]

(* purge for every row of roots: _delete_versions, the rows, the bytes.    *)
CoveredBy(roots, p) == \E t \in roots : Covers(t.path, p)

\* Bug: a purge removes the root's own bytes and leaves what is below it.
PurgedRoots(s, roots) ==
  LET dropped == {v \in s.versions : CoveredBy(roots, v.path)}
  IN  [rows     |-> {r \in s.rows : ~CoveredBy(roots, r.path)},
       versions |-> s.versions \ dropped,
       disk     |-> {e \in s.disk : /\ \A v \in dropped : e.path # Blob(v.ref)
                                    /\ \A t \in roots : e.path # t.path}]

Purged(s, roots) ==
  LET dropped == {v \in s.versions : CoveredBy(roots, v.path)}
  IN  [rows     |-> {r \in s.rows : ~CoveredBy(roots, r.path)},
       versions |-> s.versions \ dropped,
       disk     |-> {e \in s.disk :
                       /\ \A v \in dropped : e.path # Blob(v.ref)
                       /\ \A t \in roots : /\ e.path # t.path
                                           /\ ~(t.dir /\ Below(t.path, e.path))}]

============================================================================
