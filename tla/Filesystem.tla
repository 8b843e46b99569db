---------------------------- MODULE Filesystem -----------------------------
(***************************************************************************)
(* The file endpoints, one action per endpoint, each run to its end before *)
(* the next one starts: what one user who waits for every answer sees.     *)
(* AsyncFilesystem has the same handlers interleaved at their awaits.      *)
(*                                                                         *)
(* A request the handler refuses (404, 409, 400) and one whose transaction *)
(* is rolled back change nothing and have no step here.                    *)
(***************************************************************************)
EXTENDS Storage

CONSTANTS
  Names,        \* the names a user gives to entries
  TrashIds,     \* ids of trash roots (secrets.token_hex)
  MaxDepth,     \* bound: segments in a live path
  MaxRows,      \* bound: rows in the table
  MaxVersions   \* bound: rows in file_versions

ASSUME FilesystemAssumption ==
  /\ Names \subseteq Segments
  /\ TrashIds \subseteq Segments
  /\ MaxDepth \in Nat /\ MaxRows \in Nat /\ MaxVersions \in Nat

VARIABLE store

vars == <<store>>

LivePaths == {r.path : r \in {x \in store.rows : ~x.deleted}}
Folders == {Root} \cup {p \in LivePaths : IsFolder(store, p)}

FreshRef(ref) == \A e \in store.disk : e.path # Blob(ref)
FreshNode(n) == \A r \in store.rows : r.node # n
FreshTrash(id) == \A r \in store.rows : ~Below(<<TRASH, id>>, r.path)

InBounds(s) ==
  /\ Cardinality(s.rows) <= MaxRows
  /\ Cardinality(s.versions) <= MaxVersions
  /\ \A r \in s.rows : Len(r.path) <= MaxDepth + IF r.path[1] = TRASH THEN 2 ELSE 0

Become(s) == InBounds(s) /\ store' = s

----------------------------------------------------------------------------
Init == store = EmptyStore

(* upload_file.  upload_complete does the same, but looked for the parent  *)
(* when the session was opened: AsyncFilesystem tells the two apart.       *)
Upload(parent, name, c, node) ==
  LET p == Child(parent, name)
  IN  /\ parent \in Folders
      /\ ~Live(store, p)
      /\ FreshNode(node)
      /\ Become(AddStream(store, p, c, node))

(* The same with overwrite=true on an existing file: the old bytes become  *)
(* a version, the row and the bytes go, the new ones are added.            *)
\* Bug: the old bytes are not snapshotted before they go.
Discarded(s, p, ref) == RemoveFile(s, p)
Overwritten(s, p, ref) == RemoveFile(Snapshot(s, p, ref), p)

UploadOver(p, c, ref) ==
  /\ IsFile(store, p)
  /\ FreshRef(ref)
  /\ Become(AddStream(Overwritten(store, p, ref), p, c, RowAt(store, p).node))

(* save_file_content: as an overwrite, through add_file.                   *)
SaveContent(p, c, ref) ==
  /\ IsFile(store, p)
  /\ FreshRef(ref)
  /\ Become(AddBytes(Overwritten(store, p, ref), p, c, RowAt(store, p).node))

CreateFolder(parent, name, node) ==
  LET p == Child(parent, name)
  IN  /\ ~Live(store, p)
      /\ parent \in Folders
      /\ FreshNode(node)
      /\ Become(AddFolder(store, p, node))

Relocated(p, q) == Relocate(store, p, q, RowAt(store, p).dir)
CanRelocate(p, q) == ~RelocateFails(store, p, q, RowAt(store, p).dir)

Rename(p, name) ==
  LET q == Child(ParentOf(p), name)
  IN  /\ Live(store, p)
      /\ q # p
      /\ ~Live(store, q)
      /\ CanRelocate(p, q)
      /\ Become(Relocated(p, q))

Move(p, parent) ==
  LET q == Child(parent, RowAt(store, p).name)
  IN  /\ Live(store, p)
      /\ parent \in Folders
      /\ q # p
      /\ ~(RowAt(store, p).dir /\ (parent = p \/ Below(p, parent)))
      /\ ~Live(store, q)
      /\ CanRelocate(p, q)
      /\ Become(Relocated(p, q))

Delete(p, id) ==
  /\ Live(store, p)
  /\ FreshTrash(id)
  /\ CanRelocate(p, TrashPath(id, RowAt(store, p).name))
  /\ Become(SoftDelete(store, p, id))

\* _safe_trash_path: the request must name a path under /.trash.
Addressable(root) == root.path[1] = TRASH

(* The original place must be free and its folder must still be there.     *)
Restore(root) ==
  /\ root \in TrashRoots(store) /\ Addressable(root)
  /\ ~Live(store, root.orig)
  /\ IsFolder(store, ParentOf(root.orig))
  /\ ~RelocateFails(store, root.path, root.orig, root.dir)
  /\ Become(Restored(store, root))

Purge(root) ==
  /\ root \in TrashRoots(store) /\ Addressable(root)
  /\ Become(Purged(store, {root}))

(* empty_trash purges the roots one after the other.                       *)
EmptyTrash ==
  /\ TrashRoots(store) # {}
  /\ Become(Purged(store, TrashRoots(store)))

(* restore_version: snapshot, copy the blob over the bytes, update the row.*)
RolledBack(s, p, v) ==
  LET data == (CHOOSE e \in FileOn(s.disk, Blob(v.ref)) : TRUE).data
  IN  [s EXCEPT !.disk = WriteFile(@, p, data),
                !.rows = Rehashed(@, p, v.sum)]

RestoreVersion(p, v, ref) ==
  /\ IsFile(store, p)
  /\ v \in VersionsAt(store, p)
  /\ FileOn(store.disk, Blob(v.ref)) # {}
  /\ FreshRef(ref)
  /\ Become(RolledBack(Snapshot(store, p, ref), p, v))

SetFavorite(p, b) ==
  /\ Live(store, p)
  /\ Become([store EXCEPT !.rows = Starred(@, p, b)])

Next ==
  \/ \E parent \in Folders, name \in Names, c \in Contents, n \in Nodes :
       Upload(parent, name, c, n)
  \/ \E p \in LivePaths, c \in Contents, ref \in Refs : UploadOver(p, c, ref)
  \/ \E p \in LivePaths, c \in Contents, ref \in Refs : SaveContent(p, c, ref)
  \/ \E parent \in Folders, name \in Names, n \in Nodes :
       CreateFolder(parent, name, n)
  \/ \E p \in LivePaths, name \in Names : Rename(p, name)
  \/ \E p \in LivePaths, parent \in Folders : Move(p, parent)
  \/ \E p \in LivePaths, id \in TrashIds : Delete(p, id)
  \/ \E root \in TrashRoots(store) : Restore(root)
  \/ \E root \in TrashRoots(store) : Purge(root)
  \/ EmptyTrash
  \/ \E p \in LivePaths, v \in store.versions, ref \in Refs :
       RestoreVersion(p, v, ref)
  \/ \E p \in LivePaths, b \in BOOLEAN : SetFavorite(p, b)

Spec == Init /\ [][Next]_vars

----------------------------------------------------------------------------
(* Type invariant of the tables and the disk.                              *)
TypeOK ==
  /\ store.rows \subseteq RowType
  /\ store.versions \subseteq VersionType
  /\ store.disk \subseteq EntryType

(* The rows form one tree, whichever way it is read: paths are unique, the *)
(* name and parent_path columns agree with the path (a folder lists by     *)
(* parent_path, everything else goes by path), and every entry except a    *)
(* trash root lies in a folder that exists on its own side of the trash.   *)
(* A rename, move, delete or restore that misses a descendant breaks it.   *)
TreeClosed ==
  /\ \A r, t \in store.rows : r.path = t.path => r = t
  /\ \A r \in store.rows :
       /\ r.name = NameOf(r.path) /\ r.parent = ParentOf(r.path)
       /\ r.orig # NoPath
            \/ (~r.deleted /\ r.parent = Root)
            \/ \E f \in store.rows : f.path = r.parent /\ f.dir /\ f.deleted = r.deleted

(* A row is deleted exactly when it lies in the trash, and has an original *)
(* path exactly when it is the root of a trashed tree: otherwise a live    *)
(* entry drops out of listings and quota, or a trashed one cannot be       *)
(* listed, restored or purged.                                             *)
TrashConsistent ==
  \A r \in store.rows :
    /\ r.deleted <=> r.path[1] = TRASH
    /\ r.orig # NoPath <=> (r.deleted /\ Len(r.path) = 3)

(* What the trash lists can be restored or purged: its path is one that    *)
(* _safe_trash_path accepts.  Relies on no user entry being "/.trash".     *)
TrashAddressable == \A root \in TrashRoots(store) : Addressable(root)

(* Outside the version blobs, the disk holds exactly what the rows say: a  *)
(* directory for every folder, the bytes with the stored checksum for      *)
(* every file, and nothing else.  Downloads, folder zips and verify read   *)
(* one side after looking at the other.                                    *)
DiskMatches ==
  {e \in store.disk : e.path[1] # VERSIONS}
    = {[path |-> r.path, data |-> IF r.dir THEN DIR ELSE r.sum] : r \in store.rows}

(* History follows the file through renames, moves and the trash: every    *)
(* version belongs to a file that exists, the numbers at a path run 1..n   *)
(* without a gap or a duplicate, and blobs and version rows correspond one *)
(* to one, each blob holding the bytes its row's checksum is of.           *)
HistoryAttached ==
  /\ \A v \in store.versions :
       /\ \E r \in store.rows : r.path = v.path /\ ~r.dir
       /\ {w.no : w \in VersionsAt(store, v.path)}
            = 1 .. Cardinality(VersionsAt(store, v.path))
  /\ {e \in store.disk : e.path[1] = VERSIONS}
       = {[path |-> Blob(v.ref), data |-> v.sum] : v \in store.versions}
  /\ Cardinality({v.ref : v \in store.versions}) = Cardinality(store.versions)

(* What a user can still get back of entry n: its bytes and its versions.  *)
Recoverable(s, n) ==
  UNION {{e.data : e \in FileOn(s.disk, r.path)} \cup
         {e.data : e \in UNION {FileOn(s.disk, Blob(v.ref)) : v \in VersionsAt(s, r.path)}}
           : r \in {x \in s.rows : x.node = n}}

(* No request loses what a user stored: whatever happens to a live entry   *)
(* (overwritten, rolled back, renamed with its folder, deleted), the entry *)
(* still exists afterwards and every content it ever had is recoverable    *)
(* from it.  Only a purge forgets, and only what was in the trash.         *)
NothingLost ==
  [][\A r \in store.rows :
       ~r.deleted => /\ \E t \in store'.rows : t.node = r.node
                     /\ Recoverable(store, r.node) \subseteq Recoverable(store', r.node)]_vars

============================================================================
