-------------------------- MODULE AsyncFilesystem --------------------------
(***************************************************************************)
(* The file handlers interleaved at their awaits.  The server is one       *)
(* asyncio process without locks of its own: between two awaits a handler  *)
(* runs alone, at an await any other may run.  Each step below is what     *)
(* happens between two awaits that another handler can tell apart: one SQL *)
(* statement or transaction, or one stretch of file operations.            *)
(*                                                                         *)
(* A handler is a plan, the list of its labels, and a position in it; a    *)
(* label is an action.  SQLite serialises writers: lock is the request     *)
(* whose transaction is open.  Only a relocation keeps one open across     *)
(* file operations: it renames on disk before it commits.  Its UPDATEs are *)
(* invisible and no other writer can run until then, so they are modelled  *)
(* at the commit.                                                          *)
(*                                                                         *)
(* What request r draws at random (trash id, blob ref, name of the .part   *)
(* file) and the content it uploads are all called r: they are fresh.      *)
(***************************************************************************)
EXTENDS Storage

CONSTANTS
  Requests,   \* the requests, each served once
  Inputs,     \* what a client may ask: [op, path, dest, over, no]
  Initial,    \* the store the server starts with
  NoOne,      \* no transaction is open
  MayCrash,   \* whether the process may die and restart
  Large       \* bound: of the sequential module, above what an instance reaches

ASSUME AsyncAssumption ==
  /\ Requests \subseteq Segments \cap Refs \cap Nodes \cap Contents
  /\ Requests \cap {NoOne, TRASH, VERSIONS} = {}
  /\ MayCrash \in BOOLEAN
  /\ Large \in Nat

VARIABLES
  store,      \* committed tables, and the disk
  lock,       \* the request whose write transaction is open
  req,        \* for each request its input, its local variables, its steps
  overlap,    \* history: two requests in flight had related paths
  faults      \* history: the process died, or a writer gave up waiting

vars == <<store, lock, req, overlap, faults>>

----------------------------------------------------------------------------
(* The handlers: the plan of an operation is the list of its steps, pc the *)
(* position of the next one.  A snapshot takes four steps; an overwrite    *)
(* snapshots, then removes, then adds, and an upload to a free path skips  *)
(* the first two.                                                          *)

UploadPlan == <<"find_parent", "find_existing", "read_current", "copy_blob", "read_max",
                "insert_version", "delete_row", "remove_bytes",
                "make_parents", "stream", "replace", "insert_row">>
ChunkedPlan == <<"find_parent", "find_existing", "read_current", "copy_blob", "read_max",
                 "insert_version", "delete_row", "remove_bytes", "adopt", "insert_row">>

\* Bug: the file is removed before its bytes are snapshotted.
RemoveThenSnapshot == <<"find_file", "delete_row", "remove_bytes", "read_current", "copy_blob",
                        "read_max", "insert_version", "insert_first", "write_bytes">>
SavePlan == <<"find_file", "read_current", "copy_blob", "read_max", "insert_version",
              "delete_row", "remove_bytes", "insert_first", "write_bytes">>

FolderPlan == <<"find_none", "find_parent", "insert_first", "make_directory">>
RenamePlan == <<"find_source", "find_none", "rename_on_disk", "commit", "read_back">>
MovePlan == <<"find_source", "find_parent", "find_none", "rename_on_disk", "commit", "read_back">>
DeletePlan == <<"find_source", "rename_on_disk", "commit">>
RestorePlan == <<"find_root", "find_none", "find_parent", "rename_on_disk", "commit", "read_back">>

\* Bug: a purge removes the blobs while the tables still name them.
PurgeBlobsFirst == <<"find_root", "read_refs", "remove_blobs", "delete_versions",
                     "delete_row", "remove_tree">>
\* Bug: a purge leaves the blobs of the versions behind.
PurgeKeepsBlobs == <<"find_root", "read_refs", "delete_versions", "delete_row", "remove_tree">>
PurgePlan == <<"find_root", "read_refs", "delete_versions", "remove_blobs",
               "delete_row", "remove_tree">>

\* Bug: the row keeps the checksum of the bytes that were rolled back.
CopyBackOnly == <<"find_file", "find_version", "read_current", "copy_blob", "read_max",
                  "insert_version", "copy_back", "read_back">>
VersionPlan == <<"find_file", "find_version", "read_current", "copy_blob", "read_max",
                 "insert_version", "copy_back", "update_checksum", "read_back">>

Ops == {"upload", "chunked", "save", "folder", "rename", "move", "delete", "restore",
        "purge", "version"}

(* A name the server draws at random occurs in no path that was there      *)
(* before: nobody guesses it.                                              *)
Fresh(p) == \A i \in 1 .. Len(p) : p[i] \notin Requests

(* What a client may ask.  "/" is not an entry; a rename stays in its      *)
(* folder, a move keeps the name; what is restored or purged is addressed  *)
(* under /.trash, by the id that a delete gave it; every other name is the *)
(* client's own.                                                           *)
ASSUME InputAssumption ==
  /\ Inputs \subseteq [op : Ops, path : Path, dest : Path, over : BOOLEAN, no : Nat]
  /\ \A in \in Inputs :
       /\ in.path # Root
       /\ in.op \in {"rename", "move"} => in.dest # Root
       /\ in.op = "rename" => ParentOf(in.dest) = ParentOf(in.path)
       /\ in.op = "move" => NameOf(in.dest) = NameOf(in.path)
       /\ in.op \in {"restore", "purge"} => in.path[1] = TRASH
       /\ in.op \notin {"restore", "purge"} => Fresh(in.path)
       /\ in.op \in {"rename", "move"} => Fresh(in.dest)

(* No request names an entry of the user ".trash" or ".versions", and no   *)
(* earlier one did: no row lies under the latter, nothing in the trash     *)
(* came from either.                                                       *)
UserPath(p) == p[1] \notin {TRASH, VERSIONS}
OnlyUserPaths ==
  /\ \A in \in Inputs : /\ in.op \notin {"restore", "purge"} => UserPath(in.path)
                        /\ in.op \in {"rename", "move"} => UserPath(in.dest)
  /\ \A w \in Initial.rows : /\ w.path[1] # VERSIONS
                             /\ w.orig # NoPath => UserPath(w.orig)

(* The server starts with a store in which the names it draws at random do *)
(* not occur yet.  (Init adds that it is a consistent one.)                *)
ASSUME StartAssumption ==
  /\ Initial \in StoreType /\ IsFiniteSet(Initial.versions)
  /\ \A w \in Initial.rows :
       /\ w.path # Root /\ Fresh(w.path)
       /\ ~w.dir => w.sum \in Contents
       /\ w.orig # NoPath => w.orig # Root /\ Fresh(w.orig)
       /\ w.node \notin Requests
  /\ \A v \in Initial.versions : v.ref \notin Requests

Plan(op) ==
  CASE op = "upload"  -> UploadPlan
    [] op = "chunked" -> ChunkedPlan
    [] op = "save"    -> SavePlan
    [] op = "folder"  -> FolderPlan
    [] op = "rename"  -> RenamePlan
    [] op = "move"    -> MovePlan
    [] op = "delete"  -> DeletePlan
    [] op = "restore" -> RestorePlan
    [] op = "purge"   -> PurgePlan
    [] op = "version" -> VersionPlan

(* dest is where the entry ends up: the path itself unless the entry moves *)
(* (a restore learns it from the row).                                     *)
(* What the handler read from the tables and still believes: dir, the kind *)
(* of the entry; node, its identity; sum and max, the checksum and the     *)
(* last version number its snapshot read; found, the version rows it read. *)
Idle == [status |-> "idle", op |-> "none", path |-> Root, dest |-> Root, over |-> FALSE,
         no |-> 0, pc |-> 0, dir |-> FALSE, node |-> NoOne, sum |-> NoSum,
         max |-> 0, found |-> {}]

RequestType ==
  [status : {"idle", "run", "ok", "failed"}, op : Ops \cup {"none"}, path : Path, dest : Path,
   over : BOOLEAN, no : Nat, pc : Nat, dir : BOOLEAN, node : Nodes \cup {NoOne},
   sum : Contents \cup {NoSum}, max : Nat, found : SUBSET VersionType]

Destination(r, in) ==
  CASE in.op = "delete" -> TrashPath(r, NameOf(in.path))
    [] in.op \in {"rename", "move"} -> in.dest
    [] OTHER -> in.path

Started(r, in) ==
  [status |-> "run", op |-> in.op, path |-> in.path, dest |-> Destination(r, in),
   over |-> in.over, no |-> in.no, pc |-> 1, dir |-> FALSE, node |-> r, sum |-> NoSum,
   max |-> 0, found |-> {}]

InFlight(r) == req[r].status = "run"
Quiet == \A r \in Requests : ~InFlight(r)
At(r, label) == InFlight(r) /\ Plan(req[r].op)[req[r].pc] = label

Related(p, q) == p = q \/ Below(p, q) \/ Below(q, p)
Collide(x, y) == \E p \in {x.path, x.dest}, q \in {y.path, y.dest} : Related(p, q)
Crosses(r, x) == \E o \in Requests \ {r} : InFlight(o) /\ Collide(x, req[o])

----------------------------------------------------------------------------
(* How a step ends.  The handler, knowing x, goes on with the n-th step    *)
(* from here; after the last one it answers.  Or it fails, for good.       *)

Resume(r, x, n) ==
  req' = [req EXCEPT ![r] =
            [x EXCEPT !.pc = @ + n,
                      !.status = IF x.pc + n > Len(Plan(x.op)) THEN "ok" ELSE "run"]]
Goes(r) == Resume(r, req[r], 1)
Learns(r, x) == Resume(r, x, 1)
Fails(r) == req' = [req EXCEPT ![r].status = "failed"]

NoWrite == UNCHANGED <<store, lock, overlap, faults>>
Becomes(s) == store' = s /\ UNCHANGED <<lock, overlap, faults>>

(* One INSERT, UPDATE or DELETE with its commit: another request's         *)
(* transaction must not be open.                                           *)
Commits(r, s) == lock = NoOne /\ Becomes(s) /\ Goes(r)
(* "database is locked" after five seconds of waiting for it.              *)
GivesUp(r, s) ==
  /\ lock # NoOne
  /\ store' = s /\ faults' = TRUE /\ UNCHANGED <<lock, overlap>>
  /\ Fails(r)

----------------------------------------------------------------------------
(* What the sequential module says of a store, said of the committed one.  *)
Files == INSTANCE Filesystem WITH
  Names <- Segments, TrashIds <- Requests,
  MaxDepth <- Large, MaxRows <- Large, MaxVersions <- Large

Init ==
  /\ store = Initial
  /\ Files!TreeClosed /\ Files!TrashConsistent
  /\ Files!DiskMatches /\ Files!HistoryAttached
  /\ lock = NoOne
  /\ req = [r \in Requests |-> Idle]
  /\ overlap = FALSE /\ faults = FALSE

Begin(r, in) ==
  /\ req[r].status = "idle"
  /\ req' = [req EXCEPT ![r] = Started(r, in)]
  /\ overlap' = (overlap \/ Crosses(r, Started(r, in)))
  /\ UNCHANGED <<store, lock, faults>>

(* get_file, and what the handlers decide on it.                           *)
FindSource(r) ==
  /\ At(r, "find_source")
  /\ IF Live(store, req[r].path)
     THEN Learns(r, [req[r] EXCEPT !.dir = RowAt(store, req[r].path).dir])
     ELSE Fails(r)
  /\ NoWrite

FindFile(r) ==
  /\ At(r, "find_file")
  /\ IF IsFile(store, req[r].path)
     THEN Learns(r, [req[r] EXCEPT !.node = RowAt(store, req[r].path).node])
     ELSE Fails(r)
  /\ NoWrite

(* The new place must be free.  A rename or a move to the place where the  *)
(* entry is ends here as well: it is answered with the entry as it is, and *)
(* like a refused one it has changed nothing.                              *)
FindNone(r) ==
  LET there == req[r].op \in {"rename", "move"} /\ req[r].dest = req[r].path
  IN  /\ At(r, "find_none")
      /\ IF there \/ Live(store, req[r].dest) THEN Fails(r) ELSE Goes(r)
      /\ NoWrite

\* move also refuses to put a folder into itself.
FindParent(r) ==
  LET parent == ParentOf(req[r].dest)
      intoItself == /\ req[r].op = "move" /\ req[r].dir
                    /\ parent = req[r].path \/ Below(req[r].path, parent)
  IN  /\ At(r, "find_parent")
      /\ IF IsFolder(store, parent) /\ ~intoItself THEN Goes(r) ELSE Fails(r)
      /\ NoWrite

(* upload_file and upload_complete: a free path is added to; a file is     *)
(* replaced, after a snapshot, if the client said so.                      *)
FindExisting(r) ==
  LET p == req[r].path
  IN  /\ At(r, "find_existing")
      /\ \/ ~Live(store, p) /\ Resume(r, req[r], 7)
         \/ /\ IsFile(store, p) /\ req[r].over
            /\ Learns(r, [req[r] EXCEPT !.node = RowAt(store, p).node])
         \/ Live(store, p) /\ ~(IsFile(store, p) /\ req[r].over) /\ Fails(r)
      /\ NoWrite

\* _trash_root: the request names a root of the trash.
FindRoot(r) ==
  LET roots == {t \in TrashRoots(store) : t.path = req[r].path}
      known(t) == [req[r] EXCEPT !.dir = t.dir,
                                 !.dest = IF req[r].op = "restore" THEN t.orig ELSE @]
  IN  /\ At(r, "find_root")
      /\ \/ \E t \in roots : /\ Learns(r, known(t))
                              /\ overlap' = (overlap \/ Crosses(r, known(t)))
         \/ roots = {} /\ Fails(r) /\ UNCHANGED overlap
      /\ UNCHANGED <<store, lock, faults>>

\* restore_version: the version must exist, and its blob.
FindVersion(r) ==
  LET rows == {v \in VersionsAt(store, req[r].path) : v.no = req[r].no}
      found == {v \in rows : FileOn(store.disk, Blob(v.ref)) # {}}
  IN  /\ At(r, "find_version")
      /\ \/ \E v \in found : Learns(r, [req[r] EXCEPT !.found = {v}])
         \/ found # rows /\ Fails(r)
         \/ rows = {} /\ Fails(r)
      /\ NoWrite

\* The answer of rename, move, restore and restore_version is read again.
ReadBack(r) ==
  /\ At(r, "read_back")
  /\ IF Live(store, req[r].dest) THEN Goes(r) ELSE Fails(r)
  /\ NoWrite

----------------------------------------------------------------------------
(* snapshot_version.                                                       *)

ReadCurrent(r) ==
  LET p == req[r].path
  IN  /\ At(r, "read_current")
      /\ IF IsFile(store, p)
         THEN Learns(r, [req[r] EXCEPT !.sum = RowAt(store, p).sum])
         ELSE Resume(r, req[r], 4)
      /\ NoWrite

CopyBlob(r) ==
  LET bytes == FileOn(store.disk, req[r].path)
  IN  /\ At(r, "copy_blob")
      /\ IF bytes = {} THEN Resume(r, req[r], 3) ELSE Goes(r)
      /\ Becomes([store EXCEPT !.disk = @ \cup {[e EXCEPT !.path = Blob(r)] : e \in bytes}])

ReadMax(r) ==
  /\ At(r, "read_max")
  /\ Learns(r, [req[r] EXCEPT !.max = NextNo(store, req[r].path) - 1])
  /\ NoWrite

InsertVersion(r) ==
  LET new == [path |-> req[r].path, no |-> req[r].max + 1, sum |-> req[r].sum, ref |-> r]
  IN  /\ At(r, "insert_version")
      /\ Commits(r, [store EXCEPT !.versions = @ \cup {new}]) \/ GivesUp(r, store)

----------------------------------------------------------------------------
(* remove_file, and the last two statements of purge.                      *)

DeleteRow(r) ==
  /\ At(r, "delete_row")
  /\ \/ Commits(r, [store EXCEPT !.rows = {w \in @ : ~Covers(req[r].path, w.path)}])
     \/ GivesUp(r, store)

RemoveBytes(r) ==
  LET p == req[r].path
  IN  /\ At(r, "remove_bytes")
      /\ IF WriteFails(store.disk, p) THEN Fails(r) ELSE Goes(r)
      /\ Becomes([store EXCEPT !.disk = RemoveFileOn(@, p)])

RemoveTree(r) ==
  LET p == req[r].path
  IN  /\ At(r, "remove_tree")
      /\ IF ~req[r].dir /\ WriteFails(store.disk, p) THEN Fails(r) ELSE Goes(r)
      /\ Becomes([store EXCEPT !.disk = IF req[r].dir THEN RemoveTreeOn(@, p)
                                        ELSE RemoveFileOn(@, p)])

----------------------------------------------------------------------------
(* add_file_stream.  The .part file lies beside the target; replacing the  *)
(* target fails when its folder was renamed meanwhile.                     *)

Part(r) == Append(ParentOf(req[r].path), r)

MakeUploadParents(r) ==
  LET p == req[r].path
  IN  /\ At(r, "make_parents")
      /\ IF ParentIsFile(store.disk, p)
         THEN Fails(r) /\ NoWrite
         ELSE Goes(r) /\ Becomes([store EXCEPT !.disk = MakeParents(@, p)])

Stream(r) ==
  /\ At(r, "stream")
  /\ IF ParentOf(req[r].path) = Root \/ IsDirOn(store.disk, ParentOf(req[r].path))
     THEN Goes(r) /\ Becomes([store EXCEPT !.disk = @ \cup {[path |-> Part(r), data |-> r]}])
     ELSE Fails(r) /\ NoWrite

Replace(r) ==
  LET p == req[r].path
      part == FileOn(store.disk, Part(r))
      rest == store.disk \ part
  IN  /\ At(r, "replace")
      /\ IF part = {} \/ WriteFails(rest, p)
         THEN Fails(r) /\ Becomes([store EXCEPT !.disk = rest])
         ELSE Goes(r) /\ Becomes([store EXCEPT !.disk = WriteFile(rest, p, r)])

(* add_file_from_disk: the parts were assembled outside the user's tree.   *)
Adopt(r) ==
  LET p == req[r].path
  IN  /\ At(r, "adopt")
      /\ IF WriteFails(store.disk, p)
         THEN Fails(r) /\ NoWrite
         ELSE Goes(r) /\ Becomes([store EXCEPT !.disk = WriteFile(@, p, r)])

(* Both: a row that cannot be inserted takes the bytes with it.            *)
InsertRow(r) ==
  LET p == req[r].path
      undone == [store EXCEPT !.disk = RemoveFileOn(@, p)]
  IN  /\ At(r, "insert_row")
      /\ \/ ~HasKey(store, p)
              /\ Commits(r, [store EXCEPT !.rows = @ \cup {NewRow(p, FALSE, r, req[r].node)}])
         \/ HasKey(store, p) /\ lock = NoOne /\ Fails(r) /\ Becomes(undone)
         \/ GivesUp(r, undone)

----------------------------------------------------------------------------
(* add_file: the row first.                                                *)

InsertFirst(r) ==
  LET p == req[r].path
      dir == req[r].op = "folder"
      row == NewRow(p, dir, IF dir THEN NoSum ELSE r, req[r].node)
  IN  /\ At(r, "insert_first")
      /\ \/ ~HasKey(store, p) /\ Commits(r, [store EXCEPT !.rows = @ \cup {row}])
         \/ HasKey(store, p) /\ lock = NoOne /\ Fails(r) /\ NoWrite
         \/ GivesUp(r, store)

WriteBytes(r) ==
  LET p == req[r].path
  IN  /\ At(r, "write_bytes")
      /\ IF WriteFails(store.disk, p)
         THEN Fails(r) /\ NoWrite
         ELSE Goes(r) /\ Becomes([store EXCEPT !.disk = WriteFile(@, p, r)])

MakeDirectory(r) ==
  LET p == req[r].path
  IN  /\ At(r, "make_directory")
      /\ IF FileOn(store.disk, p) # {} \/ ParentIsFile(store.disk, p)
         THEN Fails(r) /\ NoWrite
         ELSE Goes(r) /\ Becomes([store EXCEPT
                !.disk = MakeParents(@, p) \cup {[path |-> p, data |-> DIR]}])

----------------------------------------------------------------------------
(* _relocate_subtree: the UPDATEs open the transaction, then os.rename.    *)
(* When either fails nothing is written and the transaction is closed.     *)

\* Bug: the connection of a failed relocation is never closed.
LeftOpen(r) == lock' = r
RolledBack(r) == lock' = lock

RenameOnDisk(r) ==
  LET x == req[r]
  IN  /\ At(r, "rename_on_disk")
      /\ \/ /\ lock = NoOne
            /\ ~RelocateFails(store, x.path, x.dest, x.dir)
            /\ Goes(r)
            /\ lock' = r
            /\ store' = [store EXCEPT !.disk = RenameOn(@, x.path, x.dest)]
            /\ UNCHANGED <<overlap, faults>>
         \/ /\ lock = NoOne
            /\ RelocateFails(store, x.path, x.dest, x.dir)
            /\ Fails(r) /\ RolledBack(r) /\ UNCHANGED <<store, overlap, faults>>
         \/ GivesUp(r, store)

Commit(r) ==
  LET x == req[r]
      rows == RelocateRows(store.rows, x.path, x.dest, x.dir)
  IN  /\ At(r, "commit")
      /\ store' = [store EXCEPT
           !.rows = CASE x.op = "delete"  -> Stamped(rows, x.dest, x.path)
                      [] x.op = "restore" -> Unstamped(rows, x.dest)
                      [] OTHER            -> rows,
           !.versions = RelocateVersions(@, x.path, x.dest, x.dir)]
      /\ lock' = NoOne
      /\ Goes(r) /\ UNCHANGED <<overlap, faults>>

----------------------------------------------------------------------------
(* _delete_versions.                                                       *)

ReadRefs(r) ==
  /\ At(r, "read_refs")
  /\ Learns(r, [req[r] EXCEPT
                  !.found = {v \in store.versions : Covers(req[r].path, v.path)}])
  /\ NoWrite

DeleteVersions(r) ==
  /\ At(r, "delete_versions")
  /\ \/ Commits(r, [store EXCEPT !.versions = {v \in @ : ~Covers(req[r].path, v.path)}])
     \/ GivesUp(r, store)

RemoveBlobs(r) ==
  /\ At(r, "remove_blobs")
  /\ Goes(r)
  /\ Becomes([store EXCEPT
                !.disk = {e \in @ : \A v \in req[r].found : e.path # Blob(v.ref)}])

----------------------------------------------------------------------------
(* restore_version, after the snapshot.  copy2 onto a directory copies     *)
(* into it.                                                                *)
CopyBack(r) ==
  LET p == req[r].path
      ver == CHOOSE v \in req[r].found : TRUE
      blob == FileOn(store.disk, Blob(ver.ref))
      target == IF IsDirOn(store.disk, p) THEN Append(p, ver.ref) ELSE p
  IN  /\ At(r, "copy_back")
      /\ IF blob = {} \/ ParentIsFile(store.disk, p)
         THEN Fails(r) /\ NoWrite
         ELSE Goes(r) /\ \E e \in blob :
                Becomes([store EXCEPT !.disk = WriteFile(@, target, e.data)])

UpdateChecksum(r) ==
  LET ver == CHOOSE v \in req[r].found : TRUE
  IN  /\ At(r, "update_checksum")
      /\ \/ Commits(r, [store EXCEPT !.rows = Rehashed(@, req[r].path, ver.sum)])
         \/ GivesUp(r, store)

----------------------------------------------------------------------------
(* The process dies: open transactions are rolled back, requests in flight *)
(* are forgotten, files stay as they are.                                  *)
Crash ==
  /\ MayCrash /\ ~Quiet
  /\ req' = [r \in Requests |-> IF InFlight(r) THEN [req[r] EXCEPT !.status = "failed"]
                                ELSE req[r]]
  /\ lock' = NoOne /\ faults' = TRUE
  /\ UNCHANGED <<store, overlap>>

Step(r) ==
  \/ FindSource(r) \/ FindFile(r) \/ FindNone(r) \/ FindParent(r) \/ FindExisting(r)
  \/ FindRoot(r) \/ FindVersion(r) \/ ReadBack(r)
  \/ ReadCurrent(r) \/ CopyBlob(r) \/ ReadMax(r) \/ InsertVersion(r)
  \/ DeleteRow(r) \/ RemoveBytes(r) \/ RemoveTree(r)
  \/ MakeUploadParents(r) \/ Stream(r) \/ Replace(r) \/ Adopt(r) \/ InsertRow(r)
  \/ InsertFirst(r) \/ WriteBytes(r) \/ MakeDirectory(r)
  \/ RenameOnDisk(r) \/ Commit(r)
  \/ ReadRefs(r) \/ DeleteVersions(r) \/ RemoveBlobs(r)
  \/ CopyBack(r) \/ UpdateChecksum(r)

Next ==
  \/ \E r \in Requests, in \in Inputs : Begin(r, in)
  \/ \E r \in Requests : Step(r)
  \/ Crash
  \/ Quiet /\ (\A r \in Requests : req[r].status # "idle") /\ UNCHANGED vars

Spec == Init /\ [][Next]_vars

(* The event loop runs every handler that can go on: no await waits for    *)
(* anything but the database, which answers or times out.                  *)
FairSpec == Spec /\ \A r \in Requests : WF_vars(Step(r))

----------------------------------------------------------------------------
(* Type invariant of the tables, the disk, the lock and the requests.      *)
TypeOK ==
  /\ Files!TypeOK
  /\ lock \in Requests \cup {NoOne}
  /\ req \in [Requests -> RequestType]
  /\ \A r \in Requests :
       InFlight(r) => req[r].op \in Ops /\ req[r].pc \in 1 .. Len(Plan(req[r].op))
  /\ overlap \in BOOLEAN /\ faults \in BOOLEAN

(* However requests interleave, whoever gives up, whenever the process     *)
(* dies: a committed row is marked deleted exactly when it lies in the     *)
(* trash, and has an original path exactly when it is the root of a        *)
(* trashed tree.  Rows are moved and stamped in one transaction.  And as   *)
(* long as no two requests in flight touch related paths, the committed    *)
(* rows form a tree and every version in the tables has its bytes: blobs   *)
(* are written before the row that names them and removed after it.        *)
TablesSurvive ==
  /\ Files!TrashConsistent
  /\ ~overlap => /\ Files!TreeClosed
                 /\ \A v \in store.versions : FileOn(store.disk, Blob(v.ref)) # {}

(* Without a crash or a timeout on top, the disk and the history agree     *)
(* with the rows again whenever no request is in flight: requests on       *)
(* unrelated paths do not disturb each other, although they share folders, *)
(* the trash and the version store, and refused ones leave nothing behind. *)
SettlesConsistently ==
  (Quiet /\ ~overlap /\ ~faults) => Files!DiskMatches /\ Files!HistoryAttached

Writers == {"upload", "chunked", "save"}

(* What a success tells the client.                                        *)
Effect(x, r) ==
  LET holds(p, c) == /\ \E w \in store.rows : w.path = p /\ ~w.deleted /\ w.sum = c
                     /\ [path |-> p, data |-> c] \in store.disk
  IN  CASE x.op \in Writers -> holds(x.path, r)
        [] x.op = "version" -> \E v \in x.found : holds(x.path, v.sum)
        [] x.op = "folder"  -> IsFolder(store, x.path) /\ IsDirOn(store.disk, x.path)
        [] x.op = "purge"   -> /\ RowsAt(store, x.path) = {}
                               /\ \A e \in store.disk : ~Covers(x.path, e.path)
                               /\ \A v \in x.found : FileOn(store.disk, Blob(v.ref)) = {}
        [] OTHER            -> /\ RowsAt(store, x.path) = {}
                               /\ RowsAt(store, x.dest) # {}
                               /\ OnDisk(store.disk, x.dest) /\ ~OnDisk(store.disk, x.path)

(* An answer of success is true when it is given: rows and bytes are as    *)
(* the client asked, unless another request interfered or an earlier fault *)
(* left bytes and rows apart.                                              *)
AnswersAreTrue ==
  [][\A r \in Requests :
       (req[r].status # "ok" /\ req'[r].status = "ok" /\ ~overlap' /\ ~faults')
         => Effect(req[r], r)']_vars

(* Bytes a client was told are stored, and the ones the live files and     *)
(* their versions had from the start, are never the bytes that a crash, a  *)
(* timeout or a later request destroys: an overwrite keeps the old ones as *)
(* a blob before it removes them.  (They may be left without a row that    *)
(* leads to them.)  The promise ends when they are forfeited: a client     *)
(* purges what was deleted, or a relocation died between its rename and    *)
(* its commit and another request comes to the place the bytes were moved  *)
(* to, which no row says is taken.                                         *)
Stored == {r \in Requests : req[r].status = "ok" /\ req[r].op \in Writers}
            \cup {e.data : e \in {x \in Initial.disk :
                   \/ \E w \in Initial.rows : w.path = x.path /\ ~w.dir /\ ~w.deleted
                   \/ \E v \in Initial.versions :
                        Blob(v.ref) = x.path /\ v.path[1] # TRASH}}
CutShort(r) == req[r].status = "failed" /\ Plan(req[r].op)[req[r].pc] = "commit"
Touches(o, p) == req[o].status # "idle" /\ \E q \in {req[o].path, req[o].dest} : Related(q, p)
Forfeited ==
  \E r, o \in Requests :
    /\ r # o /\ Touches(o, req[r].dest)
    /\ CutShort(r) \/ (req[r].op = "delete" /\ req[o].op = "purge")
BytesSurvive ==
  ~overlap /\ ~Forfeited => \A c \in Stored : \E e \in store.disk : e.data = c

(* A file row never points at missing bytes (the docstring of              *)
(* add_file_stream).                                                       *)
RowsHaveBytes ==
  \A w \in store.rows : w.dir \/ FileOn(store.disk, w.path) # {}

(* Every write transaction is closed again, also when os.rename fails      *)
(* inside it: otherwise every later write of every user would time out.    *)
LockReleased == \A r \in Requests : (lock = r) ~> (lock # r)

============================================================================
