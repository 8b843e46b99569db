---------------------------- MODULE AsyncProofs ----------------------------
(***************************************************************************)
(* Theorems about AsyncFilesystem, for any requests, inputs and store to   *)
(* start with, however the handlers interleave, whoever gives up and       *)
(* whenever the process dies: the tables keep their types and their unique *)
(* paths, the marks of the trash agree with the paths, and as long as      *)
(* requests in flight keep to unrelated paths the committed rows form a    *)
(* tree, the versions have their bytes, and the bytes that were stored are *)
(* still on the disk unless they were forfeited.                           *)
(*                                                                         *)
(* The last part is the groundwork of SettleProofs: its invariant Settled, *)
(* and what each label does to rows and disk, place by place.              *)
(***************************************************************************)
EXTENDS AsyncFilesystem, FiniteSetTheorems, WellFoundedInduction, TLAPS

----------------------------------------------------------------------------
(* What FilesystemProofs says of the operators of Storage.  The instance   *)
(* has its own copies of them: they are the same.                          *)

FP == INSTANCE FilesystemProofs WITH
  Names <- Segments, TrashIds <- Requests,
  MaxDepth <- Large, MaxRows <- Large, MaxVersions <- Large

LEMMA SameTypes ==
  /\ FP!Path = Path /\ FP!Root = Root /\ FP!RowType = RowType
  /\ FP!VersionType = VersionType /\ FP!EntryType = EntryType /\ FP!StoreType = StoreType
  BY DEF FP!Path, FP!Root, FP!RowType, FP!VersionType, FP!EntryType, FP!StoreType,
         Path, Root, RowType, VersionType, EntryType, StoreType

LEMMA SamePaths ==
  /\ \A p : FP!ParentOf(p) = ParentOf(p) /\ FP!NameOf(p) = NameOf(p)
  /\ \A p, q : /\ FP!Below(p, q) = Below(p, q)
               /\ FP!LikeBelow(p, q) = LikeBelow(p, q)
               /\ FP!Covers(p, q) = Covers(p, q)
  /\ \A old, new, dir, p : FP!MovedPath(old, new, dir, p) = MovedPath(old, new, dir, p)
  /\ FP!LikeIsExact = LikeIsExact
  BY DEF FP!ParentOf, FP!NameOf, FP!Below, FP!LikeBelow, FP!Covers, FP!MovedPath, FP!Rebase,
         ParentOf, NameOf, Below, LikeBelow, Covers, MovedPath, Rebase,
         FP!LikeIsExact, LikeIsExact

LEMMA SameRows ==
  /\ \A rows, old, new, dir :
       /\ FP!RelocateRows(rows, old, new, dir) = RelocateRows(rows, old, new, dir)
       /\ FP!RelocateVersions(rows, old, new, dir) = RelocateVersions(rows, old, new, dir)
       /\ FP!KeyClash(rows, old, new, dir) = KeyClash(rows, old, new, dir)
  /\ \A rows, p, x : /\ FP!Stamped(rows, p, x) = Stamped(rows, p, x)
                     /\ FP!Unstamped(rows, p) = Unstamped(rows, p)
                     /\ FP!Rehashed(rows, p, x) = Rehashed(rows, p, x)
  /\ \A p, dir, sum, node : FP!NewRow(p, dir, sum, node) = NewRow(p, dir, sum, node)
  /\ \A id, name : FP!TrashPath(id, name) = TrashPath(id, name)
  BY DEF FP!RelocateRows, FP!RelocateVersions, FP!MovedRow, FP!MovedPath, FP!KeyClash,
         FP!Rebase, FP!Stamped, FP!Unstamped, FP!Rehashed, FP!NewRow, FP!Covers,
         FP!LikeBelow, FP!NameOf, FP!ParentOf, FP!TrashPath,
         RelocateRows, RelocateVersions, MovedRow, MovedPath, KeyClash, Rebase, Stamped,
         Unstamped, Rehashed, NewRow, Covers, LikeBelow, NameOf, ParentOf, TrashPath

LEMMA SameQueries ==
  \A s, p : /\ FP!Live(s, p) = Live(s, p) /\ FP!IsFile(s, p) = IsFile(s, p)
            /\ FP!RowAt(s, p) = RowAt(s, p) /\ FP!HasKey(s, p) = HasKey(s, p)
            /\ FP!NextNo(s, p) = NextNo(s, p)
  BY DEF FP!Live, FP!IsFile, FP!RowAt, FP!HasKey, FP!NextNo, FP!VersionsAt, FP!Max,
         Live, IsFile, RowAt, HasKey, NextNo, VersionsAt, Max

LEMMA SameDisk ==
  /\ \A d, p, x : /\ FP!MakeParents(d, p) = MakeParents(d, p)
                  /\ FP!WriteFile(d, p, x) = WriteFile(d, p, x)
                  /\ FP!RenameOn(d, p, x) = RenameOn(d, p, x)
  /\ \A ref : FP!Blob(ref) = Blob(ref)
  BY DEF FP!MakeParents, FP!WriteFile, FP!RenameOn, FP!OnDisk, FP!Below, FP!Rebase, FP!Blob,
         MakeParents, WriteFile, RenameOn, OnDisk, Below, Rebase, Blob

\* Its assumptions are those of this module, and Large is a number.
LEMMA Assumed == FP!LikeAssumption /\ FP!StorageAssumption /\ FP!FilesystemAssumption
  BY LikeAssumption, StorageAssumption, AsyncAssumption
     DEF FP!LikeAssumption, FP!StorageAssumption, FP!FilesystemAssumption, FP!Path, Path

----------------------------------------------------------------------------
(* Where a label stands in the plans, and how long they are: with it a     *)
(* position says what the handler has done.                                *)

LEMMA Positions ==
  ASSUME NEW op \in Ops, NEW pc \in 1 .. Len(Plan(op))
  PROVE
    /\ Plan(op)[pc] = "find_parent" <=>
         \/ op \in {"upload", "chunked"} /\ pc = 1
         \/ op \in {"folder", "move"} /\ pc = 2
         \/ op = "restore" /\ pc = 3
    /\ Plan(op)[pc] = "find_existing" <=> op \in {"upload", "chunked"} /\ pc = 2
    /\ Plan(op)[pc] = "read_current" <=>
         \/ op = "save" /\ pc = 2
         \/ op \in {"upload", "chunked", "version"} /\ pc = 3
    /\ Plan(op)[pc] = "copy_blob" <=>
         \/ op = "save" /\ pc = 3
         \/ op \in {"upload", "chunked", "version"} /\ pc = 4
    /\ Plan(op)[pc] = "read_max" <=>
         \/ op = "save" /\ pc = 4
         \/ op \in {"upload", "chunked", "version"} /\ pc = 5
    /\ Plan(op)[pc] = "insert_version" <=>
         \/ op = "save" /\ pc = 5
         \/ op \in {"upload", "chunked", "version"} /\ pc = 6
    /\ Plan(op)[pc] = "delete_row" <=>
         \/ op = "purge" /\ pc = 5
         \/ op = "save" /\ pc = 6
         \/ op \in {"upload", "chunked"} /\ pc = 7
    /\ Plan(op)[pc] = "remove_bytes" <=>
         \/ op = "save" /\ pc = 7
         \/ op \in {"upload", "chunked"} /\ pc = 8
    /\ Plan(op)[pc] = "make_parents" <=> op = "upload" /\ pc = 9
    /\ Plan(op)[pc] = "stream" <=> op = "upload" /\ pc = 10
    /\ Plan(op)[pc] = "replace" <=> op = "upload" /\ pc = 11
    /\ Plan(op)[pc] = "insert_row" <=>
         \/ op = "chunked" /\ pc = 10
         \/ op = "upload" /\ pc = 12
    /\ Plan(op)[pc] = "adopt" <=> op = "chunked" /\ pc = 9
    /\ Plan(op)[pc] = "find_file" <=> op \in {"save", "version"} /\ pc = 1
    /\ Plan(op)[pc] = "insert_first" <=>
         \/ op = "folder" /\ pc = 3
         \/ op = "save" /\ pc = 8
    /\ Plan(op)[pc] = "write_bytes" <=> op = "save" /\ pc = 9
    /\ Plan(op)[pc] = "find_none" <=>
         \/ op = "folder" /\ pc = 1
         \/ op \in {"rename", "restore"} /\ pc = 2
         \/ op = "move" /\ pc = 3
    /\ Plan(op)[pc] = "make_directory" <=> op = "folder" /\ pc = 4
    /\ Plan(op)[pc] = "find_source" <=> op \in {"rename", "move", "delete"} /\ pc = 1
    /\ Plan(op)[pc] = "rename_on_disk" <=>
         \/ op = "delete" /\ pc = 2
         \/ op = "rename" /\ pc = 3
         \/ op \in {"move", "restore"} /\ pc = 4
    /\ Plan(op)[pc] = "commit" <=>
         \/ op = "delete" /\ pc = 3
         \/ op = "rename" /\ pc = 4
         \/ op \in {"move", "restore"} /\ pc = 5
    /\ Plan(op)[pc] = "read_back" <=>
         \/ op = "rename" /\ pc = 5
         \/ op \in {"move", "restore"} /\ pc = 6
         \/ op = "version" /\ pc = 9
    /\ Plan(op)[pc] = "find_root" <=> op \in {"restore", "purge"} /\ pc = 1
    /\ Plan(op)[pc] = "read_refs" <=> op = "purge" /\ pc = 2
    /\ Plan(op)[pc] = "delete_versions" <=> op = "purge" /\ pc = 3
    /\ Plan(op)[pc] = "remove_blobs" <=> op = "purge" /\ pc = 4
    /\ Plan(op)[pc] = "remove_tree" <=> op = "purge" /\ pc = 6
    /\ Plan(op)[pc] = "find_version" <=> op = "version" /\ pc = 2
    /\ Plan(op)[pc] = "copy_back" <=> op = "version" /\ pc = 7
    /\ Plan(op)[pc] = "update_checksum" <=> op = "version" /\ pc = 8
    /\ op = "upload" => Len(Plan(op)) = 12
    /\ op = "chunked" => Len(Plan(op)) = 10
    /\ op = "save" => Len(Plan(op)) = 9
    /\ op = "folder" => Len(Plan(op)) = 4
    /\ op = "rename" => Len(Plan(op)) = 5
    /\ op = "move" => Len(Plan(op)) = 6
    /\ op = "delete" => Len(Plan(op)) = 3
    /\ op = "restore" => Len(Plan(op)) = 6
    /\ op = "purge" => Len(Plan(op)) = 6
    /\ op = "version" => Len(Plan(op)) = 9
<1>1. CASE op = "upload"
  <2>1. Plan(op) = UploadPlan
    BY <1>1 DEF Plan
  <2>2. /\ Len(Plan(op)) = 12
        /\ Plan(op)[1] = "find_parent" /\ Plan(op)[2] = "find_existing"
        /\ Plan(op)[3] = "read_current" /\ Plan(op)[4] = "copy_blob"
        /\ Plan(op)[5] = "read_max" /\ Plan(op)[6] = "insert_version"
        /\ Plan(op)[7] = "delete_row" /\ Plan(op)[8] = "remove_bytes"
        /\ Plan(op)[9] = "make_parents" /\ Plan(op)[10] = "stream"
        /\ Plan(op)[11] = "replace" /\ Plan(op)[12] = "insert_row"
    BY <2>1 DEF UploadPlan
  <2> QED
    BY <1>1, <2>2
<1>2. CASE op = "chunked"
  <2>1. Plan(op) = ChunkedPlan
    BY <1>2 DEF Plan
  <2>2. /\ Len(Plan(op)) = 10
        /\ Plan(op)[1] = "find_parent" /\ Plan(op)[2] = "find_existing"
        /\ Plan(op)[3] = "read_current" /\ Plan(op)[4] = "copy_blob"
        /\ Plan(op)[5] = "read_max" /\ Plan(op)[6] = "insert_version"
        /\ Plan(op)[7] = "delete_row" /\ Plan(op)[8] = "remove_bytes"
        /\ Plan(op)[9] = "adopt" /\ Plan(op)[10] = "insert_row"
    BY <2>1 DEF ChunkedPlan
  <2> QED
    BY <1>2, <2>2
<1>3. CASE op = "save"
  <2>1. Plan(op) = SavePlan
    BY <1>3 DEF Plan
  <2>2. /\ Len(Plan(op)) = 9
        /\ Plan(op)[1] = "find_file" /\ Plan(op)[2] = "read_current"
        /\ Plan(op)[3] = "copy_blob" /\ Plan(op)[4] = "read_max"
        /\ Plan(op)[5] = "insert_version" /\ Plan(op)[6] = "delete_row"
        /\ Plan(op)[7] = "remove_bytes" /\ Plan(op)[8] = "insert_first"
        /\ Plan(op)[9] = "write_bytes"
    BY <2>1 DEF SavePlan
  <2> QED
    BY <1>3, <2>2
<1>4. CASE op = "folder"
  <2>1. Plan(op) = FolderPlan
    BY <1>4 DEF Plan
  <2>2. /\ Len(Plan(op)) = 4
        /\ Plan(op)[1] = "find_none" /\ Plan(op)[2] = "find_parent"
        /\ Plan(op)[3] = "insert_first" /\ Plan(op)[4] = "make_directory"
    BY <2>1 DEF FolderPlan
  <2> QED
    BY <1>4, <2>2
<1>5. CASE op = "rename"
  <2>1. Plan(op) = RenamePlan
    BY <1>5 DEF Plan
  <2>2. /\ Len(Plan(op)) = 5
        /\ Plan(op)[1] = "find_source" /\ Plan(op)[2] = "find_none"
        /\ Plan(op)[3] = "rename_on_disk" /\ Plan(op)[4] = "commit"
        /\ Plan(op)[5] = "read_back"
    BY <2>1 DEF RenamePlan
  <2> QED
    BY <1>5, <2>2
<1>6. CASE op = "move"
  <2>1. Plan(op) = MovePlan
    BY <1>6 DEF Plan
  <2>2. /\ Len(Plan(op)) = 6
        /\ Plan(op)[1] = "find_source" /\ Plan(op)[2] = "find_parent"
        /\ Plan(op)[3] = "find_none" /\ Plan(op)[4] = "rename_on_disk"
        /\ Plan(op)[5] = "commit" /\ Plan(op)[6] = "read_back"
    BY <2>1 DEF MovePlan
  <2> QED
    BY <1>6, <2>2
<1>7. CASE op = "delete"
  <2>1. Plan(op) = DeletePlan
    BY <1>7 DEF Plan
  <2>2. /\ Len(Plan(op)) = 3
        /\ Plan(op)[1] = "find_source" /\ Plan(op)[2] = "rename_on_disk"
        /\ Plan(op)[3] = "commit"
    BY <2>1 DEF DeletePlan
  <2> QED
    BY <1>7, <2>2
<1>8. CASE op = "restore"
  <2>1. Plan(op) = RestorePlan
    BY <1>8 DEF Plan
  <2>2. /\ Len(Plan(op)) = 6
        /\ Plan(op)[1] = "find_root" /\ Plan(op)[2] = "find_none"
        /\ Plan(op)[3] = "find_parent" /\ Plan(op)[4] = "rename_on_disk"
        /\ Plan(op)[5] = "commit" /\ Plan(op)[6] = "read_back"
    BY <2>1 DEF RestorePlan
  <2> QED
    BY <1>8, <2>2
<1>9. CASE op = "purge"
  <2>1. Plan(op) = PurgePlan
    BY <1>9 DEF Plan
  <2>2. /\ Len(Plan(op)) = 6
        /\ Plan(op)[1] = "find_root" /\ Plan(op)[2] = "read_refs"
        /\ Plan(op)[3] = "delete_versions" /\ Plan(op)[4] = "remove_blobs"
        /\ Plan(op)[5] = "delete_row" /\ Plan(op)[6] = "remove_tree"
    BY <2>1 DEF PurgePlan
  <2> QED
    BY <1>9, <2>2
<1>10. CASE op = "version"
  <2>1. Plan(op) = VersionPlan
    BY <1>10 DEF Plan
  <2>2. /\ Len(Plan(op)) = 9
        /\ Plan(op)[1] = "find_file" /\ Plan(op)[2] = "find_version"
        /\ Plan(op)[3] = "read_current" /\ Plan(op)[4] = "copy_blob"
        /\ Plan(op)[5] = "read_max" /\ Plan(op)[6] = "insert_version"
        /\ Plan(op)[7] = "copy_back" /\ Plan(op)[8] = "update_checksum"
        /\ Plan(op)[9] = "read_back"
    BY <2>1 DEF VersionPlan
  <2> QED
    BY <1>10, <2>2
<1> QED
  BY <1>1, <1>2, <1>3, <1>4, <1>5, <1>6, <1>7, <1>8, <1>9, <1>10 DEF Ops

----------------------------------------------------------------------------
(* The invariant that carries the types.  A relocation renames on disk and *)
(* commits later: that its UPDATEs will not clash must still be so then,   *)
(* and is, because only the holder of the lock changes rows.  A snapshot   *)
(* stores the checksum it read before it copied the bytes, and a rollback  *)
(* the one of the version it found: what a handler remembers at a position *)
(* must be what it needs there.                                            *)

Snapping(op, pc) == \/ op = "save" /\ pc \in 3 .. 5
                    \/ op \in {"upload", "chunked", "version"} /\ pc \in 4 .. 6
Committing(op, pc) == \/ op = "delete" /\ pc = 3
                      \/ op = "rename" /\ pc = 4
                      \/ op \in {"move", "restore"} /\ pc = 5

Knows(x, pc) ==
  /\ x.op \in Ops /\ x.path # Root /\ x.dest # Root /\ x.node \in Nodes
  /\ Snapping(x.op, pc) => x.sum \in Contents
  /\ x.op = "version" /\ pc >= 3 => x.found # {}

RequestsInv ==
  /\ req \in [Requests -> RequestType]
  /\ \A r \in Requests : InFlight(r) => /\ Knows(req[r], req[r].pc)
                                        /\ req[r].pc \in 1 .. Len(Plan(req[r].op))

LockInv ==
  /\ lock \in Requests \cup {NoOne}
  /\ \A r \in Requests :
       /\ lock = r <=> InFlight(r) /\ Committing(req[r].op, req[r].pc)
       /\ lock = r => ~KeyClash(store.rows, req[r].path, req[r].dest, req[r].dir)

IInv ==
  /\ FP!StoreInv(store)
  /\ RequestsInv /\ LockInv
  /\ overlap \in BOOLEAN /\ faults \in BOOLEAN

----------------------------------------------------------------------------
(* A handler that goes on.                                                 *)

LEMMA Resumed ==
  ASSUME NEW r \in Requests, NEW x \in RequestType, NEW n \in Nat,
         req \in [Requests -> RequestType], Resume(r, x, n)
  PROVE  /\ req' \in [Requests -> RequestType]
         /\ \A o \in Requests \ {r} : req'[o] = req[o]
         /\ req'[r].pc = x.pc + n
         /\ req'[r].status = IF x.pc + n > Len(Plan(x.op)) THEN "ok" ELSE "run"
         /\ req'[r].op = x.op /\ req'[r].path = x.path /\ req'[r].dest = x.dest
         /\ req'[r].over = x.over /\ req'[r].no = x.no /\ req'[r].dir = x.dir
         /\ req'[r].node = x.node /\ req'[r].sum = x.sum /\ req'[r].max = x.max
         /\ req'[r].found = x.found
<1> DEFINE e == IF x.pc + n > Len(Plan(x.op)) THEN "ok" ELSE "run"
           y == [x EXCEPT !.pc = x.pc + n, !.status = e]
<1>1. e \in {"ok", "run"}
  OBVIOUS
<1>2. req' = [req EXCEPT ![r] = y]
  BY DEF Resume
<1> HIDE DEF e
<1>7. x.pc + n \in Nat
  BY DEF RequestType
<1>8. y \in RequestType
  BY <1>1, <1>7 DEF RequestType
<1>3. y.pc = x.pc + n /\ y.status = e
  BY DEF RequestType
<1>4. /\ y.op = x.op /\ y.path = x.path /\ y.dest = x.dest
      /\ y.over = x.over /\ y.no = x.no /\ y.dir = x.dir
      /\ y.node = x.node /\ y.sum = x.sum /\ y.max = x.max /\ y.found = x.found
  BY DEF RequestType
<1> HIDE DEF y
<1>5. req' \in [Requests -> RequestType] /\ req'[r] = y
      /\ \A o \in Requests \ {r} : req'[o] = req[o]
  BY <1>2, <1>8
<1>6. req'[r].status = IF x.pc + n > Len(Plan(x.op)) THEN "ok" ELSE "run"
  BY <1>3, <1>5 DEF e
<1> QED
  BY <1>3, <1>4, <1>5, <1>6

LEMMA Failed ==
  ASSUME NEW r \in Requests, req \in [Requests -> RequestType], Fails(r)
  PROVE  /\ req' \in [Requests -> RequestType]
         /\ \A o \in Requests \ {r} : req'[o] = req[o]
         /\ req'[r].status = "failed"
         /\ req'[r].op = req[r].op /\ req'[r].pc = req[r].pc /\ req'[r].found = req[r].found
         /\ req'[r].path = req[r].path /\ req'[r].dest = req[r].dest
<1>1. req[r] \in RequestType
  OBVIOUS
<1> DEFINE y == [req[r] EXCEPT !.status = "failed"]
<1>2. y \in RequestType
  BY <1>1 DEF RequestType
<1>3. /\ y.status = "failed"
      /\ y.op = req[r].op /\ y.pc = req[r].pc /\ y.found = req[r].found
      /\ y.path = req[r].path /\ y.dest = req[r].dest
  BY <1>1 DEF RequestType
<1> HIDE DEF y
<1>4. /\ req' \in [Requests -> RequestType] /\ req'[r] = y
      /\ \A o \in Requests \ {r} : req'[o] = req[o]
  BY <1>2 DEF Fails, y
<1> QED
  BY <1>3, <1>4

LEMMA PlanLength ==
  ASSUME NEW op \in Ops
  PROVE  Len(Plan(op)) \in 3 .. 12
<1>1. /\ Len(UploadPlan) = 12 /\ Len(ChunkedPlan) = 10 /\ Len(SavePlan) = 9
      /\ Len(FolderPlan) = 4 /\ Len(RenamePlan) = 5 /\ Len(MovePlan) = 6
      /\ Len(DeletePlan) = 3 /\ Len(RestorePlan) = 6 /\ Len(PurgePlan) = 6
      /\ Len(VersionPlan) = 9
  BY DEF UploadPlan, ChunkedPlan, SavePlan, FolderPlan, RenamePlan, MovePlan, DeletePlan,
         RestorePlan, PurgePlan, VersionPlan
<1>2. Plan(op) \in {UploadPlan, ChunkedPlan, SavePlan, FolderPlan, RenamePlan, MovePlan,
                    DeletePlan, RestorePlan, PurgePlan, VersionPlan}
  BY DEF Plan, Ops
<1> QED
  BY <1>1, <1>2

\* y is x with what a step may learn: the kind and the original path of the
\* entry at first, then version rows.
Keeps(x, y) ==
  /\ y.op = x.op /\ y.pc = x.pc /\ y.path = x.path
  /\ x.pc # 1 => y.dir = x.dir
  /\ x.pc # 1 \/ x.op # "restore" => y.dest = x.dest
  /\ x.pc > 2 => y.found = x.found
  /\ y.found \subseteq x.found \cup store.versions

\* Three steps may skip others: nothing is there, nothing to snapshot.
Skips(r, n) ==
  /\ n = 7 => At(r, "find_existing")
  /\ n = 4 => At(r, "read_current")
  /\ n = 3 => At(r, "copy_blob")

\* What a step does to its request.
Moved(r) ==
  /\ \A o \in Requests \ {r} : req'[o] = req[o]
  /\ \/ /\ req'[r].status = "failed" /\ req'[r].op = req[r].op
        /\ req'[r].pc = req[r].pc /\ req'[r].found = req[r].found
        /\ req'[r].path = req[r].path /\ req'[r].dest = req[r].dest
     \/ \E n \in {1, 3, 4, 7} :
          /\ n # 1 => req[r].op \in {"upload", "chunked", "save", "version"}
          /\ Skips(r, n)
          /\ Keeps(req[r], [req'[r] EXCEPT !.pc = req[r].pc])
          /\ req'[r].pc = req[r].pc + n /\ req'[r].status \in {"run", "ok"}
          /\ req'[r].status = "ok" => req[r].pc + n > Len(Plan(req[r].op))

\* The handler knows, at the position it goes on with, what it needs there.
LEMMA Advance ==
  ASSUME RequestsInv, NEW r \in Requests, NEW x \in RequestType, NEW n \in {1, 3, 4, 7},
         Keeps(req[r], x), n # 1 => x.op \in {"upload", "chunked", "save", "version"},
         Skips(r, n), Resume(r, x, n), Knows(x, x.pc + n)
  PROVE  RequestsInv' /\ Moved(r)
<1>1. /\ req' \in [Requests -> RequestType]
      /\ \A o \in Requests \ {r} : req'[o] = req[o]
      /\ req'[r].pc = x.pc + n
      /\ req'[r].status = IF x.pc + n > Len(Plan(x.op)) THEN "ok" ELSE "run"
      /\ req'[r].op = x.op /\ req'[r].path = x.path /\ req'[r].dest = x.dest
      /\ req'[r].node = x.node /\ req'[r].sum = x.sum /\ req'[r].found = x.found
      /\ req'[r].dir = x.dir
  BY Resumed DEF RequestsInv
<1>2. \A o \in Requests \ {r} : InFlight(o)' =>
         Knows(req'[o], req'[o].pc) /\ req'[o].pc \in 1 .. Len(Plan(req'[o].op))
  BY <1>1 DEF RequestsInv, InFlight
<1>3. Knows(req'[r], req'[r].pc)
  BY <1>1 DEF Knows
<1>4. InFlight(r)' => req'[r].pc \in 1 .. Len(Plan(req'[r].op))
  <2>1. x.op \in Ops /\ x.pc \in Nat
    BY DEF Knows, RequestType
  <2>2. Len(Plan(x.op)) \in Nat
    BY <2>1, PlanLength
  <2> QED
    BY <1>1, <2>1, <2>2 DEF InFlight
<1>5. RequestsInv'
  BY <1>1, <1>2, <1>3, <1>4 DEF RequestsInv
<1>6. Moved(r)
  <2> DEFINE z == [req'[r] EXCEPT !.pc = req[r].pc]
  <2>1. req[r].pc \in Nat /\ req'[r] \in RequestType
    BY <1>1 DEF RequestsInv, RequestType
  <2>2. /\ z.op = x.op /\ z.path = x.path /\ z.dest = x.dest /\ z.pc = req[r].pc
        /\ z.dir = x.dir /\ z.found = x.found
    BY <1>1, <2>1 DEF RequestType
  <2> HIDE DEF z
  <2>3. Keeps(req[r], z)
    BY <2>2 DEF Keeps
  <2>4. x.op = req[r].op /\ x.pc = req[r].pc
    BY DEF Keeps
  <2> QED
    BY <1>1, <2>3, <2>4 DEF Moved, z
<1> QED
  BY <1>5, <1>6

LEMMA Stopped ==
  ASSUME RequestsInv, NEW r \in Requests, Fails(r)
  PROVE  RequestsInv' /\ Moved(r)
<1>1. /\ req' \in [Requests -> RequestType]
      /\ \A o \in Requests \ {r} : req'[o] = req[o]
      /\ req'[r].status = "failed" /\ req'[r].op = req[r].op
      /\ req'[r].pc = req[r].pc /\ req'[r].found = req[r].found
      /\ req'[r].path = req[r].path /\ req'[r].dest = req[r].dest
  BY Failed DEF RequestsInv
<1> QED
  BY <1>1 DEF RequestsInv, InFlight, Moved

LEMMA Where ==
  ASSUME RequestsInv, NEW r \in Requests, NEW label, At(r, label)
  PROVE  /\ InFlight(r) /\ Plan(req[r].op)[req[r].pc] = label
         /\ req[r] \in RequestType /\ Knows(req[r], req[r].pc)
         /\ req[r].op \in Ops /\ req[r].pc \in 1 .. Len(Plan(req[r].op))
  BY DEF RequestsInv, At, Knows

\* Only two steps lead to a position where more must be known.
LEMMA Steady ==
  ASSUME RequestsInv, NEW r \in Requests, NEW label, At(r, label),
         label \notin {"read_current", "find_version"},
         NEW x \in RequestType, Keeps(req[r], x),
         x.dest # Root, x.node \in Nodes, x.sum = req[r].sum,
         x.op = "version" => x.found = req[r].found,
         Resume(r, x, 1)
  PROVE  RequestsInv' /\ Moved(r)
<1>0. x.op = req[r].op /\ x.pc = req[r].pc /\ x.path = req[r].path
  BY DEF Keeps
<1>1. /\ Plan(x.op)[x.pc] = label /\ Knows(req[r], x.pc)
      /\ x.op \in Ops /\ x.pc \in 1 .. Len(Plan(x.op)) /\ Len(Plan(x.op)) \in Nat
  BY <1>0, Where, PlanLength
<1>2. /\ ~(x.op = "save" /\ x.pc = 2)
      /\ ~(x.op \in {"upload", "chunked", "version"} /\ x.pc = 3)
      /\ ~(x.op = "version" /\ x.pc = 2)
  BY <1>1, Positions
<1>3. Snapping(x.op, x.pc + 1) => Snapping(x.op, x.pc)
  BY <1>1, <1>2 DEF Snapping
<1>4. x.op = "version" /\ x.pc + 1 >= 3 => x.pc >= 3
  BY <1>1, <1>2
<1>5. Knows(x, x.pc + 1)
  BY <1>0, <1>1, <1>3, <1>4 DEF Knows
<1> QED
  BY <1>5, Advance DEF Skips

LEMMA SteadyGoes ==
  ASSUME RequestsInv, NEW r \in Requests, NEW label, At(r, label),
         label \notin {"read_current", "find_version"}, Goes(r)
  PROVE  RequestsInv' /\ Moved(r)
<1>1. req[r] \in RequestType /\ Knows(req[r], req[r].pc)
  BY Where
<1>2. Keeps(req[r], req[r])
  BY DEF Keeps
<1>3. Resume(r, req[r], 1)
  BY DEF Goes
<1>4. req[r].dest # Root /\ req[r].node \in Nodes
  BY <1>1 DEF Knows
<1> QED
  BY <1>1, <1>2, <1>3, <1>4, Steady

----------------------------------------------------------------------------
(* What the handlers remember, step by step.                               *)

\* The rows a handler looks at have the types of the table.
LEMMA RowRead ==
  ASSUME FP!StoreInv(store), NEW p, Live(store, p)
  PROVE  /\ RowAt(store, p) \in store.rows /\ RowAt(store, p).path = p
         /\ RowAt(store, p).dir \in BOOLEAN /\ RowAt(store, p).node \in Nodes
         /\ RowAt(store, p).sum \in Contents \cup {NoSum}
         /\ IsFile(store, p) => RowAt(store, p).sum \in Contents
<1>1. /\ RowAt(store, p) \in store.rows /\ RowAt(store, p).path = p
      /\ IsFile(store, p) => RowAt(store, p).sum \in Contents
  BY Assumed, FP!RowAtLive, SameQueries
<1>2. store.rows \subseteq RowType
  BY SameTypes DEF FP!StoreInv, FP!RowsInv
<1> QED
  BY <1>1, <1>2 DEF RowType

LEMMA FileIsLive ==
  ASSUME NEW p, IsFile(store, p)
  PROVE  Live(store, p)
  BY DEF IsFile, Live

LEMMA ReadsKnow ==
  ASSUME IInv, NEW r \in Requests,
         \/ FindSource(r) \/ FindFile(r) \/ FindNone(r) \/ FindParent(r)
         \/ FindExisting(r) \/ ReadBack(r)
  PROVE  RequestsInv' /\ Moved(r)
<1> DEFINE x == req[r]
<1>1. RequestsInv /\ FP!StoreInv(store)
  BY DEF IInv
<1>2. CASE FindSource(r)
  <2>1. At(r, "find_source")
    BY <1>2 DEF FindSource
  <2>2. CASE Live(store, x.path)
    <3> DEFINE y == [x EXCEPT !.dir = RowAt(store, x.path).dir]
    <3>1. Resume(r, y, 1)
      BY <1>2, <2>2 DEF FindSource, Learns
    <3>2. /\ x \in RequestType /\ RowAt(store, x.path).dir \in BOOLEAN /\ Knows(x, x.pc)
          /\ x.pc = 1
      BY <1>1, <2>1, <2>2, RowRead, Where, Positions
    <3>3. /\ y \in RequestType /\ y.op = x.op /\ y.pc = x.pc /\ y.path = x.path
          /\ y.dest = x.dest /\ y.node = x.node /\ y.sum = x.sum /\ y.found = x.found
      BY <3>2 DEF RequestType
    <3> HIDE DEF y
    <3>4. y.dest # Root /\ y.node \in Nodes /\ Keeps(x, y)
      BY <3>2, <3>3 DEF Knows, Keeps
    <3> QED
      BY <1>1, <2>1, <3>1, <3>3, <3>4, Steady
  <2>3. CASE ~Live(store, x.path)
    BY <1>1, <1>2, <2>3, Stopped DEF FindSource
  <2> QED
    BY <2>2, <2>3
<1>3. CASE FindFile(r)
  <2>1. At(r, "find_file")
    BY <1>3 DEF FindFile
  <2>2. CASE IsFile(store, x.path)
    <3> DEFINE y == [x EXCEPT !.node = RowAt(store, x.path).node]
    <3>1. Resume(r, y, 1)
      BY <1>3, <2>2 DEF FindFile, Learns
    <3>2. x \in RequestType /\ RowAt(store, x.path).node \in Nodes /\ Knows(x, x.pc)
      BY <1>1, <2>1, <2>2, FileIsLive, RowRead, Where
    <3>3. /\ y \in RequestType /\ y.op = x.op /\ y.pc = x.pc /\ y.path = x.path
          /\ y.dest = x.dest /\ y.node \in Nodes /\ y.sum = x.sum /\ y.found = x.found
          /\ y.dir = x.dir
      BY <3>2 DEF RequestType
    <3> HIDE DEF y
    <3>4. y.dest # Root /\ Keeps(x, y)
      BY <3>2, <3>3 DEF Knows, Keeps
    <3> QED
      BY <1>1, <2>1, <3>1, <3>3, <3>4, Steady
  <2>3. CASE ~IsFile(store, x.path)
    BY <1>1, <1>3, <2>3, Stopped DEF FindFile
  <2> QED
    BY <2>2, <2>3
<1>4. CASE FindNone(r)
  BY <1>1, <1>4, SteadyGoes, Stopped DEF FindNone
<1>5. CASE FindParent(r)
  BY <1>1, <1>5, SteadyGoes, Stopped DEF FindParent
<1>6. CASE FindExisting(r)
  <2>1. At(r, "find_existing")
    BY <1>6 DEF FindExisting
  <2>2. /\ x \in RequestType /\ Knows(x, x.pc)
        /\ x.op \in Ops /\ x.pc \in 1 .. Len(Plan(x.op)) /\ Plan(x.op)[x.pc] = "find_existing"
    BY <1>1, <2>1, Where
  <2>3. x.op \in {"upload", "chunked"} /\ x.pc = 2
    BY <2>2, Positions
  <2>4. CASE ~Live(store, x.path)
    <3>1. Resume(r, x, 7)
      BY <1>6, <2>4, FileIsLive DEF FindExisting
    <3>2. Knows(x, x.pc + 7) /\ Keeps(x, x)
      BY <2>2, <2>3 DEF Knows, Snapping, Keeps
    <3> QED
      BY <1>1, <2>1, <2>2, <2>3, <3>1, <3>2, Advance DEF Skips
  <2>5. CASE Live(store, x.path) /\ IsFile(store, x.path) /\ x.over
    <3> DEFINE y == [x EXCEPT !.node = RowAt(store, x.path).node]
    <3>1. Resume(r, y, 1)
      BY <1>6, <2>5 DEF FindExisting, Learns
    <3>2. RowAt(store, x.path).node \in Nodes
      BY <1>1, <2>5, RowRead
    <3>3. /\ y \in RequestType /\ y.op = x.op /\ y.pc = x.pc /\ y.path = x.path
          /\ y.dest = x.dest /\ y.node \in Nodes /\ y.sum = x.sum /\ y.found = x.found
          /\ y.dir = x.dir
      BY <2>2, <3>2 DEF RequestType
    <3> HIDE DEF y
    <3>4. y.dest # Root /\ Keeps(x, y)
      BY <2>2, <3>3 DEF Knows, Keeps
    <3> QED
      BY <1>1, <2>1, <3>1, <3>3, <3>4, Steady
  <2>6. CASE Live(store, x.path) /\ ~(IsFile(store, x.path) /\ x.over)
    <3>1. Fails(r)
      BY <1>6, <2>6 DEF FindExisting
    <3> QED
      BY <1>1, <3>1, Stopped
  <2> QED
    BY <2>4, <2>5, <2>6
<1>7. CASE ReadBack(r)
  BY <1>1, <1>7, SteadyGoes, Stopped DEF ReadBack
<1> QED
  BY <1>2, <1>3, <1>4, <1>5, <1>6, <1>7

LEMMA TrashReadsKnow ==
  ASSUME IInv, NEW r \in Requests, FindRoot(r) \/ FindVersion(r) \/ ReadRefs(r)
  PROVE  RequestsInv' /\ Moved(r)
<1> DEFINE x == req[r]
<1>1. /\ RequestsInv /\ store.versions \subseteq VersionType /\ store.rows \subseteq RowType
      /\ \A t \in store.rows : t.orig # NoPath => Len(t.orig) >= 1
  BY SameTypes DEF IInv, FP!StoreInv, FP!RowsInv, FP!VersionsInv
<1>2. CASE FindRoot(r)
  <2>0. /\ At(r, "find_root") /\ x \in RequestType /\ Knows(x, x.pc)
        /\ x.op \in Ops /\ x.pc \in 1 .. Len(Plan(x.op)) /\ Plan(x.op)[x.pc] = "find_root"
    BY <1>1, <1>2, Where DEF FindRoot
  <2>1. At(r, "find_root") /\ x \in RequestType /\ Knows(x, x.pc) /\ x.pc = 1
    BY <2>0, Positions
  <2>2. CASE Fails(r)
    BY <1>1, <2>2, Stopped
  <2>3. ASSUME NEW t \in TrashRoots(store),
               Learns(r, [x EXCEPT !.dir = t.dir,
                                   !.dest = IF x.op = "restore" THEN t.orig ELSE x.dest])
        PROVE  RequestsInv' /\ Moved(r)
    <3> DEFINE d == IF x.op = "restore" THEN t.orig ELSE x.dest
               y == [x EXCEPT !.dir = t.dir, !.dest = d]
    <3>1. Resume(r, y, 1)
      BY <2>3 DEF Learns
    <3>2. t.dir \in BOOLEAN /\ t.orig \in Path /\ t.orig # Root
      <4>1. t \in RowType /\ t.orig # NoPath /\ Len(t.orig) >= 1
        BY <1>1 DEF TrashRoots
      <4>2. Len(Root) = 0
        BY DEF Root
      <4> QED
        BY <4>1, <4>2 DEF RowType
    <3>3. d \in Path /\ d # Root
      BY <2>1, <3>2 DEF Knows, RequestType
    <3> HIDE DEF d
    <3>4. y \in RequestType
      BY <2>1, <3>2, <3>3 DEF RequestType
    <3>5. /\ y.op = x.op /\ y.pc = x.pc /\ y.path = x.path
          /\ y.dest = d /\ y.node = x.node /\ y.sum = x.sum /\ y.found = x.found
      BY <2>1 DEF RequestType
    <3> HIDE DEF y
    <3>6. y.dest # Root /\ y.node \in Nodes /\ Keeps(x, y)
      <4>1. x.op # "restore" => y.dest = x.dest
        BY <3>5 DEF d
      <4> QED
        BY <2>1, <3>3, <3>5, <4>1 DEF Knows, Keeps
    <3> QED
      BY <1>1, <2>1, <3>1, <3>4, <3>5, <3>6, Steady
  <2> QED
    BY <1>2, <2>2, <2>3 DEF FindRoot
<1>3. CASE FindVersion(r)
  <2>1. /\ At(r, "find_version") /\ x \in RequestType /\ Knows(x, x.pc)
        /\ x.op \in Ops /\ x.pc \in 1 .. Len(Plan(x.op)) /\ Plan(x.op)[x.pc] = "find_version"
    BY <1>1, <1>3, Where DEF FindVersion
  <2>2. x.op = "version" /\ x.pc = 2
    BY <2>1, Positions
  <2>3. CASE Fails(r)
    BY <1>1, <2>3, Stopped
  <2>4. ASSUME NEW v \in store.versions, Learns(r, [x EXCEPT !.found = {v}])
        PROVE  RequestsInv' /\ Moved(r)
    <3> DEFINE y == [x EXCEPT !.found = {v}]
    <3>1. Resume(r, y, 1)
      BY <2>4 DEF Learns
    <3>2. /\ y \in RequestType /\ y.op = x.op /\ y.pc = x.pc /\ y.path = x.path
          /\ y.dest = x.dest /\ y.dir = x.dir /\ y.node = x.node /\ y.found = {v}
      BY <1>1, <2>1 DEF RequestType
    <3> HIDE DEF y
    <3>3. Knows(y, y.pc + 1) /\ Keeps(x, y)
      BY <2>1, <2>2, <3>2 DEF Knows, Snapping, Keeps
    <3> QED
      BY <1>1, <3>1, <3>2, <3>3, Advance DEF Skips
  <2> QED
    BY <1>3, <2>3, <2>4 DEF FindVersion, VersionsAt
<1>4. CASE ReadRefs(r)
  <2>1. /\ At(r, "read_refs") /\ x \in RequestType /\ Knows(x, x.pc)
        /\ x.op \in Ops /\ x.pc \in 1 .. Len(Plan(x.op)) /\ Plan(x.op)[x.pc] = "read_refs"
    BY <1>1, <1>4, Where DEF ReadRefs
  <2> DEFINE found == {v \in store.versions : Covers(x.path, v.path)}
             y == [x EXCEPT !.found = found]
  <2>2. Resume(r, y, 1)
    BY <1>4 DEF ReadRefs, Learns
  <2>3. found \in SUBSET VersionType /\ found \subseteq store.versions
    BY <1>1
  <2> HIDE DEF found
  <2>4. /\ y \in RequestType /\ y.op = x.op /\ y.pc = x.pc /\ y.path = x.path
        /\ y.dest = x.dest /\ y.dir = x.dir /\ y.node = x.node /\ y.sum = x.sum
        /\ y.found = found
    BY <2>1, <2>3 DEF RequestType
  <2> HIDE DEF y
  <2>5. x.op = "purge" /\ x.pc = 2
    BY <2>1, Positions
  <2>6. y.dest # Root /\ y.node \in Nodes /\ Keeps(x, y)
    BY <2>1, <2>3, <2>4, <2>5 DEF Knows, Keeps
  <2> QED
    BY <1>1, <2>1, <2>2, <2>4, <2>5, <2>6, Steady
<1> QED
  BY <1>2, <1>3, <1>4

LEMMA SnapshotKnows ==
  ASSUME IInv, NEW r \in Requests,
         ReadCurrent(r) \/ CopyBlob(r) \/ ReadMax(r) \/ InsertVersion(r)
  PROVE  RequestsInv' /\ Moved(r)
<1> DEFINE x == req[r]
<1>1. RequestsInv /\ FP!StoreInv(store)
  BY DEF IInv
<1>2. CASE ReadCurrent(r)
  <2>1. /\ At(r, "read_current") /\ x \in RequestType /\ Knows(x, x.pc)
        /\ x.op \in Ops /\ x.pc \in 1 .. Len(Plan(x.op)) /\ Plan(x.op)[x.pc] = "read_current"
    BY <1>1, <1>2, Where DEF ReadCurrent
  <2>2. \/ x.op = "save" /\ x.pc = 2
        \/ x.op \in {"upload", "chunked", "version"} /\ x.pc = 3
    BY <2>1, Positions
  <2>3. CASE IsFile(store, x.path)
    <3> DEFINE y == [x EXCEPT !.sum = RowAt(store, x.path).sum]
    <3>1. Resume(r, y, 1)
      BY <1>2, <2>3 DEF ReadCurrent, Learns
    <3>2. RowAt(store, x.path).sum \in Contents
      BY <1>1, <2>3, FileIsLive, RowRead
    <3>3. /\ y \in RequestType /\ y.op = x.op /\ y.pc = x.pc /\ y.path = x.path
          /\ y.dest = x.dest /\ y.dir = x.dir /\ y.node = x.node
          /\ y.sum \in Contents /\ y.found = x.found
      BY <2>1, <3>2 DEF RequestType
    <3> HIDE DEF y
    <3>4. Knows(y, y.pc + 1) /\ Keeps(x, y)
      BY <2>1, <2>2, <3>3 DEF Knows, Keeps
    <3> QED
      BY <1>1, <3>1, <3>3, <3>4, Advance DEF Skips
  <2>4. CASE ~IsFile(store, x.path)
    <3>1. Resume(r, x, 4)
      BY <1>2, <2>4 DEF ReadCurrent
    <3>2. Knows(x, x.pc + 4) /\ Keeps(x, x)
      BY <2>1, <2>2 DEF Knows, Snapping, Keeps
    <3> QED
      BY <1>1, <2>1, <2>2, <3>1, <3>2, Advance DEF Skips
  <2> QED
    BY <2>3, <2>4
<1>3. CASE CopyBlob(r)
  <2>1. /\ At(r, "copy_blob") /\ x \in RequestType /\ Knows(x, x.pc)
        /\ x.op \in Ops /\ x.pc \in 1 .. Len(Plan(x.op)) /\ Plan(x.op)[x.pc] = "copy_blob"
    BY <1>1, <1>3, Where DEF CopyBlob
  <2>2. \/ x.op = "save" /\ x.pc = 3
        \/ x.op \in {"upload", "chunked", "version"} /\ x.pc = 4
    BY <2>1, Positions
  <2>3. CASE Goes(r)
    BY <1>1, <2>1, <2>3, SteadyGoes
  <2>4. CASE Resume(r, x, 3)
    <3>1. Knows(x, x.pc + 3) /\ Keeps(x, x)
      BY <2>1, <2>2 DEF Knows, Snapping, Keeps
    <3> QED
      BY <1>1, <2>1, <2>2, <2>4, <3>1, Advance DEF Skips
  <2> QED
    BY <1>3, <2>3, <2>4 DEF CopyBlob
<1>4. CASE ReadMax(r)
  <2>1. At(r, "read_max") /\ x \in RequestType /\ Knows(x, x.pc)
    BY <1>1, <1>4, Where DEF ReadMax
  <2> DEFINE y == [x EXCEPT !.max = NextNo(store, x.path) - 1]
  <2>2. Resume(r, y, 1)
    BY <1>4 DEF ReadMax, Learns
  <2>3. NextNo(store, x.path) \in Nat \ {0}
    BY <1>1, Assumed, FP!NextNoType, SameQueries
  <2>4. y \in RequestType
    BY <2>1, <2>3 DEF RequestType
  <2>5. /\ y.op = x.op /\ y.pc = x.pc /\ y.path = x.path
        /\ y.dest = x.dest /\ y.dir = x.dir
        /\ y.node = x.node /\ y.sum = x.sum /\ y.found = x.found
    BY <2>1 DEF RequestType
  <2> HIDE DEF y
  <2>6. y.dest # Root /\ y.node \in Nodes /\ Keeps(x, y)
    BY <2>1, <2>5 DEF Knows, Keeps
  <2> QED
    BY <1>1, <2>1, <2>2, <2>4, <2>5, <2>6, Steady
<1>5. CASE InsertVersion(r)
  BY <1>1, <1>5, SteadyGoes, Stopped DEF InsertVersion, Commits, GivesUp
<1> QED
  BY <1>2, <1>3, <1>4, <1>5

LEMMA WritesKnow ==
  ASSUME IInv, NEW r \in Requests,
         \/ DeleteRow(r) \/ RemoveBytes(r) \/ RemoveTree(r)
         \/ MakeUploadParents(r) \/ Stream(r) \/ Replace(r) \/ Adopt(r) \/ InsertRow(r)
         \/ InsertFirst(r) \/ WriteBytes(r) \/ MakeDirectory(r)
         \/ RenameOnDisk(r) \/ Commit(r)
         \/ DeleteVersions(r) \/ RemoveBlobs(r)
         \/ CopyBack(r) \/ UpdateChecksum(r)
  PROVE  RequestsInv' /\ Moved(r)
<1>1. RequestsInv
  BY DEF IInv
<1>2. ASSUME NEW label \in {"delete_row", "remove_bytes", "remove_tree", "make_parents",
                "stream", "replace", "adopt", "insert_row", "insert_first", "write_bytes",
                "make_directory", "rename_on_disk", "commit", "delete_versions",
                "remove_blobs", "copy_back", "update_checksum"},
             At(r, label), Goes(r) \/ Fails(r)
      PROVE  RequestsInv' /\ Moved(r)
  BY <1>1, <1>2, SteadyGoes, Stopped
<1>3. CASE DeleteRow(r) \/ RemoveBytes(r) \/ RemoveTree(r)
  BY <1>2, <1>3 DEF DeleteRow, RemoveBytes, RemoveTree, Commits, GivesUp
<1>4. CASE MakeUploadParents(r) \/ Stream(r) \/ Replace(r) \/ Adopt(r)
  BY <1>2, <1>4 DEF MakeUploadParents, Stream, Replace, Adopt
<1>5. CASE InsertRow(r) \/ InsertFirst(r)
  BY <1>2, <1>5 DEF InsertRow, InsertFirst, Commits, GivesUp
<1>6. CASE WriteBytes(r) \/ MakeDirectory(r)
  BY <1>2, <1>6 DEF WriteBytes, MakeDirectory
<1>7. CASE RenameOnDisk(r) \/ Commit(r)
  BY <1>2, <1>7 DEF RenameOnDisk, Commit, GivesUp
<1>8. CASE DeleteVersions(r) \/ RemoveBlobs(r)
  BY <1>2, <1>8 DEF DeleteVersions, RemoveBlobs, Commits, GivesUp
<1>9. CASE CopyBack(r) \/ UpdateChecksum(r)
  BY <1>2, <1>9 DEF CopyBack, UpdateChecksum, Commits, GivesUp
<1> QED
  BY <1>3, <1>4, <1>5, <1>6, <1>7, <1>8, <1>9

LEMMA RequestsStep ==
  ASSUME IInv, NEW r \in Requests, Step(r)
  PROVE  RequestsInv' /\ Moved(r)
  BY ReadsKnow, TrashReadsKnow, SnapshotKnows, WritesKnow DEF Step

----------------------------------------------------------------------------
(* What the steps do to the store: to the disk first.                      *)

LEMMA DiskReplaced ==
  ASSUME FP!StoreInv(store), NEW d, FP!DiskInv(d), store' = [store EXCEPT !.disk = d]
  PROVE  /\ FP!StoreInv(store') /\ store'.disk = d
         /\ store'.rows = store.rows /\ store'.versions = store.versions
<1> DEFINE R == SUBSET RowType
           V == SUBSET VersionType
           D == SUBSET EntryType
<1>1. store \in [rows : R, versions : V, disk : D]
  BY SameTypes DEF FP!StoreInv, StoreType
<1> HIDE DEF R, V, D
<1>2. /\ store'.disk = d
      /\ store'.rows = store.rows /\ store'.versions = store.versions
  BY <1>1
<1>3. FP!StoreInv([store EXCEPT !.disk = d])
  BY Assumed, FP!StoreUpdates
<1> QED
  BY <1>2, <1>3

LEMMA DiskType ==
  ASSUME FP!StoreInv(store)
  PROVE  /\ store.disk \subseteq EntryType /\ FP!DiskInv(store.disk)
         /\ \A d : d \subseteq store.disk => FP!DiskInv(d)
         /\ \A d : FP!DiskInv(d) <=> d \subseteq EntryType
  BY SameTypes DEF FP!StoreInv, FP!DiskInv

LEMMA LongPath ==
  ASSUME NEW p \in Path
  PROVE  /\ Len(p) \in Nat /\ (p # Root <=> Len(p) >= 1)
         /\ ParentOf(p) \in Path
         /\ \A n \in Segments : Append(p, n) \in Path /\ Append(p, n) # Root
<1>1. /\ Len(p) \in Nat /\ (p # Root <=> Len(p) >= 1)
  BY DEF Path, Root
<1>2. ParentOf(p) \in Path
  BY Assumed, FP!ParentPath, SameTypes, SamePaths
<1>3. ASSUME NEW n \in Segments
      PROVE  Append(p, n) \in Path /\ Append(p, n) # Root
  <2>1. Append(p, n) \in Path /\ Len(Append(p, n)) = Len(p) + 1
    BY DEF Path
  <2>2. Len(Root) = 0
    BY DEF Root
  <2> QED
    BY <1>1, <2>1, <2>2
<1> QED
  BY <1>1, <1>2, <1>3

\* What a handler writes and moves has a proper path.
LEMMA RequestPaths ==
  ASSUME RequestsInv, NEW r \in Requests, InFlight(r)
  PROVE  /\ req[r].path \in Path /\ Len(req[r].path) >= 1
         /\ req[r].dest \in Path /\ Len(req[r].dest) >= 1
         /\ req[r].dir \in BOOLEAN /\ req[r].node \in Nodes /\ req[r].found \in SUBSET VersionType
         /\ r \in Contents /\ r \in Segments /\ r \in Refs /\ r \in Nodes
<1>1. req[r] \in RequestType /\ Knows(req[r], req[r].pc)
  BY DEF RequestsInv
<1>2. req[r].path \in Path /\ req[r].dest \in Path /\ req[r].dir \in BOOLEAN
      /\ req[r].found \in SUBSET VersionType
  BY <1>1 DEF RequestType
<1> QED
  BY <1>1, <1>2, LongPath, AsyncAssumption DEF Knows

LEMMA BlobType ==
  ASSUME NEW ref \in Refs
  PROVE  Blob(ref) \in Path
  BY Assumed, FP!BlobPath, SameDisk, SameTypes

\* Steps that change files only.
DiskStep(r) ==
  \/ CopyBlob(r) \/ RemoveBytes(r) \/ RemoveTree(r)
  \/ MakeUploadParents(r) \/ Stream(r) \/ Replace(r) \/ Adopt(r)
  \/ WriteBytes(r) \/ MakeDirectory(r)
  \/ RemoveBlobs(r) \/ CopyBack(r)

LEMMA DiskStepInv ==
  ASSUME IInv, NEW r \in Requests, DiskStep(r)
  PROVE  \E d : FP!DiskInv(d) /\ store' \in {store, [store EXCEPT !.disk = d]}
<1> DEFINE x == req[r]
           p == x.path
<1>1. FP!StoreInv(store) /\ RequestsInv
  BY DEF IInv
<1>2. InFlight(r)
  BY DEF DiskStep, CopyBlob, RemoveBytes, RemoveTree, MakeUploadParents, Stream, Replace,
         Adopt, WriteBytes, MakeDirectory, RemoveBlobs, CopyBack, At
<1>3. /\ p \in Path /\ Len(p) >= 1
      /\ r \in Contents /\ r \in Segments /\ r \in Refs
  BY <1>1, <1>2, RequestPaths
<1>4. /\ store.disk \subseteq EntryType /\ FP!DiskInv(store.disk)
      /\ \A d : d \subseteq store.disk => FP!DiskInv(d)
      /\ \A d : FP!DiskInv(d) <=> d \subseteq EntryType
  BY <1>1, DiskType
<1>5. \A d : FP!DiskInv(d) => FP!DiskInv(MakeParents(d, p)) /\ FP!DiskInv(WriteFile(d, p, r))
  <2>1. p \in FP!Path
    BY <1>3, SameTypes
  <2>2. \A d : FP!DiskInv(d) => FP!DiskInv(FP!MakeParents(d, p))
    BY <1>3, <2>1, Assumed, FP!MakeParentsDisk
  <2>3. \A d : FP!DiskInv(d) => FP!DiskInv(FP!WriteFile(d, p, r))
    BY <1>3, <2>1, Assumed, FP!WriteFileDisk
  <2> QED
    BY <2>2, <2>3, SameDisk
<1> SUFFICES \E d : FP!DiskInv(d) /\ (store' = store \/ store' = [store EXCEPT !.disk = d])
  OBVIOUS
<1> HIDE DEF x, p
<1>6. CASE CopyBlob(r)
  <2> DEFINE copies == {[e EXCEPT !.path = Blob(r)] : e \in FileOn(store.disk, p)}
  <2>1. \A e \in EntryType : [e EXCEPT !.path = Blob(r)] \in EntryType
    BY <1>3, BlobType DEF EntryType
  <2>2. copies \subseteq EntryType
    BY <1>4, <2>1 DEF FileOn
  <2>3. store' = [store EXCEPT !.disk = store.disk \cup copies]
    BY <1>6 DEF CopyBlob, Becomes, p, x
  <2> HIDE DEF copies
  <2> QED
    BY <1>4, <2>2, <2>3
<1>7. CASE RemoveBytes(r)
  <2>1. store' = [store EXCEPT !.disk = RemoveFileOn(store.disk, p)]
    BY <1>7 DEF RemoveBytes, Becomes, p, x
  <2>2. RemoveFileOn(store.disk, p) \subseteq store.disk
    BY DEF RemoveFileOn
  <2> QED
    BY <1>4, <2>1, <2>2
<1>8. CASE RemoveTree(r)
  <2> DEFINE d == IF x.dir THEN RemoveTreeOn(store.disk, p) ELSE RemoveFileOn(store.disk, p)
  <2>1. store' = [store EXCEPT !.disk = d]
    BY <1>8 DEF RemoveTree, Becomes, p, x
  <2>2. d \subseteq store.disk
    BY DEF RemoveFileOn, RemoveTreeOn
  <2> HIDE DEF d
  <2> QED
    BY <1>4, <2>1, <2>2
<1>9. CASE MakeUploadParents(r)
  <2>1. \/ store' = store
        \/ store' = [store EXCEPT !.disk = MakeParents(store.disk, p)]
    BY <1>9 DEF MakeUploadParents, Becomes, NoWrite, p, x
  <2> QED
    BY <1>4, <1>5, <2>1
<1>10. CASE Stream(r)
  <2> DEFINE part == [path |-> Part(r), data |-> r]
  <2>1. \/ store' = store
        \/ store' = [store EXCEPT !.disk = store.disk \cup {part}]
    BY <1>10 DEF Stream, Becomes, NoWrite
  <2>2. Part(r) \in Path
    BY <1>3, LongPath DEF Part, p, x
  <2>3. part \in EntryType
    BY <1>3, <2>2 DEF EntryType
  <2> HIDE DEF part
  <2> QED
    BY <1>4, <2>1, <2>3
<1>11. CASE Replace(r)
  <2> DEFINE rest == store.disk \ FileOn(store.disk, Part(r))
  <2>1. \/ store' = [store EXCEPT !.disk = rest]
        \/ store' = [store EXCEPT !.disk = WriteFile(rest, p, r)]
    BY <1>11 DEF Replace, Becomes, p, x
  <2>2. rest \subseteq store.disk
    OBVIOUS
  <2> HIDE DEF rest
  <2> QED
    BY <1>4, <1>5, <2>1, <2>2
<1>12. CASE Adopt(r)
  <2>1. \/ store' = store
        \/ store' = [store EXCEPT !.disk = WriteFile(store.disk, p, r)]
    BY <1>12 DEF Adopt, Becomes, NoWrite, p, x
  <2> QED
    BY <1>4, <1>5, <2>1
<1>13. CASE WriteBytes(r)
  <2>1. \/ store' = store
        \/ store' = [store EXCEPT !.disk = WriteFile(store.disk, p, r)]
    BY <1>13 DEF WriteBytes, Becomes, NoWrite, p, x
  <2> QED
    BY <1>4, <1>5, <2>1
<1>14. CASE MakeDirectory(r)
  <2> DEFINE new == [path |-> p, data |-> DIR]
  <2>1. \/ store' = store
        \/ store' = [store EXCEPT !.disk = MakeParents(store.disk, p) \cup {new}]
    BY <1>14 DEF MakeDirectory, Becomes, NoWrite, p, x
  <2>2. new \in EntryType
    BY <1>3 DEF EntryType
  <2> HIDE DEF new
  <2> QED
    BY <1>4, <1>5, <2>1, <2>2
<1>15. CASE RemoveBlobs(r)
  <2> DEFINE d == {e \in store.disk : \A v \in x.found : e.path # Blob(v.ref)}
  <2>1. store' = [store EXCEPT !.disk = d]
    BY <1>15 DEF RemoveBlobs, Becomes, x
  <2>2. d \subseteq store.disk
    OBVIOUS
  <2> HIDE DEF d
  <2> QED
    BY <1>4, <2>1, <2>2
<1>16. CASE CopyBack(r)
  <2>1. CASE store' = store
    BY <1>4, <2>1
  <2> DEFINE ver == CHOOSE v \in x.found : TRUE
             target == IF IsDirOn(store.disk, p) THEN Append(p, ver.ref) ELSE p
  <2>2. ASSUME NEW e \in FileOn(store.disk, Blob(ver.ref)),
               store' = [store EXCEPT !.disk = WriteFile(store.disk, target, e.data)]
        PROVE  \E d : FP!DiskInv(d) /\ store' = [store EXCEPT !.disk = d]
    <3>1. ver \in VersionType
      <4>1. At(r, "copy_back")
        BY <1>16 DEF CopyBack
      <4>2. /\ x.op \in Ops /\ x.pc \in 1 .. Len(Plan(x.op)) /\ Plan(x.op)[x.pc] = "copy_back"
            /\ Knows(x, x.pc)
        BY <1>1, <4>1, Where DEF x
      <4>3. x.op = "version" /\ x.pc = 7
        BY <4>2, Positions
      <4>4. x.found # {} /\ x.found \in SUBSET VersionType
        BY <1>1, <1>2, <4>2, <4>3, RequestPaths DEF Knows, x
      <4> QED
        BY <4>4
    <3>2. ver.ref \in Segments
      BY <3>1, StorageAssumption DEF VersionType
    <3> HIDE DEF ver
    <3>3. target \in Path /\ Len(target) >= 1
      <4>1. Append(p, ver.ref) \in Path /\ Append(p, ver.ref) # Root
        BY <1>3, <3>2, LongPath
      <4> QED
        BY <1>3, <4>1, LongPath
    <3>4. e.data \in Contents
      BY <1>4 DEF FileOn, EntryType
    <3> HIDE DEF target
    <3>5. FP!DiskInv(WriteFile(store.disk, target, e.data))
      BY <1>4, <3>3, <3>4, Assumed, FP!WriteFileDisk, SameDisk, SameTypes
    <3> QED
      BY <2>2, <3>5
  <2> QED
    BY <1>16, <2>1, <2>2 DEF CopyBack, Becomes, NoWrite, p, x
<1> QED
  BY <1>6, <1>7, <1>8, <1>9, <1>10, <1>11, <1>12, <1>13, <1>14, <1>15, <1>16 DEF DiskStep

----------------------------------------------------------------------------
(* What the steps do to the two tables.                                    *)

Whole(s) == s = [rows |-> s.rows, versions |-> s.versions, disk |-> s.disk]

LEMMA StoreParts ==
  ASSUME NEW s \in StoreType
  PROVE  /\ Whole(s)
         /\ \A a : LET n == [s EXCEPT !.rows = a]
                   IN  Whole(n) /\ n.rows = a /\ n.versions = s.versions /\ n.disk = s.disk
         /\ \A a : LET n == [s EXCEPT !.versions = a]
                   IN  Whole(n) /\ n.rows = s.rows /\ n.versions = a /\ n.disk = s.disk
         /\ \A a : LET n == [s EXCEPT !.disk = a]
                   IN  Whole(n) /\ n.rows = s.rows /\ n.versions = s.versions /\ n.disk = a
<1> DEFINE R == SUBSET RowType
           V == SUBSET VersionType
           D == SUBSET EntryType
<1>1. s \in [rows : R, versions : V, disk : D]
  BY DEF StoreType
<1> HIDE DEF R, V, D
<1>2. Whole(s)
  BY <1>1 DEF Whole
<1>3. ASSUME NEW n, NEW a, n = [s EXCEPT !.rows = a]
      PROVE  Whole(n) /\ n.rows = a /\ n.versions = s.versions /\ n.disk = s.disk
  BY <1>1, <1>3 DEF Whole
<1>4. ASSUME NEW n, NEW a, n = [s EXCEPT !.versions = a]
      PROVE  Whole(n) /\ n.rows = s.rows /\ n.versions = a /\ n.disk = s.disk
  BY <1>1, <1>4 DEF Whole
<1>5. ASSUME NEW n, NEW a, n = [s EXCEPT !.disk = a]
      PROVE  Whole(n) /\ n.rows = s.rows /\ n.versions = s.versions /\ n.disk = a
  BY <1>1, <1>5 DEF Whole
<1> QED
  BY <1>2, <1>3, <1>4, <1>5

LEMMA StoreTyped ==
  ASSUME NEW s, Whole(s), FP!RowsInv(s.rows), FP!VersionsInv(s.versions), FP!DiskInv(s.disk)
  PROVE  FP!StoreInv(s)
<1>1. s.rows \subseteq RowType /\ s.versions \subseteq VersionType /\ s.disk \subseteq EntryType
  BY SameTypes DEF FP!RowsInv, FP!VersionsInv, FP!DiskInv
<1> DEFINE a == s.rows
           b == s.versions
           c == s.disk
<1>2. [rows |-> a, versions |-> b, disk |-> c] \in StoreType
  BY <1>1 DEF StoreType
<1>3. s \in FP!StoreType
  BY <1>2, SameTypes DEF Whole
<1> QED
  BY <1>3 DEF FP!StoreInv

RowsChange(r) ==
  LET x == req[r]
  IN  \/ store'.rows = store.rows
      \/ /\ lock = NoOne /\ At(r, "delete_row")
         /\ store'.rows = {w \in store.rows : ~Covers(x.path, w.path)}
      \/ /\ lock = NoOne /\ At(r, "insert_row") /\ ~HasKey(store, x.path)
         /\ store'.rows = store.rows \cup {NewRow(x.path, FALSE, r, x.node)}
      \/ /\ lock = NoOne /\ At(r, "insert_first") /\ ~HasKey(store, x.path)
         /\ \/ /\ x.op = "folder"
               /\ store'.rows = store.rows \cup {NewRow(x.path, TRUE, NoSum, x.node)}
            \/ /\ x.op # "folder"
               /\ store'.rows = store.rows \cup {NewRow(x.path, FALSE, r, x.node)}
      \/ /\ lock = NoOne /\ At(r, "update_checksum")
         /\ \E v \in x.found : store'.rows = Rehashed(store.rows, x.path, v.sum)
      \/ /\ At(r, "commit")
         /\ LET rows == RelocateRows(store.rows, x.path, x.dest, x.dir)
            IN  \/ x.op = "delete" /\ store'.rows = Stamped(rows, x.dest, x.path)
                \/ x.op = "restore" /\ store'.rows = Unstamped(rows, x.dest)
                \/ x.op \notin {"delete", "restore"} /\ store'.rows = rows

NewVersion(r) == [path |-> req[r].path, no |-> req[r].max + 1, sum |-> req[r].sum, ref |-> r]

VersionsChange(r) ==
  LET x == req[r]
  IN  \/ store'.versions = store.versions
      \/ /\ At(r, "insert_version") /\ lock = NoOne
         /\ store'.versions = store.versions \cup {NewVersion(r)}
      \/ /\ At(r, "delete_versions") /\ lock = NoOne
         /\ store'.versions = {v \in store.versions : ~Covers(x.path, v.path)}
      \/ /\ At(r, "commit")
         /\ store'.versions = RelocateVersions(store.versions, x.path, x.dest, x.dir)

LEMMA StepTables ==
  ASSUME IInv, NEW r \in Requests, Step(r)
  PROVE  Whole(store') /\ FP!DiskInv(store'.disk) /\ RowsChange(r) /\ VersionsChange(r)
<1> DEFINE x == req[r]
<1>1. /\ RequestsInv /\ FP!StoreInv(store) /\ store \in StoreType /\ FP!DiskInv(store.disk)
      /\ LockInv
  BY SameTypes DEF IInv, FP!StoreInv
<1>p. /\ Whole(store)
      /\ \A a : LET n == [store EXCEPT !.rows = a]
                IN  Whole(n) /\ n.rows = a /\ n.versions = store.versions /\ n.disk = store.disk
      /\ \A a : LET n == [store EXCEPT !.versions = a]
                IN  Whole(n) /\ n.rows = store.rows /\ n.versions = a /\ n.disk = store.disk
      /\ \A a : LET n == [store EXCEPT !.disk = a]
                IN  Whole(n) /\ n.rows = store.rows /\ n.versions = store.versions /\ n.disk = a
  BY <1>1, StoreParts
<1>2. CASE store' = store
  BY <1>1, <1>p, <1>2 DEF RowsChange, VersionsChange
<1>3. ASSUME NEW d, FP!DiskInv(d), store' = [store EXCEPT !.disk = d]
      PROVE  Whole(store') /\ FP!DiskInv(store'.disk) /\ RowsChange(r) /\ VersionsChange(r)
  BY <1>p, <1>3 DEF RowsChange, VersionsChange
<1>4. CASE DiskStep(r)
  <2>1. PICK d : FP!DiskInv(d) /\ store' \in {store, [store EXCEPT !.disk = d]}
    BY <1>4, DiskStepInv
  <2> QED
    BY <1>2, <1>3, <2>1
<1>5. CASE \/ FindSource(r) \/ FindFile(r) \/ FindNone(r) \/ FindParent(r) \/ FindExisting(r)
           \/ FindRoot(r) \/ FindVersion(r) \/ ReadBack(r)
           \/ ReadCurrent(r) \/ ReadMax(r) \/ ReadRefs(r)
  BY <1>2, <1>5 DEF FindSource, FindFile, FindNone, FindParent, FindExisting, FindRoot,
     FindVersion, ReadBack, ReadCurrent, ReadMax, ReadRefs, NoWrite
<1>6. CASE InsertVersion(r)
  <2>1. CASE store' = [store EXCEPT !.versions = store.versions \cup {NewVersion(r)}]
             /\ lock = NoOne /\ At(r, "insert_version")
    BY <1>1, <1>p, <2>1 DEF RowsChange, VersionsChange
  <2> QED
    BY <1>2, <1>6, <2>1 DEF InsertVersion, Commits, Becomes, GivesUp, NewVersion
<1>7. CASE DeleteRow(r)
  <2>1. CASE store' = [store EXCEPT !.rows = {w \in store.rows : ~Covers(x.path, w.path)}]
             /\ lock = NoOne /\ At(r, "delete_row")
    BY <1>1, <1>p, <2>1 DEF RowsChange, VersionsChange
  <2> QED
    BY <1>2, <1>7, <2>1 DEF DeleteRow, Commits, Becomes, GivesUp
<1>8. CASE InsertRow(r)
  <2> DEFINE n == NewRow(x.path, FALSE, r, x.node)
             d == RemoveFileOn(store.disk, x.path)
  <2>1. CASE store' = [store EXCEPT !.rows = store.rows \cup {n}]
             /\ lock = NoOne /\ At(r, "insert_row") /\ ~HasKey(store, x.path)
    BY <1>1, <1>p, <2>1 DEF RowsChange, VersionsChange
  <2>2. CASE store' = [store EXCEPT !.disk = d]
    <3>1. d \subseteq store.disk
      BY DEF RemoveFileOn
    <3>2. FP!DiskInv(d)
      BY <1>1, <3>1, DiskType
    <3> QED
      BY <1>3, <2>2, <3>2
  <2> QED
    BY <1>8, <2>1, <2>2 DEF InsertRow, Commits, Becomes, GivesUp
<1>9. CASE InsertFirst(r)
  <2> DEFINE dir == x.op = "folder"
             n == NewRow(x.path, dir, IF dir THEN NoSum ELSE r, x.node)
  <2>1. CASE store' = [store EXCEPT !.rows = store.rows \cup {n}]
             /\ lock = NoOne /\ At(r, "insert_first") /\ ~HasKey(store, x.path)
    <3>1. \/ x.op = "folder" /\ n = NewRow(x.path, TRUE, NoSum, x.node)
          \/ x.op # "folder" /\ n = NewRow(x.path, FALSE, r, x.node)
      <4>1. CASE x.op = "folder"
        <5>1. dir = TRUE
          BY <4>1
        <5> QED
          BY <4>1, <5>1
      <4>2. CASE x.op # "folder"
        <5>1. dir = FALSE
          BY <4>2
        <5> QED
          BY <4>2, <5>1
      <4> QED
        BY <4>1, <4>2
    <3> HIDE DEF n
    <3> QED
      BY <1>1, <1>p, <2>1, <3>1 DEF RowsChange, VersionsChange
  <2> QED
    BY <1>2, <1>9, <2>1 DEF InsertFirst, Commits, Becomes, GivesUp, NoWrite
<1>10. CASE RenameOnDisk(r)
  <2> DEFINE d == RenameOn(store.disk, x.path, x.dest)
  <2>1. CASE store' = [store EXCEPT !.disk = d] /\ At(r, "rename_on_disk")
    <3>1. x.path \in FP!Path /\ x.dest \in FP!Path /\ Len(x.dest) >= 1
      BY <1>1, <2>1, RequestPaths, SameTypes DEF At
    <3>2. FP!DiskInv(d)
      BY <1>1, <3>1, Assumed, FP!RenameOnDisk, SameDisk
    <3> QED
      BY <1>3, <2>1, <3>2
  <2> QED
    BY <1>2, <1>10, <2>1 DEF RenameOnDisk, GivesUp
<1>11. CASE Commit(r)
  <2> DEFINE rows == RelocateRows(store.rows, x.path, x.dest, x.dir)
             a == CASE x.op = "delete"  -> Stamped(rows, x.dest, x.path)
                    [] x.op = "restore" -> Unstamped(rows, x.dest)
                    [] OTHER            -> rows
             b == RelocateVersions(store.versions, x.path, x.dest, x.dir)
  <2>1. store' = [store EXCEPT !.rows = a, !.versions = b] /\ At(r, "commit")
    BY <1>11 DEF Commit
  <2>2. \/ x.op = "delete" /\ a = Stamped(rows, x.dest, x.path)
        \/ x.op = "restore" /\ a = Unstamped(rows, x.dest)
        \/ x.op \notin {"delete", "restore"} /\ a = rows
    OBVIOUS
  <2> HIDE DEF a, b
  <2>3. Whole(store') /\ store'.rows = a /\ store'.versions = b /\ store'.disk = store.disk
    <3> DEFINE R == SUBSET RowType
               V == SUBSET VersionType
               D == SUBSET EntryType
    <3>1. store \in [rows : R, versions : V, disk : D]
      BY <1>1 DEF StoreType
    <3> HIDE DEF R, V, D
    <3> QED
      BY <2>1, <3>1 DEF Whole
  <2> QED
    BY <1>1, <2>1, <2>2, <2>3 DEF RowsChange, VersionsChange, b
<1>12. CASE DeleteVersions(r)
  <2>1. CASE store' = [store EXCEPT !.versions = {v \in store.versions : ~Covers(x.path, v.path)}]
             /\ lock = NoOne /\ At(r, "delete_versions")
    BY <1>1, <1>p, <2>1 DEF RowsChange, VersionsChange
  <2> QED
    BY <1>2, <1>12, <2>1 DEF DeleteVersions, Commits, Becomes, GivesUp
<1>13. CASE UpdateChecksum(r)
  <2> DEFINE ver == CHOOSE v \in x.found : TRUE
  <2>1. CASE store' = [store EXCEPT !.rows = Rehashed(store.rows, x.path, ver.sum)]
             /\ lock = NoOne /\ At(r, "update_checksum")
    <3>1. x.op = "version" /\ x.pc = 8 /\ Knows(x, x.pc)
      BY <1>1, <2>1, Where, Positions
    <3>2. ver \in x.found
      BY <3>1 DEF Knows
    <3> HIDE DEF ver
    <3> QED
      BY <1>1, <1>p, <2>1, <3>2 DEF RowsChange, VersionsChange
  <2> QED
    BY <1>2, <1>13, <2>1 DEF UpdateChecksum, Commits, Becomes, GivesUp
<1> QED
  BY <1>4, <1>5, <1>6, <1>7, <1>8, <1>9, <1>10, <1>11, <1>12, <1>13 DEF Step, DiskStep

LEMMA TablesTyped ==
  ASSUME IInv, NEW r \in Requests, Step(r)
  PROVE  FP!StoreInv(store')
<1> DEFINE x == req[r]
<1>1. /\ RequestsInv /\ LockInv /\ FP!StoreInv(store)
      /\ FP!RowsInv(store.rows) /\ FP!VersionsInv(store.versions)
  BY DEF IInv, FP!StoreInv
<1>2. Whole(store') /\ FP!DiskInv(store'.disk) /\ RowsChange(r) /\ VersionsChange(r)
  BY StepTables
<1>3. FP!RowsInv(store'.rows)
  <2>1. CASE store'.rows = store.rows
    BY <1>1, <2>1
  <2>2. CASE At(r, "delete_row") /\ store'.rows = {w \in store.rows : ~Covers(x.path, w.path)}
    BY <1>1, <2>2 DEF FP!RowsInv, FP!KeysUnique
  <2>3. ASSUME NEW dir \in BOOLEAN, NEW sum \in Contents \cup {NoSum}, ~dir => sum \in Contents,
               InFlight(r), ~HasKey(store, x.path),
               store'.rows = store.rows \cup {NewRow(x.path, dir, sum, x.node)}
        PROVE  FP!RowsInv(store'.rows)
    <3>1. x.path \in FP!Path /\ Len(x.path) >= 1 /\ x.node \in Nodes
      BY <1>1, <2>3, RequestPaths, SameTypes
    <3>2. FP!RowsInv(store.rows \cup {FP!NewRow(x.path, dir, sum, x.node)})
      BY <1>1, <2>3, <3>1, Assumed, FP!InsertRow, SameQueries
    <3> QED
      BY <2>3, <3>2, SameRows
  <2>4. CASE /\ At(r, "insert_row") /\ ~HasKey(store, x.path)
             /\ store'.rows = store.rows \cup {NewRow(x.path, FALSE, r, x.node)}
    BY <2>3, <2>4, AsyncAssumption DEF At
  <2>5. CASE /\ At(r, "insert_first") /\ ~HasKey(store, x.path)
             /\ \/ /\ x.op = "folder"
                   /\ store'.rows = store.rows \cup {NewRow(x.path, TRUE, NoSum, x.node)}
                \/ /\ x.op # "folder"
                   /\ store'.rows = store.rows \cup {NewRow(x.path, FALSE, r, x.node)}
    BY <2>3, <2>5, AsyncAssumption DEF At
  <2>6. CASE /\ At(r, "update_checksum")
             /\ \E v \in x.found : store'.rows = Rehashed(store.rows, x.path, v.sum)
    <3>1. PICK v \in x.found : store'.rows = Rehashed(store.rows, x.path, v.sum)
      BY <2>6
    <3>2. v.sum \in Contents
      BY <1>1, <2>6, RequestPaths DEF At, VersionType
    <3> QED
      BY <1>1, <3>1, <3>2, Assumed, FP!ChecksumUpdated, SameRows
  <2>7. CASE /\ At(r, "commit")
             /\ LET rows == RelocateRows(store.rows, x.path, x.dest, x.dir)
                IN  \/ x.op = "delete" /\ store'.rows = Stamped(rows, x.dest, x.path)
                    \/ x.op = "restore" /\ store'.rows = Unstamped(rows, x.dest)
                    \/ x.op \notin {"delete", "restore"} /\ store'.rows = rows
    <3> DEFINE rows == RelocateRows(store.rows, x.path, x.dest, x.dir)
    <3>1. /\ x.path \in FP!Path /\ Len(x.path) >= 1
          /\ x.dest \in FP!Path /\ Len(x.dest) >= 1 /\ x.dir \in BOOLEAN
      BY <1>1, <2>7, RequestPaths, SameTypes DEF At
    <3>2. lock = r
      BY <1>1, <2>7, Where, Positions DEF LockInv, Committing
    <3>3. ~FP!KeyClash(store.rows, x.path, x.dest, x.dir)
      BY <1>1, <3>2, SameRows DEF LockInv
    <3>4. FP!RowsInv(rows)
      BY <1>1, <3>1, <3>3, Assumed, FP!RelocateRowsInv, SameRows
    <3> HIDE DEF rows
    <3>5. FP!RowsInv(Stamped(rows, x.dest, x.path)) /\ FP!RowsInv(Unstamped(rows, x.dest))
      BY <3>1, <3>4, Assumed, FP!StampedInv, FP!UnstampedInv, SameRows
    <3> QED
      BY <2>7, <3>4, <3>5 DEF rows
  <2> QED
    BY <1>2, <2>1, <2>2, <2>4, <2>5, <2>6, <2>7 DEF RowsChange
<1>4. FP!VersionsInv(store'.versions)
  <2>1. CASE store'.versions = store.versions
    BY <1>1, <2>1
  <2>2. CASE At(r, "insert_version") /\ store'.versions = store.versions \cup {NewVersion(r)}
    <3>1. /\ x \in RequestType /\ Knows(x, x.pc)
          /\ x.op \in Ops /\ x.pc \in 1 .. Len(Plan(x.op)) /\ Plan(x.op)[x.pc] = "insert_version"
      BY <1>1, <2>2, Where
    <3>2. Snapping(x.op, x.pc)
      BY <3>1, Positions DEF Snapping
    <3>3. x.sum \in Contents /\ x.max + 1 \in Nat \ {0} /\ x.path \in Path /\ r \in Refs
      BY <3>1, <3>2, AsyncAssumption DEF Knows, RequestType
    <3>4. NewVersion(r) \in VersionType
      BY <3>3 DEF NewVersion, VersionType
    <3> QED
      BY <1>1, <2>2, <3>4, SameTypes, Assumed, FP!FS_AddElement DEF FP!VersionsInv
  <2>3. CASE store'.versions \subseteq store.versions
    BY <1>1, <2>3, Assumed, FP!FS_Subset DEF FP!VersionsInv
  <2>4. CASE At(r, "commit")
             /\ store'.versions = RelocateVersions(store.versions, x.path, x.dest, x.dir)
    <3>1. /\ x.path \in FP!Path /\ x.dest \in FP!Path /\ Len(x.dest) >= 1 /\ x.dir \in BOOLEAN
      BY <1>1, <2>4, RequestPaths, SameTypes DEF At
    <3> QED
      BY <1>1, <2>4, <3>1, Assumed, FP!RelocateVersionsInv, SameRows
  <2> QED
    BY <1>2, <2>1, <2>2, <2>3, <2>4 DEF VersionsChange
<1> QED
  BY <1>2, <1>3, <1>4, StoreTyped

----------------------------------------------------------------------------
(* The lock, and the other steps.                                          *)

LEMMA StepLock ==
  ASSUME NEW r \in Requests, Step(r)
  PROVE  \/ /\ At(r, "rename_on_disk") /\ lock = NoOne /\ lock' = r /\ Goes(r)
            /\ ~KeyClash(store.rows, req[r].path, req[r].dest, req[r].dir)
         \/ At(r, "commit") /\ lock' = NoOne
         \/ lock' = lock /\ (At(r, "rename_on_disk") => Fails(r))
<1>1. CASE RenameOnDisk(r)
  BY <1>1 DEF RenameOnDisk, RelocateFails, RolledBack, GivesUp
<1>2. CASE Commit(r)
  BY <1>2 DEF Commit
<1>3. CASE \/ FindSource(r) \/ FindFile(r) \/ FindNone(r) \/ FindParent(r) \/ FindExisting(r)
           \/ FindVersion(r) \/ ReadBack(r)
           \/ ReadCurrent(r) \/ ReadMax(r) \/ ReadRefs(r)
  BY <1>3 DEF FindSource, FindFile, FindNone, FindParent, FindExisting, FindVersion,
     ReadBack, ReadCurrent, ReadMax, ReadRefs, NoWrite, At
<1>4. CASE \/ FindRoot(r) \/ CopyBlob(r) \/ InsertVersion(r)
           \/ DeleteRow(r) \/ RemoveBytes(r) \/ RemoveTree(r)
           \/ MakeUploadParents(r) \/ Stream(r) \/ Replace(r) \/ Adopt(r)
  BY <1>4 DEF FindRoot, CopyBlob, InsertVersion, DeleteRow, RemoveBytes, RemoveTree,
     MakeUploadParents, Stream, Replace, Adopt, Commits, Becomes, GivesUp, NoWrite, At
<1>5. CASE \/ InsertRow(r) \/ InsertFirst(r) \/ WriteBytes(r) \/ MakeDirectory(r)
           \/ DeleteVersions(r) \/ RemoveBlobs(r) \/ CopyBack(r) \/ UpdateChecksum(r)
  BY <1>5 DEF InsertRow, InsertFirst, WriteBytes, MakeDirectory, DeleteVersions, RemoveBlobs,
     CopyBack, UpdateChecksum, Commits, Becomes, GivesUp, NoWrite, At
<1> QED
  BY <1>1, <1>2, <1>3, <1>4, <1>5 DEF Step

LEMMA CommitHolds ==
  ASSUME IInv, NEW r \in Requests, At(r, "commit")
  PROVE  lock = r
<1>1. RequestsInv /\ LockInv
  BY DEF IInv
<1> QED
  BY <1>1, Where, Positions DEF LockInv, Committing

LEMMA LockStep ==
  ASSUME IInv, NEW r \in Requests, Step(r)
  PROVE  LockInv'
<1> DEFINE x == req[r]
           y == req'[r]
<1>1. RequestsInv /\ LockInv /\ RowsChange(r) /\ Moved(r) /\ RequestsInv' /\ NoOne \notin Requests
  BY StepTables, RequestsStep, AsyncAssumption DEF IInv
<1>2. InFlight(r) /\ x.op \in Ops /\ x.pc \in 1 .. Len(Plan(x.op)) /\ Len(Plan(x.op)) \in Nat
  <2>1. InFlight(r)
    BY DEF Step, FindSource, FindFile, FindNone, FindParent, FindExisting, FindRoot, FindVersion,
       ReadBack, ReadCurrent, CopyBlob, ReadMax, InsertVersion, DeleteRow, RemoveBytes,
       RemoveTree, MakeUploadParents, Stream, Replace, Adopt, InsertRow, InsertFirst,
       WriteBytes, MakeDirectory, RenameOnDisk, Commit, ReadRefs, DeleteVersions, RemoveBlobs,
       CopyBack, UpdateChecksum, At
  <2> QED
    BY <1>1, <2>1, PlanLength DEF RequestsInv, Knows
\* Its own position.
<1>3. InFlight(r)' /\ Committing(y.op, y.pc) => At(r, "rename_on_disk") /\ ~Fails(r)
  <2> SUFFICES ASSUME InFlight(r)', Committing(y.op, y.pc)
               PROVE  At(r, "rename_on_disk") /\ ~Fails(r)
    OBVIOUS
  <2>0. y \in RequestType /\ x \in RequestType /\ x.pc \in Nat
    BY <1>1 DEF RequestsInv, RequestType
  <2>1. PICK n \in {1, 3, 4, 7} :
          /\ n # 1 => x.op \in {"upload", "chunked", "save", "version"}
          /\ Keeps(x, [y EXCEPT !.pc = x.pc]) /\ y.pc = x.pc + n
    <3>1. y.status # "failed"
      BY DEF InFlight
    <3> QED
      BY <1>1, <3>1, Zenon DEF Moved
  <2>2. y.op = x.op
    BY <2>0, <2>1 DEF Keeps, RequestType
  <2>3. n = 1 /\ x.pc + 1 = y.pc /\ Committing(x.op, x.pc + 1)
    BY <2>1, <2>2 DEF Committing
  <2>4. Plan(x.op)[x.pc] = "rename_on_disk"
    BY <1>2, <2>3, Positions DEF Committing
  <2>5. ~Fails(r)
    <3>1. Fails(r) => req'[r].status = "failed"
      BY <1>1, Failed DEF RequestsInv
    <3> QED
      BY <3>1 DEF InFlight
  <2> QED
    BY <1>2, <2>4, <2>5 DEF At
<1>4. Plan(x.op)[x.pc] = "commit" <=> Committing(x.op, x.pc)
  BY <1>2, Positions DEF Committing
<1>5. \A o \in Requests \ {r} : req'[o] = req[o] /\ (InFlight(o)' <=> InFlight(o))
  BY <1>1 DEF Moved, InFlight
<1>6. lock # NoOne /\ ~At(r, "commit") => store'.rows = store.rows
  BY <1>1 DEF RowsChange
<1>7. CASE /\ At(r, "rename_on_disk") /\ lock = NoOne /\ lock' = r /\ Goes(r)
           /\ ~KeyClash(store.rows, x.path, x.dest, x.dir)
  <2>1. x \in RequestType /\ Resume(r, x, 1) /\ x.pc + 1 \in Nat
    BY <1>1, <1>7 DEF RequestsInv, Goes, RequestType
  <2>2. /\ y.pc = x.pc + 1 /\ y.op = x.op /\ y.path = x.path /\ y.dest = x.dest /\ y.dir = x.dir
        /\ y.status = IF x.pc + 1 > Len(Plan(x.op)) THEN "ok" ELSE "run"
    BY <1>1, <2>1, Resumed DEF RequestsInv
  <2>3. Committing(x.op, x.pc + 1) /\ x.pc + 1 <= Len(Plan(x.op))
    <3>1. Plan(x.op)[x.pc] = "rename_on_disk"
      BY <1>7 DEF At
    <3>2. \/ x.op = "delete" /\ x.pc = 2
          \/ x.op = "rename" /\ x.pc = 3
          \/ x.op \in {"move", "restore"} /\ x.pc = 4
      BY <1>2, <3>1, Positions
    <3>3. /\ x.op = "delete" => Len(Plan(x.op)) = 3
          /\ x.op = "rename" => Len(Plan(x.op)) = 5
          /\ x.op \in {"move", "restore"} => Len(Plan(x.op)) = 6
      BY <1>2, Positions
    <3>4. Committing(x.op, x.pc + 1)
      BY <1>2, <3>2 DEF Committing
    <3>5. x.pc + 1 <= Len(Plan(x.op))
      <4>1. x.pc # Len(Plan(x.op))
        BY <3>2, <3>3, SMTT(30)
      <4> QED
        BY <1>2, <4>1
    <3> QED
      BY <3>4, <3>5
  <2>4. InFlight(r)' /\ Committing(y.op, y.pc)
    BY <1>2, <2>1, <2>2, <2>3 DEF InFlight
  <2>5. store'.rows = store.rows
    <3>1. Plan(x.op)[x.pc] = "rename_on_disk"
      BY <1>7 DEF At
    <3> QED
      BY <1>1, <3>1 DEF RowsChange, At
  <2>6. \A o \in Requests \ {r} : ~(InFlight(o)' /\ Committing(req'[o].op, req'[o].pc))
    BY <1>1, <1>5, <1>7 DEF LockInv
  <2> QED
    BY <1>5, <1>7, <2>2, <2>4, <2>5, <2>6 DEF LockInv
<1>8. CASE At(r, "commit") /\ lock' = NoOne
  <2>1. lock = r
    BY <1>8, CommitHolds
  <2>2. \A o \in Requests \ {r} : ~(InFlight(o)' /\ Committing(req'[o].op, req'[o].pc))
    BY <1>1, <1>5, <2>1 DEF LockInv
  <2>3. ~At(r, "rename_on_disk")
    BY <1>8 DEF At
  <2>4. ~(InFlight(r)' /\ Committing(y.op, y.pc))
    BY <1>3, <2>3
  <2> QED
    BY <1>1, <1>8, <2>2, <2>4 DEF LockInv
<1>9. CASE lock' = lock /\ (At(r, "rename_on_disk") => Fails(r)) /\ ~At(r, "commit")
  <2>1. ~(InFlight(r)' /\ Committing(y.op, y.pc))
    BY <1>3, <1>9
  <2>2. lock # r
    BY <1>1, <1>4, <1>9 DEF LockInv, At
  <2>3. \A o \in Requests \ {r} : lock = o => store'.rows = store.rows
    BY <1>1, <1>6, <1>9
  <2> QED
    BY <1>1, <1>5, <1>9, <2>1, <2>2, <2>3 DEF LockInv
<1>10. ~(At(r, "commit") /\ lock' = lock)
  <2> SUFFICES ASSUME At(r, "commit"), lock' = lock PROVE FALSE
    OBVIOUS
  <2>1. lock = r
    BY CommitHolds
  <2>2. Commit(r)
    BY <1>2 DEF Step, FindSource, FindFile, FindNone, FindParent, FindExisting, FindRoot,
       FindVersion, ReadBack, ReadCurrent, CopyBlob, ReadMax, InsertVersion, DeleteRow,
       RemoveBytes, RemoveTree, MakeUploadParents, Stream, Replace, Adopt, InsertRow,
       InsertFirst, WriteBytes, MakeDirectory, RenameOnDisk, ReadRefs, DeleteVersions,
       RemoveBlobs, CopyBack, UpdateChecksum, At
  <2> QED
    BY <1>1, <2>1, <2>2 DEF Commit
<1> QED
  BY <1>7, <1>8, <1>9, <1>10, StepLock

LEMMA NewRequest ==
  ASSUME NEW r \in Requests, NEW in \in Inputs
  PROVE  /\ Started(r, in) \in RequestType /\ Knows(Started(r, in), 1)
         /\ Started(r, in).status = "run" /\ Started(r, in).pc = 1
         /\ Started(r, in).op = in.op /\ Started(r, in).path = in.path
         /\ Started(r, in).dest = Destination(r, in)
         /\ Started(r, in).found = {} /\ Started(r, in).node = r
<1> DEFINE d == Destination(r, in)
           x == Started(r, in)
<1>1. /\ in \in [op : Ops, path : Path, dest : Path, over : BOOLEAN, no : Nat]
      /\ in.path # Root /\ (in.op \in {"rename", "move"} => in.dest # Root)
  BY InputAssumption
<1>2. r \in Segments /\ r \in Nodes
  BY AsyncAssumption
<1>3. d \in Path /\ d # Root
  <2>1. CASE in.op = "delete"
    <3>1. in.path \in Path /\ Len(in.path) >= 1
      BY <1>1, LongPath
    <3>2. NameOf(in.path) \in Segments
      BY <3>1, Assumed, FP!NamePath, SameTypes, SamePaths
    <3>3. <<TRASH, r, NameOf(in.path)>> \in Path /\ <<TRASH, r, NameOf(in.path)>> # << >>
      BY <1>2, <3>2, StorageAssumption DEF Path
    <3> QED
      BY <2>1, <3>3 DEF Destination, TrashPath, Root
  <2>2. CASE in.op \in {"rename", "move"}
    BY <1>1, <2>2 DEF Destination
  <2>3. CASE in.op \notin {"delete", "rename", "move"}
    BY <1>1, <2>3 DEF Destination
  <2> QED
    BY <2>1, <2>2, <2>3
<1> HIDE DEF d
<1>4. x = [status |-> "run", op |-> in.op, path |-> in.path, dest |-> d, over |-> in.over,
           no |-> in.no, pc |-> 1, dir |-> FALSE, node |-> r, sum |-> NoSum,
           max |-> 0, found |-> {}]
  BY DEF Started, d
<1>5. /\ in.op \in Ops /\ in.path \in Path /\ in.over \in BOOLEAN /\ in.no \in Nat
  BY <1>1
<1>6. x \in RequestType
  BY <1>2, <1>3, <1>4, <1>5 DEF RequestType
<1>7. Knows(x, 1)
  BY <1>1, <1>2, <1>3, <1>4 DEF Knows, Snapping
<1> QED
  BY <1>4, <1>6, <1>7 DEF d

LEMMA BeginRequests ==
  ASSUME IInv, NEW r \in Requests, NEW in \in Inputs, Begin(r, in)
  PROVE  /\ req[r].status = "idle" /\ req'[r] = Started(r, in)
         /\ \A o \in Requests \ {r} : req'[o] = req[o]
         /\ store' = store /\ lock' = lock /\ overlap' \in BOOLEAN /\ faults' = faults
         /\ RequestsInv'
<1> DEFINE x == Started(r, in)
<1>1. RequestsInv /\ overlap \in BOOLEAN
  BY DEF IInv
<1>2. x \in RequestType /\ Knows(x, 1) /\ x.status = "run" /\ x.pc = 1 /\ x.op \in Ops
  BY NewRequest DEF Knows
<1>3. req' = [req EXCEPT ![r] = x] /\ req[r].status = "idle"
      /\ store' = store /\ lock' = lock /\ overlap' = (overlap \/ Crosses(r, x)) /\ faults' = faults
  BY DEF Begin
<1> HIDE DEF x
<1>4. /\ req' \in [Requests -> RequestType] /\ req'[r] = x
      /\ \A o \in Requests \ {r} : req'[o] = req[o]
  BY <1>1, <1>2, <1>3 DEF RequestsInv
<1>5. x.pc \in 1 .. Len(Plan(x.op))
  <2>1. Len(Plan(x.op)) \in 3 .. 12
    BY <1>2, PlanLength
  <2>2. \A n \in 3 .. 12 : 1 \in 1 .. n
    OBVIOUS
  <2> QED
    BY <1>2, <2>1, <2>2
<1>6. RequestsInv'
  BY <1>1, <1>2, <1>4, <1>5 DEF RequestsInv, InFlight
<1>7. overlap' \in BOOLEAN
  <2>1. Crosses(r, x) \in BOOLEAN
    BY DEF Crosses
  <2> QED
    BY <1>1, <1>3, <2>1
<1> QED
  BY <1>3, <1>4, <1>6, <1>7 DEF x

LEMMA BeginStep ==
  ASSUME IInv, NEW r \in Requests, NEW in \in Inputs, Begin(r, in)
  PROVE  IInv'
<1>1. /\ req[r].status = "idle" /\ req'[r] = Started(r, in)
      /\ \A o \in Requests \ {r} : req'[o] = req[o]
      /\ store' = store /\ lock' = lock /\ overlap' \in BOOLEAN /\ faults' = faults
      /\ RequestsInv'
  BY BeginRequests
<1>2. LockInv'
  <2>1. LockInv /\ lock # r
    BY <1>1 DEF IInv, LockInv, InFlight
  <2>2. ~Committing(req'[r].op, req'[r].pc)
    BY <1>1, NewRequest DEF Committing
  <2> QED
    BY <1>1, <2>1, <2>2 DEF LockInv, InFlight
<1> QED
  BY <1>1, <1>2 DEF IInv

LEMMA CrashRequests ==
  ASSUME IInv, Crash
  PROVE  /\ req' \in [Requests -> RequestType] /\ \A o \in Requests : ~InFlight(o)'
         /\ store' = store /\ lock' = NoOne /\ overlap' = overlap /\ faults' = TRUE
         /\ \A o \in Requests :
              /\ req'[o].op = req[o].op /\ req'[o].pc = req[o].pc
              /\ req'[o].path = req[o].path /\ req'[o].dest = req[o].dest
              /\ req[o].status = "idle" <=> req'[o].status = "idle"
              /\ InFlight(o) => req'[o].status = "failed"
              /\ ~InFlight(o) => req'[o] = req[o]
<1>1. req \in [Requests -> RequestType]
  BY DEF IInv, RequestsInv
<1>2. ASSUME NEW x \in RequestType
      PROVE  /\ [x EXCEPT !.status = "failed"] \in RequestType
             /\ [x EXCEPT !.status = "failed"].status = "failed"
             /\ [x EXCEPT !.status = "failed"].op = x.op
             /\ [x EXCEPT !.status = "failed"].pc = x.pc
             /\ [x EXCEPT !.status = "failed"].path = x.path
             /\ [x EXCEPT !.status = "failed"].dest = x.dest
  BY DEF RequestType
<1>3. \A o \in Requests : req[o] \in RequestType
  BY <1>1
<1>4. /\ req' = [o \in Requests |-> IF InFlight(o) THEN [req[o] EXCEPT !.status = "failed"]
                                   ELSE req[o]]
      /\ lock' = NoOne /\ faults' = TRUE /\ store' = store /\ overlap' = overlap
  BY DEF Crash
<1>5. req' \in [Requests -> RequestType]
  BY <1>2, <1>3, <1>4
<1>6. \A o \in Requests : ~InFlight(o)'
  BY <1>2, <1>3, <1>4 DEF InFlight
<1>7. \A o \in Requests :
        /\ req'[o].op = req[o].op /\ req'[o].pc = req[o].pc
        /\ req'[o].path = req[o].path /\ req'[o].dest = req[o].dest
        /\ req[o].status = "idle" <=> req'[o].status = "idle"
        /\ InFlight(o) => req'[o].status = "failed"
        /\ ~InFlight(o) => req'[o] = req[o]
  BY <1>2, <1>3, <1>4 DEF InFlight
<1> QED
  BY <1>4, <1>5, <1>6, <1>7

LEMMA CrashStep ==
  ASSUME IInv, Crash
  PROVE  IInv'
  BY CrashRequests, AsyncAssumption DEF IInv, RequestsInv, LockInv

\* The history only grows.
LEMMA HistoryStep ==
  ASSUME IInv, NEW r \in Requests, Step(r)
  PROVE  /\ overlap' \in BOOLEAN /\ faults' \in BOOLEAN
         /\ (overlap => overlap') /\ (faults => faults')
<1>1. overlap \in BOOLEAN /\ faults \in BOOLEAN
  BY DEF IInv
<1>2. \A x : Crosses(r, x) \in BOOLEAN
  BY DEF Crosses
<1>3. CASE FindRoot(r)
  <2>1. faults' = faults
    BY <1>3 DEF FindRoot
  <2>2. overlap' = overlap \/ \E x : overlap' = (overlap \/ Crosses(r, x))
    BY <1>3, Zenon DEF FindRoot
  <2> QED
    BY <1>1, <1>2, <2>1, <2>2
<1>4. CASE \/ FindSource(r) \/ FindFile(r) \/ FindNone(r) \/ FindParent(r) \/ FindExisting(r)
           \/ FindVersion(r) \/ ReadBack(r) \/ ReadCurrent(r) \/ ReadMax(r) \/ ReadRefs(r)
  BY <1>1, <1>4 DEF FindSource, FindFile, FindNone, FindParent, FindExisting, FindVersion,
     ReadBack, ReadCurrent, ReadMax, ReadRefs, NoWrite
<1>5. CASE \/ CopyBlob(r) \/ InsertVersion(r) \/ DeleteRow(r) \/ RemoveBytes(r) \/ RemoveTree(r)
           \/ MakeUploadParents(r) \/ Stream(r) \/ Replace(r) \/ Adopt(r)
  BY <1>1, <1>5 DEF CopyBlob, InsertVersion, DeleteRow, RemoveBytes, RemoveTree,
     MakeUploadParents, Stream, Replace, Adopt, Commits, Becomes, GivesUp, NoWrite
<1>6. CASE \/ InsertRow(r) \/ InsertFirst(r) \/ WriteBytes(r) \/ MakeDirectory(r)
           \/ RenameOnDisk(r) \/ Commit(r)
           \/ DeleteVersions(r) \/ RemoveBlobs(r) \/ CopyBack(r) \/ UpdateChecksum(r)
  BY <1>1, <1>6 DEF InsertRow, InsertFirst, WriteBytes, MakeDirectory, RenameOnDisk, Commit,
     DeleteVersions, RemoveBlobs, CopyBack, UpdateChecksum, Commits, Becomes, GivesUp, NoWrite
<1> QED
  BY <1>3, <1>4, <1>5, <1>6 DEF Step

LEMMA StepStep ==
  ASSUME IInv, NEW r \in Requests, Step(r)
  PROVE  IInv'
<1>1. FP!StoreInv(store') /\ RequestsInv' /\ LockInv'
  BY TablesTyped, RequestsStep, LockStep
<1> QED
  BY <1>1, HistoryStep DEF IInv

----------------------------------------------------------------------------
(* The start, and the invariant.                                           *)

LEMMA InvInit == Init => IInv
<1> SUFFICES ASSUME Init PROVE IInv
  OBVIOUS
<1>1. /\ store = Initial /\ lock = NoOne /\ req = [r \in Requests |-> Idle]
      /\ overlap = FALSE /\ faults = FALSE /\ Files!TreeClosed
  BY DEF Init
<1>2. FP!StoreInv(store)
  <2>1. /\ store \in StoreType
        /\ IsFiniteSet(store.versions)
        /\ \A w \in store.rows : /\ w.path # Root
                                 /\ ~w.dir => w.sum \in Contents
                                 /\ w.orig # NoPath => w.orig # Root
    BY <1>1, StartAssumption
  <2>2. /\ store.rows \subseteq RowType /\ store.versions \subseteq VersionType
        /\ store.disk \subseteq EntryType
    BY <2>1 DEF StoreType
  <2>3. FP!KeysUnique(store.rows)
    BY <1>1 DEF Files!TreeClosed, FP!KeysUnique
  <2>4. \A w \in store.rows : Len(w.path) >= 1 /\ (w.orig # NoPath => Len(w.orig) >= 1)
    BY <2>1, <2>2, LongPath DEF RowType
  <2>5. FP!RowsInv(store.rows)
    BY <2>1, <2>2, <2>3, <2>4, SameTypes DEF FP!RowsInv
  <2>6. FP!VersionsInv(store.versions)
    <3>1. FP!IsFiniteSet(store.versions)
      BY <2>1 DEF IsFiniteSet, FP!IsFiniteSet
    <3> QED
      BY <2>2, <3>1, SameTypes DEF FP!VersionsInv
  <2> QED
    BY <2>1, <2>2, <2>5, <2>6, SameTypes DEF FP!StoreInv, FP!DiskInv
<1>3. Idle \in RequestType /\ Idle.status = "idle"
  BY DEF Idle, RequestType, Path, Root
<1>4. RequestsInv
  BY <1>1, <1>3 DEF RequestsInv, InFlight
<1>5. LockInv
  BY <1>1, <1>3, AsyncAssumption DEF LockInv, InFlight
<1> QED
  BY <1>1, <1>2, <1>4, <1>5 DEF IInv

LEMMA InvStep == IInv /\ [Next]_vars => IInv'
<1> SUFFICES ASSUME IInv, [Next]_vars PROVE IInv'
  OBVIOUS
<1>1. CASE UNCHANGED vars
  BY <1>1 DEF vars, IInv, RequestsInv, LockInv, InFlight
<1>2. CASE Next
  BY <1>1, <1>2, BeginStep, StepStep, CrashStep DEF Next
<1> QED
  BY <1>1, <1>2

LEMMA InvAlways == Spec => []IInv
  BY InvInit, InvStep, PTL DEF Spec

(* TypeOK holds in every reachable state: whatever the handlers do between *)
(* one another's steps, the committed tables, the disk, the lock and what  *)
(* each handler remembers keep their types, and no handler runs off the    *)
(* end of its plan.                                                        *)
THEOREM TypeCorrect == Spec => []TypeOK
<1>1. IInv => TypeOK
  <2> SUFFICES ASSUME IInv PROVE TypeOK
    OBVIOUS
  <2>1. Files!TypeOK
    BY SameTypes DEF IInv, FP!StoreInv, FP!RowsInv, FP!VersionsInv, FP!DiskInv,
       Files!TypeOK, Files!RowType, Files!VersionType, Files!EntryType, Files!Path,
       RowType, VersionType, EntryType, Path
  <2> QED
    BY <2>1 DEF IInv, TypeOK, RequestsInv, LockInv, Knows
<1> QED
  BY <1>1, InvAlways, PTL

(* The primary key of the table: at most one row has a path, under any     *)
(* interleaving.  A relocation opens its transaction before it renames and *)
(* nobody else writes rows until it commits, so the keys it found free are *)
(* still free.                                                             *)
THEOREM KeysStayUnique ==
  Spec => [](\A r, t \in store.rows : r.path = t.path => r = t)
<1>1. IInv => (\A r, t \in store.rows : r.path = t.path => r = t)
  BY DEF IInv, FP!StoreInv, FP!RowsInv, FP!KeysUnique
<1> QED
  BY <1>1, InvAlways, PTL

(* While a transaction is open, its request is in flight, about to commit: *)
(* no write transaction is left open by a handler that ended.              *)
THEOREM LockIsHeld ==
  Spec => [](\A r \in Requests : lock = r => At(r, "commit"))
<1>1. IInv => (\A r \in Requests : lock = r => At(r, "commit"))
  <2> SUFFICES ASSUME IInv, NEW r \in Requests, lock = r PROVE At(r, "commit")
    OBVIOUS
  <2>1. /\ InFlight(r) /\ Committing(req[r].op, req[r].pc)
        /\ req[r].op \in Ops /\ req[r].pc \in 1 .. Len(Plan(req[r].op))
    BY DEF IInv, LockInv, RequestsInv, Knows
  <2> QED
    BY <2>1, Positions DEF Committing, At
<1> QED
  BY <1>1, InvAlways, PTL

----------------------------------------------------------------------------
(***************************************************************************)
(* TablesSurvive.  Its first part, that a row is marked deleted exactly    *)
(* when it lies in the trash, holds however requests interfere.  It is the *)
(* sequential argument about first segments again, with two things to add: *)
(* a handler has only its request and what it remembers of earlier reads   *)
(* to tell on which side of the trash its paths lie (Sided), and the       *)
(* trash ids and blob names drawn at random must still be unused when they *)
(* are used (DrawsInv), whatever the others have done since.               *)
(***************************************************************************)

MarksInv(rows) ==
  FP!TrashInv(rows) /\ \A w \in rows : w.orig # NoPath => w.orig[1] # VERSIONS

Sided(r, x) ==
  /\ x.path[1] # VERSIONS
  /\ x.op \in {"restore", "purge"} <=> x.path[1] = TRASH
  /\ x.op = "delete" => x.dest = TrashPath(r, NameOf(x.path))
  /\ x.op \in {"rename", "move"} \/ (x.op = "restore" /\ x.pc > 1) => UserPath(x.dest)
  /\ x.op = "rename" => ParentOf(x.dest) = ParentOf(x.path)
  /\ x.op \notin {"rename", "move", "delete", "restore"} => x.dest = x.path
SidesInv == \A r \in Requests : InFlight(r) => Sided(r, req[r])

\* Whether the handler may have used the blob name it drew.
PastInsert(op, pc) == \/ op = "save" /\ pc >= 6
                      \/ op \in {"upload", "chunked", "version"} /\ pc >= 7
Spent(x) == x.status # "idle" /\ PastInsert(x.op, x.pc)

DrawsInv ==
  \A r \in Requests :
    /\ FP!NothingUnder(store.rows, r) \/ (req[r].op = "delete" /\ req[r].status = "ok")
    /\ (\E v \in store.versions : v.ref = r) => Spent(req[r])
    /\ \A o \in Requests : (\E v \in req[o].found : v.ref = r) => Spent(req[r])

RefsUnique(versions) == \A u, v \in versions : u.ref = v.ref => u = v

\* Between the copy of the blob and the row that names it.
Copied(op, pc) == \/ op = "save" /\ pc \in 4 .. 5
                  \/ op \in {"upload", "chunked", "version"} /\ pc \in 5 .. 6
BlobOn(d, ref) == FileOn(d, Blob(ref)) # {}
BlobsReady ==
  \A r \in Requests : InFlight(r) /\ Copied(req[r].op, req[r].pc) => BlobOn(store.disk, r)

MarksIInv ==
  /\ IInv /\ MarksInv(store.rows) /\ SidesInv /\ DrawsInv
  /\ RefsUnique(store.versions) /\ BlobsReady

LEMMA StepLabel ==
  ASSUME NEW r \in Requests, Step(r)
  PROVE  /\ InFlight(r)
         /\ At(r, "find_source") => FindSource(r)
         /\ At(r, "find_file") => FindFile(r)
         /\ At(r, "find_none") => FindNone(r)
         /\ At(r, "find_parent") => FindParent(r)
         /\ At(r, "find_existing") => FindExisting(r)
         /\ At(r, "find_root") => FindRoot(r)
         /\ At(r, "find_version") => FindVersion(r)
         /\ At(r, "read_current") => ReadCurrent(r)
         /\ At(r, "copy_blob") => CopyBlob(r)
         /\ At(r, "insert_version") => InsertVersion(r)
         /\ At(r, "delete_row") => DeleteRow(r)
         /\ At(r, "replace") => Replace(r)
         /\ At(r, "adopt") => Adopt(r)
         /\ At(r, "insert_row") => InsertRow(r)
         /\ At(r, "insert_first") => InsertFirst(r)
         /\ At(r, "write_bytes") => WriteBytes(r)
         /\ At(r, "rename_on_disk") => RenameOnDisk(r)
         /\ At(r, "commit") => Commit(r)
         /\ At(r, "read_refs") => ReadRefs(r)
         /\ At(r, "delete_versions") => DeleteVersions(r)
         /\ At(r, "remove_blobs") => RemoveBlobs(r)
         /\ At(r, "read_back") => ReadBack(r)
         /\ At(r, "read_max") => ReadMax(r)
         /\ At(r, "remove_bytes") => RemoveBytes(r)
         /\ At(r, "remove_tree") => RemoveTree(r)
         /\ At(r, "make_parents") => MakeUploadParents(r)
         /\ At(r, "stream") => Stream(r)
         /\ At(r, "make_directory") => MakeDirectory(r)
         /\ At(r, "copy_back") => CopyBack(r)
         /\ At(r, "update_checksum") => UpdateChecksum(r)
<1> DEFINE L == Plan(req[r].op)[req[r].pc]
<1>1. /\ FindSource(r) => InFlight(r) /\ L = "find_source"
      /\ FindFile(r) => InFlight(r) /\ L = "find_file"
      /\ FindNone(r) => InFlight(r) /\ L = "find_none"
      /\ FindParent(r) => InFlight(r) /\ L = "find_parent"
      /\ FindExisting(r) => InFlight(r) /\ L = "find_existing"
      /\ FindRoot(r) => InFlight(r) /\ L = "find_root"
      /\ FindVersion(r) => InFlight(r) /\ L = "find_version"
      /\ ReadBack(r) => InFlight(r) /\ L = "read_back"
  BY DEF FindSource, FindFile, FindNone, FindParent, FindExisting, FindRoot, FindVersion,
     ReadBack, At
<1>2. /\ ReadCurrent(r) => InFlight(r) /\ L = "read_current"
      /\ CopyBlob(r) => InFlight(r) /\ L = "copy_blob"
      /\ ReadMax(r) => InFlight(r) /\ L = "read_max"
      /\ InsertVersion(r) => InFlight(r) /\ L = "insert_version"
      /\ DeleteRow(r) => InFlight(r) /\ L = "delete_row"
      /\ RemoveBytes(r) => InFlight(r) /\ L = "remove_bytes"
      /\ RemoveTree(r) => InFlight(r) /\ L = "remove_tree"
      /\ MakeUploadParents(r) => InFlight(r) /\ L = "make_parents"
  BY DEF ReadCurrent, CopyBlob, ReadMax, InsertVersion, DeleteRow, RemoveBytes, RemoveTree,
     MakeUploadParents, At
<1>3. /\ Stream(r) => InFlight(r) /\ L = "stream"
      /\ Replace(r) => InFlight(r) /\ L = "replace"
      /\ Adopt(r) => InFlight(r) /\ L = "adopt"
      /\ InsertRow(r) => InFlight(r) /\ L = "insert_row"
      /\ InsertFirst(r) => InFlight(r) /\ L = "insert_first"
      /\ WriteBytes(r) => InFlight(r) /\ L = "write_bytes"
      /\ MakeDirectory(r) => InFlight(r) /\ L = "make_directory"
  BY DEF Stream, Replace, Adopt, InsertRow, InsertFirst, WriteBytes, MakeDirectory, At
<1>4. /\ RenameOnDisk(r) => InFlight(r) /\ L = "rename_on_disk"
      /\ Commit(r) => InFlight(r) /\ L = "commit"
      /\ ReadRefs(r) => InFlight(r) /\ L = "read_refs"
      /\ DeleteVersions(r) => InFlight(r) /\ L = "delete_versions"
      /\ RemoveBlobs(r) => InFlight(r) /\ L = "remove_blobs"
      /\ CopyBack(r) => InFlight(r) /\ L = "copy_back"
      /\ UpdateChecksum(r) => InFlight(r) /\ L = "update_checksum"
  BY DEF RenameOnDisk, Commit, ReadRefs, DeleteVersions, RemoveBlobs, CopyBack,
     UpdateChecksum, At
<1> HIDE DEF L
<1>5. \A l : At(r, l) <=> InFlight(r) /\ L = l
  BY DEF At, L
<1> QED
  BY <1>1, <1>2, <1>3, <1>4, <1>5 DEF Step

LEMMA MovedFields ==
  ASSUME RequestsInv, RequestsInv', NEW r \in Requests, Moved(r), InFlight(r)'
  PROVE  \E n \in {1, 3, 4, 7} :
           /\ n # 1 => req[r].op \in {"upload", "chunked", "save", "version"}
           /\ Skips(r, n)
           /\ req'[r].op = req[r].op /\ req'[r].path = req[r].path
           /\ req'[r].pc = req[r].pc + n
           /\ req[r].pc # 1 => req'[r].dir = req[r].dir
           /\ req[r].pc # 1 \/ req[r].op # "restore" => req'[r].dest = req[r].dest
           /\ req[r].pc > 2 => req'[r].found = req[r].found
<1> DEFINE x == req[r]
           y == req'[r]
           z == [y EXCEPT !.pc = x.pc]
<1>1. y.status # "failed"
  BY DEF InFlight
<1>2. PICK n \in {1, 3, 4, 7} :
         /\ n # 1 => x.op \in {"upload", "chunked", "save", "version"}
         /\ Skips(r, n) /\ Keeps(x, z) /\ y.pc = x.pc + n
  BY <1>1, Zenon DEF Moved
<1>3. y \in RequestType
  BY DEF RequestsInv
<1>4. z.op = y.op /\ z.path = y.path /\ z.dir = y.dir /\ z.dest = y.dest /\ z.found = y.found
  BY <1>3 DEF RequestType
<1> HIDE DEF z
<1> QED
  BY <1>2, <1>4 DEF Keeps

LEMMA SidesStep ==
  ASSUME IInv, SidesInv, MarksInv(store.rows), NEW r \in Requests, Step(r)
  PROVE  SidesInv'
<1> DEFINE x == req[r]
           y == req'[r]
<1>1. RequestsInv /\ RequestsInv' /\ Moved(r) /\ InFlight(r)
  BY RequestsStep, StepLabel DEF IInv
<1>2. \A o \in Requests \ {r} : req'[o] = req[o] /\ (InFlight(o)' <=> InFlight(o))
  BY <1>1 DEF Moved, InFlight
<1>3. ASSUME InFlight(r)' PROVE Sided(r, y)
  <2>1. PICK n \in {1, 3, 4, 7} :
           /\ n # 1 => x.op \in {"upload", "chunked", "save", "version"}
           /\ y.op = x.op /\ y.path = x.path /\ y.pc = x.pc + n
           /\ x.pc # 1 \/ x.op # "restore" => y.dest = x.dest
    BY <1>1, <1>3, MovedFields
  <2>2. Sided(r, x) /\ x.op \in Ops /\ x.pc \in 1 .. Len(Plan(x.op)) /\ Len(Plan(x.op)) \in Nat
    BY <1>1, PlanLength DEF SidesInv, RequestsInv, Knows
  <2>3. CASE x.pc # 1 \/ x.op # "restore"
    <3>1. x.op = "restore" => x.pc > 1
      BY <2>2, <2>3
    <3> QED
      BY <2>1, <2>2, <2>3, <3>1 DEF Sided
  <2>4. CASE x.pc = 1 /\ x.op = "restore"
    <3>1. FindRoot(r)
      <4>1. Plan(x.op)[x.pc] = "find_root"
        BY <2>2, <2>4, Positions
      <4> QED
        BY <1>1, <4>1, StepLabel DEF At
    <3>2. ~Fails(r)
      BY <1>1, <1>3, Failed DEF RequestsInv, InFlight
    <3>3. PICK t \in TrashRoots(store) : Learns(r, [x EXCEPT !.dir = t.dir, !.dest = t.orig])
      BY <2>4, <3>1, <3>2 DEF FindRoot
    <3>4. t \in RowType /\ t.orig # NoPath /\ UserPath(t.orig)
      BY SameTypes DEF TrashRoots, MarksInv, UserPath, FP!TrashInv, IInv, FP!StoreInv, FP!RowsInv
    <3>5. y.dest = t.orig
      <4> DEFINE z == [x EXCEPT !.dir = t.dir, !.dest = t.orig]
      <4>1. x \in RequestType
        BY <1>1 DEF RequestsInv
      <4>2. t.dir \in BOOLEAN /\ t.orig \in Path
        BY <3>4 DEF RowType
      <4>3. z \in RequestType /\ z.dest = t.orig
        BY <4>1, <4>2 DEF RequestType
      <4>4. Resume(r, z, 1)
        BY <3>3 DEF Learns
      <4> HIDE DEF z
      <4> QED
        BY <1>1, <4>3, <4>4, Resumed DEF RequestsInv
    <3> QED
      BY <2>1, <2>2, <2>4, <3>4, <3>5 DEF Sided
  <2> QED
    BY <2>3, <2>4
<1> QED
  BY <1>2, <1>3 DEF SidesInv

\* Where the rows of the next state come from.
LEMMA RowSources ==
  ASSUME IInv, NEW r \in Requests, Step(r), NEW w \in store'.rows
  PROVE  LET x == req[r]
         IN  /\ \/ w.orig = NoPath
                \/ x.op = "delete" /\ At(r, "commit") /\ w.orig = x.path
                \/ \E t \in store.rows : w.orig = t.orig
             /\ \/ w.path = x.path /\ x.op \in {"upload", "chunked", "save", "folder"}
                \/ \E t \in store.rows : w.path = t.path
                \/ /\ At(r, "commit")
                   /\ \E t \in store.rows : w.path = MovedPath(x.path, x.dest, x.dir, t.path)
<1> DEFINE x == req[r]
           Orig == \/ w.orig = NoPath
                   \/ x.op = "delete" /\ At(r, "commit") /\ w.orig = x.path
                   \/ \E t \in store.rows : w.orig = t.orig
           Known == \E t \in store.rows : w.path = t.path
           Moves == \E t \in store.rows : w.path = MovedPath(x.path, x.dest, x.dir, t.path)
           Goal == /\ Orig
                   /\ \/ w.path = x.path /\ x.op \in {"upload", "chunked", "save", "folder"}
                      \/ Known
                      \/ At(r, "commit") /\ Moves
<1>1. /\ RequestsInv /\ InFlight(r) /\ RowsChange(r)
      /\ \A t \in store.rows : t \in RowType /\ Len(t.path) >= 1
  BY StepTables, StepLabel, SameTypes DEF IInv, FP!StoreInv, FP!RowsInv
<1>2. /\ x.path \in Path /\ x.dest \in Path /\ Len(x.dest) >= 1 /\ x.dir \in BOOLEAN
      /\ x.op \in Ops /\ x.pc \in 1 .. Len(Plan(x.op))
  BY <1>1, RequestPaths DEF RequestsInv, Knows
<1>3. ASSUME w \in store.rows PROVE Goal
  BY <1>3
<1>4. ASSUME NEW dir, NEW sum, w = NewRow(x.path, dir, sum, x.node),
             At(r, "insert_row") \/ At(r, "insert_first")
      PROVE  Goal
  <2>1. w.path = x.path /\ w.orig = NoPath
    BY <1>4 DEF NewRow
  <2>2. Plan(x.op)[x.pc] \in {"insert_row", "insert_first"}
    BY <1>4 DEF At
  <2>3. x.op \in {"upload", "chunked", "save", "folder"}
    BY <1>2, <2>2, Positions
  <2> QED
    BY <2>1, <2>3
<1>5. ASSUME NEW v, store'.rows = Rehashed(store.rows, x.path, v)
      PROVE  Goal
  <2>1. PICK t \in store.rows : w = IF t.path = x.path THEN [t EXCEPT !.sum = v] ELSE t
    BY <1>5 DEF Rehashed
  <2>2. w.path = t.path /\ w.orig = t.orig
    BY <1>1, <2>1 DEF RowType
  <2> QED
    BY <2>2
<1>6. ASSUME At(r, "commit") PROVE Goal
  <2> DEFINE rows == RelocateRows(store.rows, x.path, x.dest, x.dir)
  <2>1. ASSUME NEW m \in rows
        PROVE  \E t \in store.rows : /\ m.path = MovedPath(x.path, x.dest, x.dir, t.path)
                                     /\ m.orig = t.orig /\ m \in RowType
    <3>1. PICK t \in store.rows : m = MovedRow(x.path, x.dest, x.dir, t)
      BY DEF RelocateRows
    <3>2. m = FP!MovedRow(x.path, x.dest, x.dir, t)
      BY <3>1 DEF MovedRow, FP!MovedRow, LikeBelow, FP!LikeBelow, Rebase, FP!Rebase,
         NameOf, FP!NameOf, ParentOf, FP!ParentOf
    <3> HIDE DEF x
    <3> QED
      BY <1>1, <1>2, <3>2, Assumed, SameTypes, SamePaths, FP!MovedRowFields
  <2> HIDE DEF rows
  <2>2. \/ w \in rows
        \/ x.op = "delete" /\ w \in Stamped(rows, x.dest, x.path)
        \/ w \in Unstamped(rows, x.dest)
        \/ w \in store.rows
        \/ ~At(r, "commit")
        \/ At(r, "delete_row") \/ At(r, "insert_row") \/ At(r, "insert_first")
        \/ At(r, "update_checksum")
    BY <1>1 DEF RowsChange, rows
  <2>3. ~(At(r, "delete_row") \/ At(r, "insert_row") \/ At(r, "insert_first")
          \/ At(r, "update_checksum"))
    BY <1>6 DEF At
  <2>4. CASE w \in rows
    BY <1>6, <2>1, <2>4
  <2>5. CASE x.op = "delete" /\ w \in Stamped(rows, x.dest, x.path)
    <3>1. PICK m \in rows : w = IF Covers(x.dest, m.path)
                                THEN [m EXCEPT !.deleted = TRUE,
                                               !.orig = IF m.path = x.dest THEN x.path ELSE m.orig]
                                ELSE m
      BY <2>5 DEF Stamped
    <3>2. m \in RowType
      BY <2>1
    <3>3. w.path = m.path /\ w.orig \in {m.orig, x.path}
      BY <3>1, <3>2 DEF RowType
    <3> QED
      BY <1>6, <2>1, <2>5, <3>3
  <2>6. CASE w \in Unstamped(rows, x.dest)
    <3>1. PICK m \in rows : w = IF Covers(x.dest, m.path)
                                THEN [m EXCEPT !.deleted = FALSE, !.orig = NoPath] ELSE m
      BY <2>6 DEF Unstamped
    <3>2. m \in RowType
      BY <2>1
    <3>3. w.path = m.path /\ w.orig \in {m.orig, NoPath}
      BY <3>1, <3>2 DEF RowType
    <3> QED
      BY <1>6, <2>1, <3>3
  <2> QED
    BY <1>3, <1>6, <2>2, <2>3, <2>4, <2>5, <2>6
<1> HIDE DEF Orig, Known, Moves
<1>7. Goal
  <2>1. \/ w \in store.rows \/ At(r, "commit")
        \/ /\ At(r, "insert_row") \/ At(r, "insert_first")
           /\ \E dir, sum : w = NewRow(x.path, dir, sum, x.node)
        \/ \E v : store'.rows = Rehashed(store.rows, x.path, v)
    BY <1>1 DEF RowsChange
  <2> QED
    BY <1>3, <1>4, <1>5, <1>6, <2>1
<1> QED
  BY <1>7 DEF Orig, Known, Moves

LEMMA MarksStep ==
  ASSUME LikeIsExact, IInv, MarksInv(store.rows), SidesInv, DrawsInv,
         NEW r \in Requests, Step(r)
  PROVE  MarksInv(store'.rows)
<1> DEFINE x == req[r]
           old == x.path
           new == x.dest
           rows == store.rows
           moved == RelocateRows(rows, old, new, x.dir)
<1>1. /\ RequestsInv /\ InFlight(r) /\ RowsChange(r) /\ Sided(r, x) /\ FP!RowsInv(rows)
      /\ FP!TrashInv(rows) /\ rows \subseteq RowType /\ FP!LikeIsExact
  BY StepTables, StepLabel, SameTypes, SamePaths
     DEF IInv, FP!StoreInv, FP!RowsInv, SidesInv, MarksInv
<1>2. /\ old \in Path /\ Len(old) >= 1 /\ new \in Path /\ Len(new) >= 1 /\ x.dir \in BOOLEAN
      /\ x.op \in Ops /\ x.pc \in 1 .. Len(Plan(x.op))
      /\ old \in FP!Path /\ new \in FP!Path /\ r \in Segments
  BY <1>1, RequestPaths, SameTypes DEF RequestsInv, Knows
<1>3. \A w \in store'.rows : w.orig # NoPath => w.orig[1] # VERSIONS
  BY <1>1, RowSources DEF MarksInv, Sided
<1>4. ASSUME NEW fewer, fewer \subseteq rows PROVE FP!TrashInv(fewer)
  BY <1>1, <1>4 DEF FP!TrashInv
<1>5. ASSUME NEW dir, NEW sum, store'.rows = rows \cup {NewRow(old, dir, sum, x.node)},
             At(r, "insert_row") \/ At(r, "insert_first")
      PROVE  FP!TrashInv(store'.rows)
  <2>1. Plan(x.op)[x.pc] \in {"insert_row", "insert_first"}
    BY <1>5 DEF At
  <2>2. x.op \notin {"restore", "purge"}
    BY <1>2, <2>1, Positions
  <2>3. old[1] # TRASH
    BY <1>1, <2>2 DEF Sided
  <2> QED
    BY <1>1, <1>5, <2>3 DEF NewRow, FP!TrashInv
<1>6. ASSUME NEW v, store'.rows = Rehashed(rows, old, v)
      PROVE  FP!TrashInv(store'.rows)
  <2> SUFFICES ASSUME NEW w \in store'.rows
               PROVE  /\ w.deleted <=> w.path[1] = TRASH
                      /\ w.orig # NoPath <=> (w.deleted /\ Len(w.path) = 3)
                      /\ w.orig # NoPath => w.orig[1] # TRASH
    BY DEF FP!TrashInv
  <2>1. PICK t \in rows : w = IF t.path = old THEN [t EXCEPT !.sum = v] ELSE t
    BY <1>6 DEF Rehashed
  <2>2. w.path = t.path /\ w.orig = t.orig /\ w.deleted = t.deleted
    BY <1>1, <2>1 DEF RowType
  <2> QED
    BY <1>1, <2>2 DEF FP!TrashInv
<1>7. ASSUME At(r, "commit"), x.op = "delete", store'.rows = Stamped(moved, new, old)
      PROVE  FP!TrashInv(store'.rows)
  <2>1. new = TrashPath(r, NameOf(old)) /\ old[1] # TRASH /\ NameOf(old) \in Segments
    BY <1>1, <1>2, <1>7, Assumed, SamePaths, FP!NamePath DEF Sided
  <2>2. FP!NothingUnder(rows, r)
    BY <1>1 DEF DrawsInv, InFlight
  <2>3. FP!TrashInv(FP!Stamped(FP!RelocateRows(rows, old, FP!TrashPath(r, NameOf(old)), x.dir),
                               FP!TrashPath(r, NameOf(old)), old))
    BY <1>1, <1>2, <2>1, <2>2, Assumed, FP!SoftDeleteTrash
  <2> QED
    BY <1>7, <2>1, <2>3, SameRows
<1>8. ASSUME At(r, "commit"), x.op \in {"rename", "move"}, store'.rows = moved
      PROVE  FP!TrashInv(store'.rows)
  <2>1. old[1] # TRASH /\ new[1] # TRASH
    BY <1>1, <1>8 DEF Sided, UserPath
  <2>2. FP!TrashInv(FP!RelocateRows(rows, old, new, x.dir))
    BY <1>1, <1>2, <2>1, Assumed, FP!RelocateLive
  <2> QED
    BY <1>8, <2>2, SameRows
<1>9. ASSUME At(r, "commit"), x.op = "restore", x.pc > 1, store'.rows = Unstamped(moved, new)
      PROVE  FP!TrashInv(store'.rows)
  <2>1. new[1] # TRASH
    BY <1>1, <1>9 DEF Sided, UserPath
  <2>2. FP!TrashInv(FP!Unstamped(FP!RelocateRows(rows, old, new, x.dir), new))
    BY <1>1, <1>2, <2>1, Assumed, FP!RestoredTrash
  <2> QED
    BY <1>9, <2>2, SameRows
<1>10. At(r, "commit") => x.op \in {"delete", "rename", "move", "restore"} /\ x.pc > 1
  <2>1. At(r, "commit") => Plan(x.op)[x.pc] = "commit"
    BY DEF At
  <2> QED
    BY <1>2, <2>1, Positions
<1> HIDE DEF x
<1>11. FP!TrashInv(store'.rows)
  <2>1. \/ store'.rows \subseteq rows
        \/ /\ At(r, "insert_row") \/ At(r, "insert_first")
           /\ \E dir, sum : store'.rows = rows \cup {NewRow(old, dir, sum, x.node)}
        \/ \E v : store'.rows = Rehashed(rows, old, v)
        \/ /\ At(r, "commit")
           /\ \/ x.op = "delete" /\ store'.rows = Stamped(moved, new, old)
              \/ x.op = "restore" /\ store'.rows = Unstamped(moved, new)
              \/ x.op \notin {"delete", "restore"} /\ store'.rows = moved
    BY <1>1 DEF RowsChange, x
  <2> HIDE DEF moved
  <2>2. CASE \E dir, sum : store'.rows = rows \cup {NewRow(old, dir, sum, x.node)}
             /\ (At(r, "insert_row") \/ At(r, "insert_first"))
    BY <1>5, <2>2
  <2>3. CASE \E v : store'.rows = Rehashed(rows, old, v)
    BY <1>6, <2>3
  <2> QED
    BY <1>4, <1>7, <1>8, <1>9, <1>10, <2>1, <2>2, <2>3
<1> QED
  BY <1>3, <1>11 DEF MarksInv

\* Every entry but the one a move takes along stays; what it takes along
\* comes to lie at or below the new place.
LEMMA MovedPlace ==
  ASSUME NEW old \in Path, NEW new \in Path, Len(new) >= 1, NEW dir, NEW p \in Path,
         MovedPath(old, new, dir, p) # p
  PROVE  /\ Len(MovedPath(old, new, dir, p)) \in Nat
         /\ \A i \in 1 .. Len(new) : MovedPath(old, new, dir, p)[i] = new[i]
<1> DEFINE q == IF p = old THEN new ELSE p
<1>1. q \in Path /\ Len(new) \in Nat
  BY DEF Path
<1>2. CASE dir /\ LikeBelow(old, q)
  <2>1. MovedPath(old, new, dir, p) = Rebase(old, new, q)
    BY <1>2 DEF MovedPath
  <2>2. Rebase(old, new, q) = FP!Rebase(old, new, q)
    BY DEF Rebase, FP!Rebase
  <2>3. /\ FP!Rebase(old, new, q) \in FP!Path
        /\ \A i \in 1 .. Len(new) : FP!Rebase(old, new, q)[i] = new[i]
    BY <1>1, Assumed, SameTypes, FP!RebasePath
  <2> QED
    BY <2>1, <2>2, <2>3, SameTypes DEF Path
<1>3. CASE ~(dir /\ LikeBelow(old, q))
  <2>1. MovedPath(old, new, dir, p) = new
    BY <1>3 DEF MovedPath
  <2> QED
    BY <1>1, <2>1
<1> QED
  BY <1>2, <1>3

\* Spent is for good, and what a handler finds comes from the table.
LEMMA SpentStep ==
  ASSUME IInv, NEW r \in Requests, Step(r), NEW o \in Requests
  PROVE  /\ Spent(req[o]) => Spent(req'[o])
         /\ req'[o].found \subseteq req[o].found \cup store.versions
         /\ o # r => req'[o] = req[o]
         /\ req'[r].op = req[r].op /\ req'[r].status # "idle" /\ req'[r].pc >= req[r].pc
<1> DEFINE x == req[r]
           y == req'[r]
           z == [y EXCEPT !.pc = x.pc]
<1>1. RequestsInv /\ RequestsInv' /\ Moved(r) /\ InFlight(r)
  BY RequestsStep, StepLabel DEF IInv
<1>2. x \in RequestType /\ y \in RequestType
  BY <1>1 DEF RequestsInv
<1>3. /\ y.op = x.op /\ y.pc >= x.pc /\ y.status # "idle"
      /\ y.found \subseteq x.found \cup store.versions
  <2>1. CASE y.status = "failed" /\ y.op = x.op /\ y.pc = x.pc /\ y.found = x.found
    BY <1>2, <2>1 DEF RequestType
  <2>2. CASE ~(y.status = "failed" /\ y.op = x.op /\ y.pc = x.pc /\ y.found = x.found)
    <3>1. PICK n \in {1, 3, 4, 7} :
             Keeps(x, z) /\ y.pc = x.pc + n /\ y.status \in {"run", "ok"}
      BY <1>1, <2>2, Zenon DEF Moved
    <3>2. z.op = y.op /\ z.found = y.found
      BY <1>2 DEF RequestType
    <3>3. x.pc \in Nat
      BY <1>2 DEF RequestType
    <3> HIDE DEF z
    <3> QED
      BY <3>1, <3>2, <3>3 DEF Keeps
  <2> QED
    BY <2>1, <2>2
<1>4. \A q \in Requests \ {r} : req'[q] = req[q]
  BY <1>1 DEF Moved
<1>5. Spent(x) => Spent(y)
  <2>1. x.pc \in Nat /\ y.pc \in Nat
    BY <1>2 DEF RequestType
  <2> QED
    BY <1>3, <2>1 DEF Spent, PastInsert
<1> QED
  BY <1>3, <1>4, <1>5

LEMMA NothingUnderStep ==
  ASSUME IInv, SidesInv, DrawsInv, NEW r \in Requests, Step(r), NEW q \in Requests
  PROVE  FP!NothingUnder(store'.rows, q) \/ (req'[q].op = "delete" /\ req'[q].status = "ok")
<1> DEFINE x == req[r]
<1>1. /\ RequestsInv /\ InFlight(r) /\ Sided(r, x)
      /\ \A t \in store.rows : t.path \in Path
  BY StepLabel, SameTypes DEF IInv, FP!StoreInv, FP!RowsInv, SidesInv, RowType
<1>2. /\ x.path \in Path /\ x.dest \in Path /\ Len(x.dest) >= 1
      /\ x.op \in Ops /\ x.pc \in 1 .. Len(Plan(x.op))
  BY <1>1, RequestPaths DEF RequestsInv, Knows
<1>3. CASE q = r /\ x.op = "delete" /\ At(r, "commit")
  <2>1. Plan(x.op)[x.pc] = "commit"
    BY <1>3 DEF At
  <2>2. x.pc = 3 /\ Len(Plan(x.op)) = 3
    BY <1>2, <1>3, <2>1, Positions
  <2>3. Commit(r) /\ x \in RequestType /\ req \in [Requests -> RequestType]
    BY <1>1, <1>3, StepLabel DEF RequestsInv
  <2>4. Resume(r, x, 1)
    BY <2>3 DEF Commit, Goes
  <2>5. req'[r].op = x.op /\ req'[r].status = IF x.pc + 1 > Len(Plan(x.op)) THEN "ok" ELSE "run"
    BY <2>3, <2>4, Resumed
  <2> QED
    BY <1>3, <2>2, <2>5
<1>4. CASE req[q].op = "delete" /\ req[q].status = "ok"
  <2>1. q # r
    BY <1>1, <1>4 DEF InFlight
  <2> QED
    BY <1>4, <2>1, SpentStep
<1>5. ASSUME FP!NothingUnder(store.rows, q), ~(q = r /\ x.op = "delete" /\ At(r, "commit")),
             NEW w \in store'.rows, FP!Below(<<TRASH, q>>, w.path)
      PROVE  FALSE
  <2>1. w.path[1] = TRASH /\ w.path[2] = q
    <3> DEFINE u == <<TRASH, q>>
    <3>1. w.path \in FP!Path
      BY TablesTyped DEF FP!StoreInv, FP!RowsInv, FP!RowType
    <3>2. u \in FP!Path /\ Len(u) = 2 /\ u[1] = TRASH /\ u[2] = q
      BY AsyncAssumption, StorageAssumption DEF FP!Path
    <3> HIDE DEF u
    <3>3. Len(u) < Len(w.path) /\ \A k \in 1 .. Len(u) : w.path[k] = u[k]
      BY <1>5, <3>1, <3>2, Assumed, FP!BelowElements DEF u
    <3> QED
      BY <3>2, <3>3
  <2>2. ~(w.path = x.path /\ x.op \in {"upload", "chunked", "save", "folder"})
    BY <1>1, <2>1 DEF Sided
  <2>3. \A t \in store.rows : w.path # t.path
    BY <1>5 DEF FP!NothingUnder
  <2>4. PICK t \in store.rows : At(r, "commit") /\ w.path = MovedPath(x.path, x.dest, x.dir, t.path)
    BY <2>2, <2>3, RowSources
  <2>5. \A i \in 1 .. Len(x.dest) : w.path[i] = x.dest[i]
    BY <1>1, <1>2, <2>3, <2>4, MovedPlace
  <2>6. x.dest[1] = TRASH
    BY <1>2, <2>1, <2>5
  <2>7. Plan(x.op)[x.pc] = "commit"
    BY <2>4 DEF At
  <2>8. x.op \in {"delete", "rename", "move", "restore"} /\ x.pc > 1
    BY <1>2, <2>7, Positions
  <2>9. x.op = "delete" /\ x.dest = <<TRASH, r, NameOf(x.path)>>
    BY <1>1, <2>6, <2>8 DEF Sided, UserPath, TrashPath
  <2>10. w.path[2] = r
    <3>1. Len(x.dest) = 3 /\ x.dest[2] = r
      BY <2>9
    <3> QED
      BY <2>5, <3>1
  <2> QED
    BY <1>5, <2>1, <2>4, <2>9, <2>10
<1>6. FP!NothingUnder(store.rows, q) \/ (req[q].op = "delete" /\ req[q].status = "ok")
  BY DEF DrawsInv
<1>7. FP!NothingUnder(store.rows, q) /\ ~(q = r /\ x.op = "delete" /\ At(r, "commit"))
        => FP!NothingUnder(store'.rows, q)
  BY <1>5 DEF FP!NothingUnder
<1> QED
  BY <1>3, <1>4, <1>6, <1>7

LEMMA Inserted ==
  ASSUME IInv, NEW r \in Requests, Step(r), At(r, "insert_version"),
         store'.versions # store.versions
  PROVE  Spent(req'[r]) /\ ~Spent(req[r]) /\ store'.disk = store.disk
<1> DEFINE x == req[r]
<1>1. /\ InsertVersion(r) /\ x \in RequestType /\ req \in [Requests -> RequestType]
      /\ x.op \in Ops /\ x.pc \in 1 .. Len(Plan(x.op)) /\ store \in StoreType
      /\ Plan(x.op)[x.pc] = "insert_version"
  BY StepLabel, SameTypes DEF IInv, RequestsInv, FP!StoreInv, At, Knows
<1>2. \/ x.op = "save" /\ x.pc = 5
      \/ x.op \in {"upload", "chunked", "version"} /\ x.pc = 6
  BY <1>1, Positions
<1>3. ~GivesUp(r, store)
  BY DEF GivesUp
<1>4. /\ Resume(r, x, 1)
      /\ store' = [store EXCEPT !.versions = store.versions \cup {NewVersion(r)}]
  BY <1>1, <1>3 DEF InsertVersion, Commits, Becomes, Goes, NewVersion
<1>5. req'[r].op = x.op /\ req'[r].pc = x.pc + 1 /\ req'[r].status \in {"run", "ok"}
  BY <1>1, <1>4, Resumed
<1>6. store'.disk = store.disk
  BY <1>1, <1>4, StoreParts
<1> QED
  BY <1>2, <1>5, <1>6 DEF Spent, PastInsert

LEMMA VersionSources ==
  ASSUME IInv, NEW r \in Requests, Step(r), NEW w \in store'.versions
  PROVE  \/ w = NewVersion(r) /\ At(r, "insert_version") /\ Spent(req'[r]) /\ ~Spent(req[r])
         \/ \E v \in store.versions :
              /\ w.ref = v.ref /\ w.sum = v.sum
              /\ w.path \in {v.path, MovedPath(req[r].path, req[r].dest, req[r].dir, v.path)}
<1>1. VersionsChange(r) /\ store.versions \subseteq VersionType
  BY StepTables, SameTypes DEF IInv, FP!StoreInv, FP!VersionsInv
<1>2. CASE w \in store.versions
  BY <1>2
<1>3. CASE At(r, "insert_version") /\ w \notin store.versions
  <2>1. store'.versions = store.versions \cup {NewVersion(r)}
    BY <1>1, <1>3 DEF VersionsChange, At
  <2> QED
    BY <1>3, <2>1, Inserted
<1>4. CASE w \in RelocateVersions(store.versions, req[r].path, req[r].dest, req[r].dir)
  <2>1. PICK v \in store.versions :
           w = [v EXCEPT !.path = MovedPath(req[r].path, req[r].dest, req[r].dir, v.path)]
    BY <1>4 DEF RelocateVersions
  <2> DEFINE p == MovedPath(req[r].path, req[r].dest, req[r].dir, v.path)
  <2> HIDE DEF p
  <2>2. w.ref = v.ref /\ w.sum = v.sum /\ w.path = p
    BY <1>1, <2>1 DEF VersionType, p
  <2> QED
    BY <2>2 DEF p
<1> QED
  BY <1>1, <1>2, <1>3, <1>4 DEF VersionsChange

LEMMA DrawsStep ==
  ASSUME IInv, SidesInv, DrawsInv, NEW r \in Requests, Step(r)
  PROVE  DrawsInv'
<1>1. ASSUME NEW q \in Requests, NEW w \in store'.versions, w.ref = q
      PROVE  Spent(req'[q])
  <2>1. CASE w = NewVersion(r) /\ Spent(req'[r])
    <3>1. w.ref = r
      BY <2>1 DEF NewVersion
    <3> QED
      BY <1>1, <2>1, <3>1
  <2>2. CASE \E v \in store.versions : w.ref = v.ref
    BY <1>1, <2>2, SpentStep DEF DrawsInv
  <2> QED
    BY <2>1, <2>2, VersionSources
<1>2. ASSUME NEW q \in Requests, NEW o \in Requests, NEW w \in req'[o].found, w.ref = q
      PROVE  Spent(req'[q])
  <2>1. w \in req[o].found \/ w \in store.versions
    BY SpentStep
  <2> QED
    BY <1>2, <2>1, SpentStep DEF DrawsInv
<1>3. \A q \in Requests :
         FP!NothingUnder(store'.rows, q) \/ (req'[q].op = "delete" /\ req'[q].status = "ok")
  BY NothingUnderStep
<1> QED
  BY <1>1, <1>2, <1>3 DEF DrawsInv, Spent

LEMMA RefsStep ==
  ASSUME IInv, DrawsInv, RefsUnique(store.versions), NEW r \in Requests, Step(r)
  PROVE  RefsUnique(store'.versions)
<1>1. VersionsChange(r) /\ store.versions \subseteq VersionType
  BY StepTables, SameTypes DEF IInv, FP!StoreInv, FP!VersionsInv
<1>2. CASE store'.versions \subseteq store.versions
  BY <1>2 DEF RefsUnique
<1>3. CASE At(r, "insert_version") /\ store'.versions = store.versions \cup {NewVersion(r)}
  <2>1. CASE store'.versions # store.versions
    <3>1. \A v \in store.versions : v.ref # r
      BY <1>3, <2>1, Inserted DEF DrawsInv
    <3>2. NewVersion(r).ref = r
      BY DEF NewVersion
    <3> QED
      BY <1>3, <3>1, <3>2 DEF RefsUnique
  <2> QED
    BY <1>2, <2>1
<1>4. CASE store'.versions = RelocateVersions(store.versions, req[r].path, req[r].dest, req[r].dir)
  <2> DEFINE f(v) == [v EXCEPT !.path = MovedPath(req[r].path, req[r].dest, req[r].dir, v.path)]
  <2>1. \A v \in store.versions : f(v).ref = v.ref
    BY <1>1 DEF VersionType
  <2>2. store'.versions = {f(v) : v \in store.versions}
    BY <1>4 DEF RelocateVersions
  <2> HIDE DEF f
  <2> QED
    BY <2>1, <2>2 DEF RefsUnique
<1> QED
  BY <1>1, <1>2, <1>3, <1>4 DEF VersionsChange

----------------------------------------------------------------------------
(* The blobs on disk.  No handler's path is under .versions.               *)

LEMMA OffBlob ==
  ASSUME NEW p \in Path, Len(p) >= 1, p[1] # VERSIONS, NEW ref \in Refs
  PROVE  p # Blob(ref) /\ ~Below(p, Blob(ref))
<1> DEFINE b == Blob(ref)
<1>1. b \in FP!Path /\ Len(b) = 2 /\ b[1] = VERSIONS
  BY Assumed, FP!BlobPath, SameDisk
<1>2. p \in FP!Path
  BY SameTypes
<1> HIDE DEF b
<1>3. ASSUME Below(p, b) PROVE FALSE
  <2>1. FP!Below(p, b)
    BY <1>3, SamePaths
  <2>2. \A i \in 1 .. Len(p) : b[i] = p[i]
    BY <1>1, <1>2, <2>1, Assumed, FP!BelowElements
  <2>3. 1 \in 1 .. Len(p)
    BY LongPath
  <2> QED
    BY <1>1, <2>2, <2>3
<1> QED
  BY <1>1, <1>3 DEF b

LEMMA BlobStays ==
  ASSUME NEW d, NEW p \in Path, Len(p) >= 1, p[1] # VERSIONS, NEW ref \in Refs, BlobOn(d, ref)
  PROVE  /\ BlobOn(MakeParents(d, p), ref) /\ BlobOn(RemoveFileOn(d, p), ref)
         /\ BlobOn(RemoveTreeOn(d, p), ref)
         /\ \A c : BlobOn(WriteFile(d, p, c), ref)
         /\ \A q \in Path : Len(q) >= 1 /\ q[1] # VERSIONS => BlobOn(RenameOn(d, p, q), ref)
         /\ \A e : BlobOn(d \cup e, ref)
<1>1. PICK e \in d : e.path = Blob(ref) /\ e.data # DIR
  BY DEF BlobOn, FileOn
<1>2. p # Blob(ref) /\ ~Below(p, Blob(ref))
  BY OffBlob
<1>3. \A f : e \in f => BlobOn(f, ref)
  BY <1>1 DEF BlobOn, FileOn
<1>4. \A q : e \in MakeParents(d, q)
  BY DEF MakeParents
<1>5. e \in RemoveFileOn(d, p) /\ e \in RemoveTreeOn(d, p)
  BY <1>1, <1>2 DEF RemoveFileOn, RemoveTreeOn, FileOn
<1>6. \A c : e \in WriteFile(d, p, c)
  BY <1>1, <1>2, <1>4 DEF WriteFile
<1>7. ASSUME NEW q \in Path, Len(q) >= 1, q[1] # VERSIONS
      PROVE  BlobOn(RenameOn(d, p, q), ref)
  <2> DEFINE made == {x \in MakeParents(d, q) : x.path # q}
             image == {IF x.path = p \/ Below(p, x.path)
                       THEN [x EXCEPT !.path = Rebase(p, q, x.path)] ELSE x : x \in made}
  <2>1. e.path # q
    BY <1>1, <1>7, OffBlob
  <2>2. e \in made
    BY <1>4, <2>1
  <2>3. e \in image
    BY <1>1, <1>2, <2>2
  <2>4. RenameOn(d, p, q) \in {d, image}
    BY DEF RenameOn
  <2> QED
    BY <1>3, <2>3, <2>4
<1> QED
  BY <1>3, <1>4, <1>5, <1>6, <1>7

LEMMA BlobKept ==
  ASSUME IInv, SidesInv, NEW r \in Requests, Step(r),
         NEW ref \in Refs, BlobOn(store.disk, ref),
         At(r, "remove_blobs") => \A v \in req[r].found : v.ref # ref
  PROVE  BlobOn(store'.disk, ref)
<1> DEFINE x == req[r]
           p == x.path
           q == x.dest
           d == store.disk
<1>1. /\ InFlight(r) /\ store \in StoreType /\ RequestsInv /\ Sided(r, x)
  BY StepLabel, SameTypes DEF IInv, FP!StoreInv, SidesInv
<1>2. /\ p \in Path /\ Len(p) >= 1 /\ p[1] # VERSIONS /\ q \in Path /\ Len(q) >= 1
      /\ x.op \in Ops /\ x.pc \in 1 .. Len(Plan(x.op)) /\ x.found \subseteq VersionType
  BY <1>1, RequestPaths DEF RequestsInv, Knows, Sided
<1>3. /\ BlobOn(MakeParents(d, p), ref) /\ BlobOn(RemoveFileOn(d, p), ref)
      /\ BlobOn(RemoveTreeOn(d, p), ref)
      /\ \A c : BlobOn(WriteFile(d, p, c), ref)
      /\ q[1] # VERSIONS => BlobOn(RenameOn(d, p, q), ref)
      /\ \A e : BlobOn(d \cup e, ref)
  BY <1>2, BlobStays
<1>4. \A s : store' = [store EXCEPT !.disk = s] => store'.disk = s
  BY <1>1, StoreParts
<1>5. CASE store'.disk = d
  BY <1>5
<1>6. CASE \/ CopyBlob(r) \/ RemoveBytes(r) \/ RemoveTree(r) \/ MakeUploadParents(r)
           \/ Stream(r) \/ Adopt(r) \/ WriteBytes(r)
  <2> HIDE DEF d, p
  <2>1. \/ store' = [store EXCEPT !.disk = MakeParents(d, p)]
        \/ store' = [store EXCEPT !.disk = RemoveFileOn(d, p)]
        \/ store' = [store EXCEPT !.disk = RemoveTreeOn(d, p)]
        \/ store' = [store EXCEPT !.disk = WriteFile(d, p, r)]
        \/ \E e : store' = [store EXCEPT !.disk = d \cup e]
        \/ store' = store
    BY <1>6, Zenon DEF CopyBlob, RemoveBytes, RemoveTree, MakeUploadParents, Stream, Adopt, WriteBytes,
       Becomes, NoWrite, d, p
  <2> QED
    BY <1>3, <1>4, <1>5, <2>1 DEF d
<1>7. CASE MakeDirectory(r)
  <2> DEFINE e == {[path |-> p, data |-> DIR]}
  <2>1. \/ store' = [store EXCEPT !.disk = MakeParents(d, p) \cup e]
        \/ store' = store
    BY <1>7, Zenon DEF MakeDirectory, Becomes, NoWrite
  <2>2. BlobOn(MakeParents(d, p) \cup e, ref)
    BY <1>2, <1>3, BlobStays
  <2> QED
    BY <1>4, <1>5, <2>1, <2>2
<1>8. CASE Replace(r)
  <2> DEFINE part == FileOn(d, Part(r))
             rest == d \ part
  <2>1. Part(r) # Blob(ref)
    <3>1. ParentOf(p) \in FP!Path /\ Len(ParentOf(p)) = Len(p) - 1
          /\ \A i \in 1 .. Len(p) - 1 : ParentOf(p)[i] = p[i]
      <4>1. p # FP!Root /\ p \in FP!Path
        BY <1>2, LongPath, SameTypes
      <4> QED
        BY <4>1, Assumed, SamePaths, FP!ParentPath
    <3>2. Len(Blob(ref)) = 2 /\ Blob(ref)[1] = VERSIONS
      BY DEF Blob
    <3>3. Len(Part(r)) = Len(p) /\ (Len(p) > 1 => Part(r)[1] = p[1])
      <4>1. ParentOf(p) \in Seq(Segments) /\ Len(p) \in Nat
        BY <1>2, <3>1 DEF FP!Path, Path
      <4> HIDE DEF p
      <4> QED
        BY <3>1, <4>1 DEF Part, p
    <3>4. Len(p) \in Nat
      BY <1>2, LongPath
    <3>5. ASSUME Part(r) = Blob(ref) PROVE FALSE
      <4>1. Len(Blob(ref)) = Len(p) /\ (Len(p) > 1 => Blob(ref)[1] = p[1])
        BY <3>3, <3>5
      <4>2. Len(p) = 2
        BY <3>2, <4>1
      <4>3. p[1] = VERSIONS
        BY <3>2, <4>1, <4>2
      <4> QED
        BY <1>2, <4>3
    <3> QED
      BY <3>5
  <2>2. BlobOn(rest, ref)
    BY <2>1 DEF BlobOn, FileOn
  <2>3. BlobOn(WriteFile(rest, p, r), ref)
    BY <1>2, <2>2, BlobStays
  <2>4. store' = [store EXCEPT !.disk = rest] \/ store' = [store EXCEPT !.disk = WriteFile(rest, p, r)]
    BY <1>8, Zenon DEF Replace, Becomes
  <2> QED
    BY <1>4, <2>2, <2>3, <2>4
<1>9. CASE CopyBack(r)
  <2>1. \/ store' = store
        \/ \E t \in Segments : \E c : store' = [store EXCEPT !.disk = WriteFile(d, Append(p, t), c)]
        \/ \E c : store' = [store EXCEPT !.disk = WriteFile(d, p, c)]
    <3> DEFINE ver == CHOOSE v \in x.found : TRUE
               t == ver.ref
    <3>1. x.op = "version" /\ x.pc = 7
      <4>1. Plan(x.op)[x.pc] = "copy_back"
        BY <1>9 DEF CopyBack, At
      <4> QED
        BY <1>2, <4>1, Positions
    <3>2. x.found # {}
      BY <1>1, <3>1 DEF RequestsInv, Knows
    <3>3. t \in Segments
      BY <1>2, <3>2, StorageAssumption DEF VersionType
    <3>4. \/ store' = store
          \/ \E e : store' = [store EXCEPT !.disk =
                WriteFile(d, IF IsDirOn(d, p) THEN Append(p, t) ELSE p, e.data)]
      BY <1>9, Zenon DEF CopyBack, Becomes, NoWrite
    <3> HIDE DEF t, d, p
    <3> QED
      BY <3>3, <3>4, Zenon
  <2>2. ASSUME NEW t \in Segments, NEW c
        PROVE  BlobOn(WriteFile(d, Append(p, t), c), ref)
    <3>1. Append(p, t) \in Path /\ Len(Append(p, t)) >= 1 /\ Append(p, t)[1] = p[1]
      BY <1>2 DEF Path
    <3> QED
      BY <1>2, <3>1, BlobStays
  <2> HIDE DEF d, p
  <2> QED
    BY <1>3, <1>4, <1>5, <2>1, <2>2 DEF d
<1>10. CASE RemoveBlobs(r)
  <2> DEFINE kept == {e \in d : \A v \in x.found : e.path # Blob(v.ref)}
  <2>1. \A v \in x.found : Blob(ref) # Blob(v.ref)
    <3>1. At(r, "remove_blobs")
      BY <1>10 DEF RemoveBlobs
    <3> QED
      BY <3>1 DEF Blob
  <2>2. BlobOn(kept, ref)
    BY <2>1 DEF BlobOn, FileOn
  <2>3. store' = [store EXCEPT !.disk = kept]
    BY <1>10, Zenon DEF RemoveBlobs, Becomes
  <2> QED
    BY <1>4, <2>2, <2>3
<1>11. CASE RenameOnDisk(r)
  <2>1. Plan(x.op)[x.pc] = "rename_on_disk"
    BY <1>11 DEF RenameOnDisk, At
  <2>2. x.op \in {"delete", "rename", "move", "restore"} /\ x.pc > 1
    BY <1>2, <2>1, Positions
  <2>3. q[1] # VERSIONS
    <3>1. TrashPath(r, NameOf(p))[1] = TRASH
      BY DEF TrashPath
    <3> QED
      BY <1>1, <2>2, <3>1, StorageAssumption DEF Sided, UserPath
  <2>4. store' = store \/ store' = [store EXCEPT !.disk = RenameOn(d, p, q)]
    BY <1>11, Zenon DEF RenameOnDisk, GivesUp
  <2> QED
    BY <1>3, <1>4, <1>5, <2>3, <2>4
<1>12. CASE InsertRow(r)
  <2> DEFINE undone == [store EXCEPT !.disk = RemoveFileOn(d, p)]
             added == store.rows \cup {NewRow(p, FALSE, r, x.node)}
  <2>1. store' = undone \/ store' = [store EXCEPT !.rows = added]
    BY <1>12, Zenon DEF InsertRow, Commits, GivesUp, Becomes
  <2>2. store' = [store EXCEPT !.rows = added] => store'.disk = d
    BY <1>1, StoreParts
  <2> HIDE DEF added, d, p
  <2> QED
    BY <1>3, <1>4, <1>5, <2>1, <2>2 DEF d
<1>13. CASE InsertVersion(r) \/ DeleteRow(r) \/ InsertFirst(r) \/ DeleteVersions(r) \/ UpdateChecksum(r)
  <2>1. ASSUME NEW s, s.disk = d, Commits(r, s) \/ GivesUp(r, store) \/ store' = store
        PROVE  store'.disk = d
    BY <2>1 DEF Commits, GivesUp, Becomes
  <2>2. \A a : [store EXCEPT !.rows = a].disk = d /\ [store EXCEPT !.versions = a].disk = d
    BY <1>1, StoreParts
  <2>3. InsertVersion(r) => store'.disk = d
    <3> SUFFICES ASSUME InsertVersion(r) PROVE store'.disk = d
      OBVIOUS
    <3> DEFINE n == [store EXCEPT !.versions = store.versions \cup {NewVersion(r)}]
    <3>1. Commits(r, n) \/ GivesUp(r, store)
      BY DEF InsertVersion, NewVersion
    <3>2. n.disk = d
      BY <2>2
    <3> HIDE DEF n
    <3> QED
      BY <2>1, <3>1, <3>2
  <2>4. DeleteRow(r) => store'.disk = d
    <3> SUFFICES ASSUME DeleteRow(r) PROVE store'.disk = d
      OBVIOUS
    <3> DEFINE n == [store EXCEPT !.rows = {w \in store.rows : ~Covers(p, w.path)}]
    <3>1. Commits(r, n) \/ GivesUp(r, store)
      BY DEF DeleteRow
    <3>2. n.disk = d
      BY <2>2
    <3> HIDE DEF n
    <3> QED
      BY <2>1, <3>1, <3>2
  <2>5. InsertFirst(r) => store'.disk = d
    <3> SUFFICES ASSUME InsertFirst(r) PROVE store'.disk = d
      OBVIOUS
    <3> DEFINE n == [store EXCEPT !.rows = store.rows \cup {NewRow(p, x.op = "folder", IF x.op = "folder" THEN NoSum ELSE r, x.node)}]
    <3>1. Commits(r, n) \/ GivesUp(r, store) \/ store' = store
      BY DEF InsertFirst, NoWrite
    <3>2. n.disk = d
      BY <2>2
    <3> HIDE DEF n
    <3> QED
      BY <2>1, <3>1, <3>2
  <2>6. DeleteVersions(r) => store'.disk = d
    <3> SUFFICES ASSUME DeleteVersions(r) PROVE store'.disk = d
      OBVIOUS
    <3> DEFINE n == [store EXCEPT !.versions = {v \in store.versions : ~Covers(p, v.path)}]
    <3>1. Commits(r, n) \/ GivesUp(r, store)
      BY DEF DeleteVersions
    <3>2. n.disk = d
      BY <2>2
    <3> HIDE DEF n
    <3> QED
      BY <2>1, <3>1, <3>2
  <2>7. UpdateChecksum(r) => store'.disk = d
    <3> SUFFICES ASSUME UpdateChecksum(r) PROVE store'.disk = d
      OBVIOUS
    <3> DEFINE n == [store EXCEPT !.rows = Rehashed(store.rows, p, (CHOOSE v \in x.found : TRUE).sum)]
    <3>1. Commits(r, n) \/ GivesUp(r, store)
      BY DEF UpdateChecksum
    <3>2. n.disk = d
      BY <2>2
    <3> HIDE DEF n
    <3> QED
      BY <2>1, <3>1, <3>2
  <2> QED
    BY <1>5, <1>13, <2>3, <2>4, <2>5, <2>6, <2>7
<1>14. CASE Commit(r)
  <2>1. \E a, b : store' = [store EXCEPT !.rows = a, !.versions = b]
    BY <1>14, Zenon DEF Commit
  <2>2. store'.disk = d
    BY <1>1, <2>1 DEF StoreType
  <2> QED
    BY <1>5, <2>2
<1>15. CASE \/ FindSource(r) \/ FindFile(r) \/ FindNone(r) \/ FindParent(r) \/ FindExisting(r)
            \/ FindRoot(r) \/ FindVersion(r) \/ ReadBack(r)
            \/ ReadCurrent(r) \/ ReadMax(r) \/ ReadRefs(r)
  BY <1>5, <1>15 DEF FindSource, FindFile, FindNone, FindParent, FindExisting, FindRoot,
     FindVersion, ReadBack, ReadCurrent, ReadMax, ReadRefs, NoWrite
<1> QED
  BY <1>6, <1>7, <1>8, <1>9, <1>10, <1>11, <1>12, <1>13, <1>14, <1>15 DEF Step

LEMMA BlobsReadyStep ==
  ASSUME IInv, SidesInv, DrawsInv, BlobsReady, NEW r \in Requests, Step(r)
  PROVE  BlobsReady'
<1> SUFFICES ASSUME NEW q \in Requests, InFlight(q)', Copied(req'[q].op, req'[q].pc)
             PROVE  BlobOn(store'.disk, q)
  BY DEF BlobsReady
<1> DEFINE x == req[r]
           d == store.disk
<1>1. /\ RequestsInv /\ RequestsInv' /\ Moved(r) /\ InFlight(r) /\ store \in StoreType
      /\ q \in Refs
  BY RequestsStep, StepLabel, SameTypes, AsyncAssumption DEF IInv, FP!StoreInv
<1>2. /\ x \in RequestType /\ x.op \in Ops /\ x.pc \in 1 .. Len(Plan(x.op))
      /\ req \in [Requests -> RequestType] /\ x.pc \in Nat
  BY <1>1 DEF RequestsInv, Knows, RequestType
<1>3. ASSUME InFlight(q), Copied(req[q].op, req[q].pc)
      PROVE  BlobOn(store'.disk, q)
  <2>1. BlobOn(d, q)
    BY <1>3 DEF BlobsReady
  <2>2. ~Spent(req[q])
    <3>1. req[q].pc \in Nat
      BY <1>1 DEF RequestsInv, RequestType
    <3> QED
      BY <1>3, <3>1 DEF Copied, Spent, PastInsert
  <2>3. \A v \in x.found : v.ref # q
    BY <2>2 DEF DrawsInv
  <2> QED
    BY <1>1, <2>1, <2>3, BlobKept
<1>4. CASE q # r
  <2>1. req'[q] = req[q]
    BY <1>1, <1>4 DEF Moved
  <2> QED
    BY <1>3, <2>1 DEF InFlight
<1>5. CASE q = r
  <2>1. PICK n \in {1, 3, 4, 7} :
           Skips(r, n) /\ req'[r].op = x.op /\ req'[r].pc = x.pc + n
    BY <1>1, <1>5, MovedFields
  <2>2. /\ n = 7 => Plan(x.op)[x.pc] = "find_existing"
        /\ n = 4 => Plan(x.op)[x.pc] = "read_current"
        /\ n = 3 => Plan(x.op)[x.pc] = "copy_blob"
    BY <2>1 DEF Skips, At
  <2>3. /\ n = 7 => x.op \in {"upload", "chunked"} /\ x.pc = 2
        /\ n = 4 => \/ x.op = "save" /\ x.pc = 2
                    \/ x.op \in {"upload", "chunked", "version"} /\ x.pc = 3
        /\ n = 3 => \/ x.op = "save" /\ x.pc = 3
                    \/ x.op \in {"upload", "chunked", "version"} /\ x.pc = 4
        /\ x.op = "save" /\ x.pc = 3 => Plan(x.op)[x.pc] = "copy_blob"
        /\ x.op \in {"upload", "chunked", "version"} /\ x.pc = 4
             => Plan(x.op)[x.pc] = "copy_blob"
    BY <1>2, <2>2, Positions
  <2>4. Copied(x.op, x.pc + n)
    BY <1>5, <2>1
  <2>5. n = 1 /\ \/ Copied(x.op, x.pc)
                 \/ x.op = "save" /\ x.pc = 3
                 \/ x.op \in {"upload", "chunked", "version"} /\ x.pc = 4
    BY <1>2, <2>3, <2>4 DEF Copied
  <2>6. CASE Copied(x.op, x.pc)
    BY <1>1, <1>3, <1>5, <2>6
  <2>7. CASE Plan(x.op)[x.pc] = "copy_blob"
    <3> DEFINE bytes == FileOn(d, x.path)
               f == d \cup {[e EXCEPT !.path = Blob(r)] : e \in bytes}
    <3>1. CopyBlob(r)
      BY <1>1, <2>7, StepLabel DEF At
    <3>2. store' = [store EXCEPT !.disk = f]
      BY <3>1, Zenon DEF CopyBlob, Becomes
    <3>3. store'.disk = f
      BY <1>1, <3>2, StoreParts
    <3>4. bytes # {}
      <4> SUFFICES ASSUME bytes = {} PROVE FALSE
        OBVIOUS
      <4>1. Resume(r, x, 3)
        BY <3>1 DEF CopyBlob
      <4>2. req'[r].pc = x.pc + 3
        BY <1>2, <4>1, Resumed
      <4> QED
        BY <1>2, <2>1, <2>5, <4>2
    <3>5. PICK e \in bytes : TRUE
      BY <3>4
    <3>6. e \in EntryType /\ e.data # DIR
      BY <1>1 DEF StoreType, FileOn
    <3>7. [e EXCEPT !.path = Blob(r)].path = Blob(r) /\ [e EXCEPT !.path = Blob(r)].data # DIR
      BY <3>6 DEF EntryType
    <3>8. [e EXCEPT !.path = Blob(r)] \in f
      BY <3>5
    <3> DEFINE g == [e EXCEPT !.path = Blob(r)]
    <3>9. g \in f /\ g.path = Blob(r) /\ g.data # DIR
      BY <3>7, <3>8
    <3> HIDE DEF f, bytes, g
    <3>10. BlobOn(f, r)
      BY <3>9 DEF BlobOn, FileOn
    <3> QED
      BY <1>5, <3>3, <3>10
  <2> QED
    BY <2>3, <2>5, <2>6, <2>7
<1> QED
  BY <1>4, <1>5

----------------------------------------------------------------------------
(* The other steps, the start, and what follows.                           *)

LEMMA MarksBegin ==
  ASSUME OnlyUserPaths, MarksIInv, NEW r \in Requests, NEW in \in Inputs, Begin(r, in)
  PROVE  MarksIInv'
<1> DEFINE y == Started(r, in)
<1>1. /\ req[r].status = "idle" /\ req'[r] = y
      /\ \A o \in Requests \ {r} : req'[o] = req[o]
      /\ store' = store /\ IInv'
  BY BeginRequests, BeginStep DEF MarksIInv
<1>2. /\ y.status = "run" /\ y.pc = 1 /\ y.op = in.op /\ y.path = in.path
      /\ y.dest = Destination(r, in) /\ y.found = {}
  BY NewRequest
<1>3. /\ in.op \in Ops /\ in.path \in Path /\ in.dest \in Path
      /\ in.op = "rename" => ParentOf(in.dest) = ParentOf(in.path)
      /\ in.op \in {"restore", "purge"} => in.path[1] = TRASH
      /\ in.op \notin {"restore", "purge"} => UserPath(in.path)
      /\ in.op \in {"rename", "move"} => UserPath(in.dest)
  BY InputAssumption DEF OnlyUserPaths
<1>4. /\ in.op = "delete" => Destination(r, in) = TrashPath(r, NameOf(in.path))
      /\ in.op \in {"rename", "move"} => Destination(r, in) = in.dest
      /\ in.op \notin {"delete", "rename", "move"} => Destination(r, in) = in.path
  BY DEF Destination
<1>5. Sided(r, y)
  BY <1>2, <1>3, <1>4, StorageAssumption DEF Sided, UserPath
<1>6. ~Copied(y.op, y.pc) /\ ~Spent(req[r])
  BY <1>1, <1>2 DEF Copied, Spent
<1> HIDE DEF y
<1>7. SidesInv'
  BY <1>1, <1>5 DEF MarksIInv, SidesInv, InFlight
<1>8. DrawsInv'
  <2>1. \A q \in Requests : Spent(req[q]) => Spent(req'[q])
    BY <1>1, <1>6
  <2>2. \A q \in Requests : req[q].op = "delete" /\ req[q].status = "ok" => req'[q] = req[q]
    BY <1>1
  <2>3. \A q \in Requests : req'[q].found \subseteq req[q].found
    BY <1>1, <1>2
  <2> QED
    BY <1>1, <2>1, <2>2, <2>3 DEF MarksIInv, DrawsInv
<1>9. BlobsReady'
  BY <1>1, <1>6 DEF MarksIInv, BlobsReady, InFlight
<1> QED
  BY <1>1, <1>7, <1>8, <1>9 DEF MarksIInv

LEMMA MarksCrash ==
  ASSUME MarksIInv, Crash
  PROVE  MarksIInv'
<1>1. /\ \A o \in Requests : ~InFlight(o)'
      /\ store' = store /\ IInv'
      /\ \A o \in Requests :
           /\ req'[o].op = req[o].op /\ req'[o].pc = req[o].pc
           /\ req[o].status = "idle" <=> req'[o].status = "idle"
  BY CrashRequests, CrashStep DEF MarksIInv
<1>2. \A o \in Requests : /\ req'[o].found = req[o].found
                          /\ req[o].status = "ok" => req'[o].status = "ok"
  <2> SUFFICES ASSUME NEW o \in Requests
               PROVE  /\ req'[o].found = req[o].found
                      /\ req[o].status = "ok" => req'[o].status = "ok"
    OBVIOUS
  <2>1. req[o] \in RequestType
    BY DEF MarksIInv, IInv, RequestsInv
  <2>2. req'[o] = IF InFlight(o) THEN [req[o] EXCEPT !.status = "failed"] ELSE req[o]
    BY DEF Crash
  <2> QED
    BY <2>1, <2>2 DEF RequestType, InFlight
<1>3. \A o \in Requests : Spent(req[o]) => Spent(req'[o])
  BY <1>1 DEF Spent
<1>4. DrawsInv'
  BY <1>1, <1>2, <1>3 DEF MarksIInv, DrawsInv
<1> QED
  BY <1>1, <1>4 DEF MarksIInv, SidesInv, BlobsReady

LEMMA RefsDistinct ==
  ASSUME NEW versions, IsFiniteSet(versions),
         Cardinality({v.ref : v \in versions}) = Cardinality(versions)
  PROVE  RefsUnique(versions)
<1> DEFINE f == [v \in versions |-> v.ref]
           T == {v.ref : v \in versions}
<1>1. f \in Surjection(versions, T)
  BY DEF Surjection
<1> HIDE DEF f, T
<1>2. Cardinality(T) = Cardinality(versions)
  BY DEF T
<1>3. f \in Injection(versions, T)
  BY <1>1, <1>2, FS_Surjection
<1>4. \A u, v \in versions : f[u] = f[v] => u = v
  BY <1>1, <1>3 DEF Injection, Surjection, IsInjective
<1> QED
  BY <1>4 DEF RefsUnique, f

LEMMA MarksInit ==
  ASSUME OnlyUserPaths, Init
  PROVE  MarksIInv
<1>1. /\ store = Initial /\ req = [r \in Requests |-> Idle]
      /\ Files!TrashConsistent /\ Files!HistoryAttached
  BY DEF Init
<1>2. \A r \in Requests : req[r].status = "idle" /\ req[r].found = {}
  BY <1>1 DEF Idle
<1>3. MarksInv(store.rows)
  <2>1. \A w \in store.rows : w.orig # NoPath => UserPath(w.orig)
    BY <1>1 DEF OnlyUserPaths
  <2> QED
    BY <1>1, <2>1 DEF MarksInv, FP!TrashInv, Files!TrashConsistent, UserPath
<1>4. DrawsInv
  <2>1. \A r \in Requests : FP!NothingUnder(store.rows, r)
    <3> SUFFICES ASSUME NEW r \in Requests, NEW w \in store.rows,
                        FP!Below(<<TRASH, r>>, w.path)
                 PROVE  FALSE
      BY DEF FP!NothingUnder
    <3> DEFINE u == <<TRASH, r>>
    <3>1. w.path \in FP!Path /\ Fresh(w.path)
      BY <1>1, StartAssumption, SameTypes DEF StoreType, RowType
    <3>2. u \in FP!Path /\ Len(u) = 2 /\ u[2] = r
      BY AsyncAssumption, StorageAssumption DEF FP!Path
    <3> HIDE DEF u
    <3>3. Len(u) < Len(w.path) /\ \A k \in 1 .. Len(u) : w.path[k] = u[k]
      BY <3>1, <3>2, Assumed, FP!BelowElements DEF u
    <3>4. Len(w.path) \in Nat
      BY <3>1 DEF FP!Path
    <3> QED
      BY <3>1, <3>2, <3>3, <3>4 DEF Fresh
  <2>2. \A r \in Requests, v \in store.versions : v.ref # r
    BY <1>1, StartAssumption
  <2> QED
    BY <1>2, <2>1, <2>2 DEF DrawsInv
<1>5. RefsUnique(store.versions)
  <2>1. Cardinality({v.ref : v \in store.versions}) = Cardinality(store.versions)
    <3>1. \A S : Files!Cardinality(S) = Cardinality(S)
      BY DEF Cardinality, Files!Cardinality
    <3> QED
      BY <1>1, <3>1, Zenon DEF Files!HistoryAttached
  <2>2. IsFiniteSet(store.versions)
    BY <1>1, StartAssumption
  <2> QED
    BY <2>1, <2>2, RefsDistinct
<1> QED
  BY <1>2, <1>3, <1>4, <1>5, InvInit DEF MarksIInv, SidesInv, BlobsReady, InFlight

LEMMA MarksNext ==
  ASSUME LikeIsExact, OnlyUserPaths
  PROVE  MarksIInv /\ [Next]_vars => MarksIInv'
<1> SUFFICES ASSUME MarksIInv, [Next]_vars PROVE MarksIInv'
  OBVIOUS
<1>1. CASE UNCHANGED vars
  <2>1. IInv'
    BY InvStep DEF MarksIInv
  <2> QED
    BY <1>1, <2>1 DEF vars, MarksIInv, SidesInv, DrawsInv, BlobsReady, InFlight
<1>2. ASSUME NEW r \in Requests, Step(r)
      PROVE  MarksIInv'
  BY <1>2, StepStep, MarksStep, SidesStep, DrawsStep, RefsStep, BlobsReadyStep DEF MarksIInv
<1> QED
  BY <1>1, <1>2, MarksBegin, MarksCrash DEF Next

LEMMA MarksAlways ==
  ASSUME LikeIsExact, OnlyUserPaths
  PROVE  Spec => []MarksIInv
<1>1. Init => MarksIInv
  BY MarksInit
<1>2. MarksIInv /\ [Next]_vars => MarksIInv'
  BY MarksNext
<1> QED
  BY <1>1, <1>2, PTL DEF Spec

(* The marks of the trash under any interleaving of the handlers, with     *)
(* crashes and lock timeouts: a committed row is marked deleted exactly    *)
(* when it lies in the trash, and has an original path exactly when it is  *)
(* the root of a trashed tree.                                             *)
THEOREM MarksStayConsistent ==
  ASSUME LikeIsExact, OnlyUserPaths
  PROVE  Spec => []Files!TrashConsistent
<1>1. MarksIInv => Files!TrashConsistent
  BY DEF MarksIInv, MarksInv, FP!TrashInv, Files!TrashConsistent
<1> QED
  BY <1>1, MarksAlways, PTL

----------------------------------------------------------------------------
(***************************************************************************)
(* While no two requests in flight had related paths, what a handler read  *)
(* stays true until it acts on it: the entry it moves is where it was, the *)
(* folder it adds to is still a live folder, the versions it is about to   *)
(* forget are still those under its path.  Others act at or below their    *)
(* own paths only, and those are apart from its own.  So at its commit the *)
(* sequential argument about the tree applies.                             *)
(***************************************************************************)

Apart == \A r, o \in Requests : r # o /\ InFlight(r) /\ InFlight(o) => ~Collide(req[r], req[o])

\* The entry that a relocation moves, of the kind it read.
MovesLive(x) == \/ x.op = "delete" /\ x.pc \in 2 .. 3
                \/ x.op = "rename" /\ x.pc \in 2 .. 4
                \/ x.op = "move" /\ x.pc \in 2 .. 5
MovesBack(x) == x.op = "restore" /\ x.pc \in 2 .. 5
HasSource(rows, x) ==
  /\ MovesLive(x) => \E w \in rows : w.path = x.path /\ w.dir = x.dir /\ w.deleted = FALSE
  /\ MovesBack(x) => \E w \in rows : w.path = x.path /\ w.dir = x.dir /\ w.orig = x.dest

\* The folder the entry goes into.
Lands(x) == \/ x.op = "move" /\ x.pc \in 3 .. 5
            \/ x.op = "restore" /\ x.pc \in 4 .. 5
            \/ x.op = "upload" /\ x.pc \in 2 .. 12
            \/ x.op = "chunked" /\ x.pc \in 2 .. 10
            \/ x.op = "folder" /\ x.pc = 3
            \/ x.op = "save" /\ x.pc \in 2 .. 8
HasParent(rows, x) ==
  /\ Lands(x) => FP!FolderAt(rows, ParentOf(x.dest))
  /\ x.op = "move" /\ x.pc \in 3 .. 5 => ~(x.dir /\ FP!AtOrBelow(x.path, ParentOf(x.dest)))

\* The versions a purge forgets: under its path first, then gone.
HasRefs(versions, x) ==
  /\ x.op = "purge" /\ x.pc = 3 =>
       \A w \in versions, v \in x.found : v.ref = w.ref => Covers(x.path, w.path)
  /\ x.op = "purge" /\ x.pc = 4 =>
       \A w \in versions, v \in x.found : v.ref # w.ref

Situated == \A r \in Requests : InFlight(r) => /\ HasSource(store.rows, req[r])
                                               /\ HasParent(store.rows, req[r])
                                               /\ HasRefs(store.versions, req[r])
BlobsThere == \A v \in store.versions : BlobOn(store.disk, v.ref)

QuietIInv ==
  /\ MarksIInv
  /\ ~overlap => Apart /\ FP!TreeInv(store.rows) /\ BlobsThere /\ Situated

LEMMA Distant ==
  ASSUME Apart, NEW r \in Requests, NEW o \in Requests \ {r}, InFlight(r), InFlight(o),
         NEW p \in {req[r].path, req[r].dest}, NEW q \in {req[o].path, req[o].dest}
  PROVE  /\ ~Related(p, q) /\ ~Related(q, p)
         /\ ~FP!AtOrBelow(p, q) /\ ~FP!AtOrBelow(q, p)
<1>1. ~Related(p, q)
  BY DEF Apart, Collide
<1> QED
  BY <1>1, SamePaths DEF Related, FP!AtOrBelow

\* A step changes rows at or below its own two paths only.
LEMMA RowsStay ==
  ASSUME LikeIsExact, IInv, NEW r \in Requests, Step(r), NEW w \in store.rows,
         ~FP!AtOrBelow(req[r].path, w.path), ~FP!AtOrBelow(req[r].dest, w.path)
  PROVE  \E t \in store'.rows : /\ t.path = w.path /\ t.dir = w.dir
                                /\ t.deleted = w.deleted /\ t.orig = w.orig
<1> DEFINE x == req[r]
           Goal == \E t \in store'.rows : /\ t.path = w.path /\ t.dir = w.dir
                                          /\ t.deleted = w.deleted /\ t.orig = w.orig
<1>1. /\ RowsChange(r) /\ RequestsInv /\ InFlight(r)
      /\ w \in RowType /\ w.path \in FP!Path /\ FP!LikeIsExact
  BY StepTables, StepLabel, SameTypes, SamePaths DEF IInv, FP!StoreInv, FP!RowsInv, RowType
<1>2. x.path \in FP!Path /\ x.dest \in FP!Path
  BY <1>1, RequestPaths, SameTypes
<1>3. ~Covers(x.path, w.path) /\ ~Covers(x.dest, w.path)
  BY <1>1, <1>2, Assumed, SamePaths, FP!ExactCovers
<1>4. CASE w \in store'.rows
  BY <1>4
<1>5. ASSUME NEW v, store'.rows = Rehashed(store.rows, x.path, v)
      PROVE  w \in store'.rows
  <2>1. w.path # x.path
    BY <1>3 DEF Covers
  <2> QED
    BY <1>5, <2>1 DEF Rehashed
<1>6. w \in RelocateRows(store.rows, x.path, x.dest, x.dir)
  <2>1. w.path # x.path /\ ~LikeBelow(x.path, w.path)
    BY <1>3 DEF Covers
  <2>2. MovedRow(x.path, x.dest, x.dir, w) = w
    BY <2>1 DEF MovedRow
  <2> QED
    BY <2>2 DEF RelocateRows
<1>7. ASSUME NEW rows, w \in rows
      PROVE  w \in Stamped(rows, x.dest, x.path) /\ w \in Unstamped(rows, x.dest)
  <2> HIDE DEF x
  <2> QED
    BY <1>3, <1>7 DEF Stamped, Unstamped
<1> QED
  BY <1>1, <1>3, <1>4, <1>5, <1>6, <1>7 DEF RowsChange

LEMMA FolderStays ==
  ASSUME LikeIsExact, IInv, NEW r \in Requests, Step(r),
         NEW p \in Path, FP!FolderAt(store.rows, p),
         ~FP!AtOrBelow(req[r].path, p), ~FP!AtOrBelow(req[r].dest, p)
  PROVE  FP!FolderAt(store'.rows, p)
<1>1. CASE p = FP!Root
  BY <1>1 DEF FP!FolderAt
<1>2. CASE p # FP!Root
  <2>1. PICK f \in store.rows : f.path = p /\ f.dir /\ f.deleted = FALSE
    BY <1>2 DEF FP!FolderAt
  <2>2. PICK t \in store'.rows : t.path = p /\ t.dir = f.dir /\ t.deleted = f.deleted
    BY <2>1, RowsStay
  <2> QED
    BY <2>1, <2>2 DEF FP!FolderAt
<1> QED
  BY <1>1, <1>2

\* The folder of a live entry.
LEMMA LiveFolder ==
  ASSUME IInv, MarksInv(store.rows), FP!TreeInv(store.rows),
         NEW w \in store.rows, w.deleted = FALSE
  PROVE  FP!FolderAt(store.rows, ParentOf(w.path))
<1>1. FP!Columns(w) /\ FP!Placed(store.rows, w) /\ w.orig = NoPath
  BY DEF FP!TreeInv, MarksInv, FP!TrashInv
<1>2. w.parent = ParentOf(w.path)
  BY <1>1, SamePaths DEF FP!Columns
<1> QED
  BY <1>1, <1>2 DEF FP!Placed, FP!FolderAt

LEMMA ApartStep ==
  ASSUME IInv, Apart, NEW r \in Requests, Step(r), ~overlap'
  PROVE  Apart'
<1> DEFINE x == req[r]
           y == req'[r]
<1>1. RequestsInv /\ RequestsInv' /\ Moved(r) /\ InFlight(r)
  BY RequestsStep, StepLabel DEF IInv
<1>2. \A o \in Requests \ {r} : req'[o] = req[o] /\ (InFlight(o)' <=> InFlight(o))
  BY <1>1 DEF Moved, InFlight
<1>3. \A a, b : Collide(a, b) <=> Collide(b, a)
  BY DEF Collide, Related
<1>4. ASSUME InFlight(r)', NEW o \in Requests \ {r}, InFlight(o)
      PROVE  ~Collide(y, req[o])
  <2>1. PICK n \in {1, 3, 4, 7} :
           /\ y.path = x.path /\ (x.pc # 1 \/ x.op # "restore" => y.dest = x.dest)
    BY <1>1, <1>4, MovedFields
  <2>2. ~Collide(x, req[o])
    BY <1>1, <1>4 DEF Apart
  <2>3. CASE y.dest = x.dest
    BY <2>1, <2>2, <2>3 DEF Collide
  <2>4. CASE x.pc = 1 /\ x.op = "restore"
    <3>1. x \in RequestType /\ x.op \in Ops /\ x.pc \in 1 .. Len(Plan(x.op))
      BY <1>1 DEF RequestsInv, Knows
    <3>2. Plan(x.op)[x.pc] = "find_root"
      BY <2>4, <3>1, Positions
    <3>3. FindRoot(r) /\ ~Fails(r)
      BY <1>1, <1>4, <3>2, StepLabel, Failed DEF RequestsInv, InFlight, At
    <3>4. PICK t \in TrashRoots(store) :
             /\ Learns(r, [x EXCEPT !.dir = t.dir, !.dest = t.orig])
             /\ overlap' = (overlap \/ Crosses(r, [x EXCEPT !.dir = t.dir, !.dest = t.orig]))
      BY <2>4, <3>3 DEF FindRoot
    <3> DEFINE z == [x EXCEPT !.dir = t.dir, !.dest = t.orig]
    <3>5. t.dir \in BOOLEAN /\ t.orig \in Path
      BY SameTypes DEF TrashRoots, IInv, FP!StoreInv, FP!RowsInv, RowType
    <3>6. z \in RequestType /\ z.path = x.path
      BY <3>1, <3>5 DEF RequestType
    <3> HIDE DEF z
    <3>7. Resume(r, z, 1)
      BY <3>4 DEF Learns, z
    <3>8. y.path = z.path /\ y.dest = z.dest
      BY <1>1, <3>6, <3>7, Resumed DEF RequestsInv
    <3>9. ~Crosses(r, z)
      BY <3>4 DEF z, IInv
    <3>10. ~Collide(z, req[o])
      BY <1>4, <3>9 DEF Crosses
    <3> QED
      BY <3>8, <3>10 DEF Collide
  <2> QED
    BY <2>1, <2>3, <2>4
<1> SUFFICES ASSUME NEW a \in Requests, NEW b \in Requests, a # b, InFlight(a)', InFlight(b)'
             PROVE  ~Collide(req'[a], req'[b])
  BY DEF Apart, Collide, Related
<1>5. CASE a = r
  BY <1>2, <1>4, <1>5
<1>6. CASE b = r
  <2>1. ~Collide(req'[b], req'[a])
    BY <1>2, <1>4, <1>6
  <2> QED
    BY <1>3, <2>1
<1>7. CASE a # r /\ b # r
  BY <1>2, <1>7 DEF Apart
<1> QED
  BY <1>5, <1>6, <1>7

LEMMA BlobsThereStep ==
  ASSUME MarksIInv, BlobsThere, Situated, NEW r \in Requests, Step(r)
  PROVE  BlobsThere'
<1> SUFFICES ASSUME NEW w \in store'.versions PROVE BlobOn(store'.disk, w.ref)
  BY DEF BlobsThere
<1> DEFINE x == req[r]
<1>1. /\ IInv /\ SidesInv /\ InFlight(r) /\ RequestsInv /\ r \in Refs
      /\ \A v \in store.versions : v.ref \in Refs
  BY StepLabel, SameTypes, AsyncAssumption
     DEF MarksIInv, IInv, FP!StoreInv, FP!VersionsInv, VersionType
<1>2. x.op \in Ops /\ x.pc \in 1 .. Len(Plan(x.op))
  BY <1>1 DEF RequestsInv, Knows
<1>3. CASE w = NewVersion(r) /\ At(r, "insert_version")
  <2>1. Plan(x.op)[x.pc] = "insert_version"
    BY <1>3 DEF At
  <2>2. Copied(x.op, x.pc)
    <3>1. \/ x.op = "save" /\ x.pc = 5
          \/ x.op \in {"upload", "chunked", "version"} /\ x.pc = 6
      BY <1>2, <2>1, Positions
    <3> QED
      BY <3>1 DEF Copied
  <2>3. BlobOn(store.disk, r)
    BY <1>1, <2>2 DEF MarksIInv, BlobsReady
  <2>4. ~At(r, "remove_blobs") /\ w.ref = r
    BY <1>3, <2>1 DEF At, NewVersion
  <2> QED
    BY <1>1, <2>3, <2>4, BlobKept
<1>4. ASSUME NEW v \in store.versions, w.ref = v.ref
      PROVE  BlobOn(store'.disk, w.ref)
  <2>1. BlobOn(store.disk, v.ref)
    BY DEF BlobsThere
  <2>2. At(r, "remove_blobs") => \A u \in x.found : u.ref # v.ref
    <3> SUFFICES ASSUME At(r, "remove_blobs") PROVE \A u \in x.found : u.ref # v.ref
      OBVIOUS
    <3>1. Plan(x.op)[x.pc] = "remove_blobs"
      BY DEF At
    <3>2. x.op = "purge" /\ x.pc = 4
      BY <1>2, <3>1, Positions
    <3> QED
      BY <1>1, <3>2 DEF Situated, HasRefs
  <2> QED
    BY <1>1, <1>4, <2>1, <2>2, BlobKept
<1> QED
  BY <1>1, <1>3, <1>4, VersionSources

LEMMA TreeStep ==
  ASSUME LikeIsExact, MarksIInv, FP!TreeInv(store.rows), Situated, NEW r \in Requests, Step(r)
  PROVE  FP!TreeInv(store'.rows)
<1> DEFINE x == req[r]
           old == x.path
           new == x.dest
           dir == x.dir
           rows == store.rows
           moved == RelocateRows(rows, old, new, dir)
<1>1. /\ IInv /\ RequestsInv /\ InFlight(r) /\ RowsChange(r) /\ Sided(r, x)
      /\ FP!RowsInv(rows) /\ FP!TrashInv(rows) /\ MarksInv(rows)
      /\ rows \subseteq FP!RowType /\ FP!LikeIsExact /\ FP!KeysUnique(rows)
      /\ HasSource(rows, x) /\ HasParent(rows, x)
  BY StepTables, StepLabel, SamePaths
     DEF MarksIInv, IInv, FP!StoreInv, FP!RowsInv, SidesInv, MarksInv, Situated
<1>2. /\ old \in FP!Path /\ Len(old) >= 1 /\ new \in FP!Path /\ Len(new) >= 1 /\ dir \in BOOLEAN
      /\ x.op \in Ops /\ x.pc \in 1 .. Len(Plan(x.op)) /\ r \in Segments
  BY <1>1, RequestPaths, SameTypes DEF RequestsInv, Knows
<1>3. CASE store'.rows = rows
  BY <1>3
<1>4. ASSUME store'.rows = {w \in rows : ~Covers(old, w.path)}
      PROVE  FP!TreeInv(store'.rows)
  <2>1. {old} \in SUBSET FP!Path
    BY <1>2
  <2>2. FP!TreeInv({w \in rows : \A p \in {old} : ~FP!Covers(p, w.path)})
    BY <1>1, <2>1, Assumed, FP!RemovedTree
  <2>3. {w \in rows : \A p \in {old} : ~FP!Covers(p, w.path)} = store'.rows
    BY <1>4, SamePaths
  <2> QED
    BY <2>2, <2>3
<1>5. ASSUME NEW d, NEW sum, store'.rows = rows \cup {NewRow(old, d, sum, x.node)},
             At(r, "insert_row") \/ At(r, "insert_first")
      PROVE  FP!TreeInv(store'.rows)
  <2>1. Plan(x.op)[x.pc] \in {"insert_row", "insert_first"}
    BY <1>5 DEF At
  <2>2. Lands(x) /\ x.op \in {"upload", "chunked", "folder", "save"}
    <3>1. \/ x.op = "chunked" /\ x.pc = 10
          \/ x.op = "upload" /\ x.pc = 12
          \/ x.op = "folder" /\ x.pc = 3
          \/ x.op = "save" /\ x.pc = 8
      BY <1>2, <2>1, Positions
    <3> QED
      BY <3>1 DEF Lands
  <2>3. FP!FolderAt(rows, FP!ParentOf(old))
    BY <1>1, <2>2, SamePaths DEF HasParent, Sided
  <2>4. FP!TreeInv(rows \cup {FP!NewRow(old, d, sum, x.node)})
    BY <1>1, <2>3, Assumed, FP!InsertedTree DEF FP!FolderAt
  <2> QED
    BY <1>5, <2>4, SameRows
<1>6. ASSUME NEW v, store'.rows = Rehashed(rows, old, v)
      PROVE  FP!TreeInv(store'.rows)
  <2>1. FP!TreeInv(FP!Rehashed(rows, old, v))
    BY <1>1, Assumed, FP!UpdatedTree
  <2> QED
    BY <1>6, <2>1, SameRows
<1>7. ASSUME At(r, "commit")
      PROVE  \/ x.op \in {"delete", "rename", "move"} /\ MovesLive(x)
             \/ x.op = "restore" /\ MovesBack(x)
  <2>1. Plan(x.op)[x.pc] = "commit"
    BY <1>7 DEF At
  <2>2. \/ x.op = "delete" /\ x.pc = 3
        \/ x.op = "rename" /\ x.pc = 4
        \/ x.op = "move" /\ x.pc = 5
        \/ x.op = "restore" /\ x.pc = 5
    BY <1>2, <2>1, Positions
  <2> QED
    BY <2>2 DEF MovesLive, MovesBack
<1>8. ASSUME At(r, "commit"), x.op = "delete", store'.rows = Stamped(moved, new, old)
      PROVE  FP!TreeInv(store'.rows)
  <2>1. new = TrashPath(r, NameOf(old)) /\ old[1] # TRASH /\ NameOf(old) \in Segments
    BY <1>1, <1>2, <1>8, Assumed, SamePaths, FP!NamePath DEF Sided
  <2>2. FP!NothingUnder(rows, r)
    BY <1>1 DEF MarksIInv, DrawsInv, InFlight
  <2>3. \A t \in rows : t.path = old => t.dir = dir
    BY <1>1, <1>7, <1>8 DEF HasSource, FP!KeysUnique
  <2>4. FP!TreeInv(FP!Stamped(FP!RelocateRows(rows, old, FP!TrashPath(r, NameOf(old)), dir),
                              FP!TrashPath(r, NameOf(old)), old))
    BY <1>1, <1>2, <2>1, <2>2, <2>3, Assumed, FP!SoftDeleteTree
  <2> QED
    BY <1>8, <2>1, <2>4, SameRows
<1>9. ASSUME At(r, "commit"), x.op = "restore", store'.rows = Unstamped(moved, new)
      PROVE  FP!TreeInv(store'.rows)
  <2>1. x.pc = 5
    <3>1. Plan(x.op)[x.pc] = "commit"
      BY <1>9 DEF At
    <3> QED
      BY <1>2, <1>9, <3>1, Positions
  <2>2. PICK s \in rows : s.path = old /\ s.dir = dir /\ s.orig = new
    BY <1>1, <1>7, <1>9 DEF HasSource
  <2>3. Len(old) = 3
    <3>1. s.orig # NoPath
      BY <1>2, <2>2, SameTypes, StorageAssumption
    <3> QED
      BY <1>1, <2>2, <3>1 DEF FP!TrashInv
  <2>4. old[1] = TRASH /\ new[1] # TRASH
    BY <1>1, <1>9, <2>1 DEF Sided, UserPath
  <2>5. \A t \in rows : t.path = old => t.dir = dir
    BY <1>1, <2>2 DEF FP!KeysUnique
  <2>6. FP!FolderAt(rows, FP!ParentOf(new))
    BY <1>1, <1>9, <2>1, SamePaths DEF HasParent, Lands
  <2>7. \/ FP!ParentOf(new) = FP!Root
        \/ \E t \in rows : t.path = FP!ParentOf(new) /\ t.dir /\ ~t.deleted
    BY <2>6 DEF FP!FolderAt
  <2>8. FP!TreeInv(FP!Unstamped(FP!RelocateRows(rows, old, new, dir), new))
    BY <1>1, <1>2, <2>3, <2>4, <2>5, <2>7, Assumed, FP!RestoredTree
  <2> QED
    BY <1>9, <2>8, SameRows
<1>10. ASSUME At(r, "commit"), x.op \in {"rename", "move"}, store'.rows = moved
       PROVE  FP!TreeInv(store'.rows)
  <2> DEFINE parent == FP!ParentOf(new)
  <2>1. PICK s \in rows : s.path = old /\ s.dir = dir /\ s.deleted = FALSE
    BY <1>1, <1>7, <1>10 DEF HasSource
  <2>2. \A t \in rows : t.path = old => t.dir = dir /\ ~t.deleted
    BY <1>1, <2>1 DEF FP!KeysUnique
  <2>3. FP!FolderAt(rows, parent) /\ ~(dir /\ FP!Covers(old, parent)) /\ parent \in FP!Path
    <3>1. CASE x.op = "move"
      <4>1. x.pc = 5
        <5>1. Plan(x.op)[x.pc] = "commit"
          BY <1>10 DEF At
        <5> QED
          BY <1>2, <3>1, <5>1, Positions
      <4>2. FP!FolderAt(rows, parent) /\ ~(dir /\ FP!AtOrBelow(old, parent))
        BY <1>1, <3>1, <4>1, SamePaths DEF HasParent, Lands
      <4>3. parent \in FP!Path
        BY <1>2, Assumed, FP!ParentPath
      <4> QED
        BY <1>1, <1>2, <4>2, <4>3, Assumed, FP!ExactCovers
    <3>2. CASE x.op = "rename"
      <4>1. parent = FP!ParentOf(old)
        BY <1>1, <3>2, SamePaths DEF Sided
      <4>2. FP!FolderAt(rows, FP!ParentOf(old))
        BY <1>1, <2>1, LiveFolder, SamePaths
      <4>3. ~FP!Covers(old, FP!ParentOf(old))
        <5>1. FP!Covers(old, FP!ParentOf(old)) => FP!LikeBelow(old, old)
          BY <1>1, <1>2, Assumed, FP!ParentCovered
        <5>2. ~FP!LikeBelow(old, old)
          BY <1>2 DEF FP!LikeBelow, FP!Path
        <5> QED
          BY <5>1, <5>2
      <4>4. parent \in FP!Path
        BY <1>2, Assumed, FP!ParentPath
      <4> QED
        BY <4>1, <4>2, <4>3, <4>4
    <3> QED
      BY <1>10, <3>1, <3>2
  <2>4. ~(dir /\ FP!LikeBelow(old, new))
    BY <1>1, <1>2, <2>3, Assumed, FP!ParentCovered
  <2>5. \/ parent = FP!Root
        \/ \E t \in rows : t.path = parent /\ t.dir /\ ~t.deleted /\ ~FP!Gone(old, dir, t)
    <3> SUFFICES ASSUME parent # FP!Root
                 PROVE  \E t \in rows : t.path = parent /\ t.dir /\ ~t.deleted /\ ~FP!Gone(old, dir, t)
      OBVIOUS
    <3>1. PICK t \in rows : t.path = parent /\ t.dir /\ t.deleted = FALSE
      BY <2>3 DEF FP!FolderAt
    <3>2. ~FP!Gone(old, dir, t)
      BY <2>2, <2>3, <3>1 DEF FP!Gone, FP!Covers
    <3> QED
      BY <3>1, <3>2
  <2>6. FP!TreeInv(FP!RelocateRows(rows, old, new, dir))
    BY <1>1, <1>2, <2>2, <2>4, <2>5, Assumed, FP!RelocateLiveTree
  <2> QED
    BY <1>10, <2>6, SameRows
<1> HIDE DEF x
<1>11. \/ store'.rows = rows
       \/ store'.rows = {w \in rows : ~Covers(old, w.path)}
       \/ /\ At(r, "insert_row") \/ At(r, "insert_first")
          /\ \E d, sum : store'.rows = rows \cup {NewRow(old, d, sum, x.node)}
       \/ \E v : store'.rows = Rehashed(rows, old, v)
       \/ /\ At(r, "commit")
          /\ \/ x.op = "delete" /\ store'.rows = Stamped(moved, new, old)
             \/ x.op = "restore" /\ store'.rows = Unstamped(moved, new)
             \/ x.op \notin {"delete", "restore"} /\ store'.rows = moved
  BY <1>1 DEF RowsChange, x
<1> HIDE DEF moved
<1>12. CASE \E d, sum : store'.rows = rows \cup {NewRow(old, d, sum, x.node)}
            /\ (At(r, "insert_row") \/ At(r, "insert_first"))
  BY <1>5, <1>12
<1>13. CASE \E v : store'.rows = Rehashed(rows, old, v)
  BY <1>6, <1>13
<1> QED
  BY <1>3, <1>4, <1>7, <1>8, <1>9, <1>10, <1>11, <1>12, <1>13

----------------------------------------------------------------------------
(* What the other handlers read is not disturbed.                          *)

LEMMA SourceStays ==
  ASSUME LikeIsExact, IInv, Apart, NEW r \in Requests, Step(r),
         NEW q \in Requests \ {r}, InFlight(q), HasSource(store.rows, req[q])
  PROVE  HasSource(store'.rows, req[q])
<1> DEFINE z == req[q]
<1>1. InFlight(r)
  BY StepLabel
<1>2. /\ ~FP!AtOrBelow(req[r].path, z.path) /\ ~FP!AtOrBelow(req[r].dest, z.path)
  BY <1>1, Distant
<1>3. \A w \in store.rows : w.path = z.path =>
         \E t \in store'.rows : /\ t.path = w.path /\ t.dir = w.dir
                                /\ t.deleted = w.deleted /\ t.orig = w.orig
  BY <1>2, RowsStay
<1>4. ASSUME MovesLive(z)
      PROVE  \E t \in store'.rows : t.path = z.path /\ t.dir = z.dir /\ t.deleted = FALSE
  <2>1. PICK w \in store.rows : w.path = z.path /\ w.dir = z.dir /\ w.deleted = FALSE
    BY <1>4 DEF HasSource
  <2> QED
    BY <1>3, <2>1
<1>5. ASSUME MovesBack(z)
      PROVE  \E t \in store'.rows : t.path = z.path /\ t.dir = z.dir /\ t.orig = z.dest
  <2>1. PICK w \in store.rows : w.path = z.path /\ w.dir = z.dir /\ w.orig = z.dest
    BY <1>5 DEF HasSource
  <2> QED
    BY <1>3, <2>1
<1> QED
  BY <1>4, <1>5 DEF HasSource

LEMMA ParentStays ==
  ASSUME LikeIsExact, IInv, Apart, NEW r \in Requests, Step(r),
         NEW q \in Requests \ {r}, InFlight(q), HasParent(store.rows, req[q])
  PROVE  HasParent(store'.rows, req[q])
<1> DEFINE z == req[q]
           parent == ParentOf(z.dest)
<1>1. InFlight(r) /\ RequestsInv
  BY StepLabel DEF IInv
<1>2. z.dest \in FP!Path /\ Len(z.dest) >= 1 /\ req[r].path \in FP!Path /\ req[r].dest \in FP!Path
  BY <1>1, RequestPaths, SameTypes
<1>3. parent \in Path
  BY <1>2, Assumed, FP!ParentPath, SameTypes, SamePaths
<1>4. ~FP!Below(req[r].path, z.dest) /\ ~FP!Below(req[r].dest, z.dest)
  BY <1>1, Distant DEF FP!AtOrBelow
<1>5. ~FP!AtOrBelow(req[r].path, parent) /\ ~FP!AtOrBelow(req[r].dest, parent)
  BY <1>2, <1>4, Assumed, FP!BelowParent, SamePaths
<1>6. FP!FolderAt(store.rows, parent) => FP!FolderAt(store'.rows, parent)
  BY <1>3, <1>5, FolderStays
<1> QED
  BY <1>6 DEF HasParent

LEMMA RefsStay ==
  ASSUME LikeIsExact, MarksIInv, Apart, NEW r \in Requests, Step(r),
         NEW q \in Requests \ {r}, InFlight(q), HasRefs(store.versions, req[q])
  PROVE  HasRefs(store'.versions, req[q])
<1> DEFINE x == req[r]
           z == req[q]
<1>1. InFlight(r) /\ IInv /\ DrawsInv /\ RequestsInv
  BY StepLabel DEF MarksIInv, IInv
<1>2. /\ x.path \in FP!Path /\ x.dest \in FP!Path /\ Len(x.dest) >= 1 /\ x.dir \in BOOLEAN
      /\ z.path \in FP!Path
      /\ \A v \in store.versions : v.path \in FP!Path
  BY <1>1, RequestPaths, SameTypes DEF IInv, FP!StoreInv, FP!VersionsInv, VersionType
<1>3. ASSUME NEW w \in store'.versions, NEW v \in z.found, v.ref = w.ref
      PROVE  \E u \in store.versions :
               u.ref = v.ref /\ w.path \in {u.path, MovedPath(x.path, x.dest, x.dir, u.path)}
  <2>1. ~(w = NewVersion(r) /\ ~Spent(x))
    <3>1. v.ref = r => Spent(x)
      BY <1>1 DEF DrawsInv
    <3>2. NewVersion(r).ref = r
      BY DEF NewVersion
    <3> QED
      BY <1>3, <3>1, <3>2
  <2> QED
    BY <1>1, <1>3, <2>1, VersionSources
<1>4. ASSUME z.op = "purge" /\ z.pc = 3,
             NEW w \in store'.versions, NEW v \in z.found, v.ref = w.ref
      PROVE  Covers(z.path, w.path)
  <2>1. PICK u \in store.versions :
           u.ref = v.ref /\ w.path \in {u.path, MovedPath(x.path, x.dest, x.dir, u.path)}
    BY <1>3, <1>4
  <2>2. Covers(z.path, u.path) /\ u.path \in FP!Path
    BY <1>2, <1>4, <2>1 DEF HasRefs
  <2>3. ASSUME MovedPath(x.path, x.dest, x.dir, u.path) # u.path
        PROVE  FALSE
    <3>1. Covers(x.path, u.path)
      BY <1>2, <2>2, <2>3, Assumed, FP!MovedFirst, SamePaths
    <3>2. FP!AtOrBelow(x.path, u.path) /\ FP!AtOrBelow(z.path, u.path)
      BY <1>2, <2>2, <3>1, Assumed, FP!ExactCovers, SamePaths
    <3>3. ~FP!AtOrBelow(x.path, z.path) /\ ~FP!AtOrBelow(z.path, x.path)
      BY <1>1, Distant
    <3>4. FP!Below(x.path, u.path) /\ FP!Below(z.path, u.path)
      BY <3>2, <3>3 DEF FP!AtOrBelow
    <3>5. FP!Below(x.path, z.path) \/ FP!AtOrBelow(z.path, x.path)
      BY <1>2, <2>2, <3>4, Assumed, FP!BelowLinear
    <3> QED
      BY <3>3, <3>5 DEF FP!AtOrBelow
  <2> QED
    BY <2>1, <2>2, <2>3
<1>5. ASSUME z.op = "purge" /\ z.pc = 4,
             NEW w \in store'.versions, NEW v \in z.found, v.ref = w.ref
      PROVE  FALSE
  BY <1>3, <1>5 DEF HasRefs
<1> QED
  BY <1>4, <1>5 DEF HasRefs

----------------------------------------------------------------------------
(* What the handler that takes the step reads, or still believes.          *)

LEMMA TablesSteady ==
  ASSUME IInv, NEW r \in Requests, Step(r), NEW label, At(r, label)
  PROVE  /\ label \notin {"delete_row", "insert_row", "insert_first", "update_checksum", "commit"}
              => store'.rows = store.rows
         /\ label \notin {"insert_version", "delete_versions", "commit"}
              => store'.versions = store.versions
<1>1. RowsChange(r) /\ VersionsChange(r)
  BY StepTables
<1>2. \A l : At(r, l) => l = label
  BY DEF At
<1> QED
  BY <1>1, <1>2 DEF RowsChange, VersionsChange

LEMMA OwnFields ==
  ASSUME IInv, SidesInv, NEW r \in Requests, Step(r), InFlight(r)'
  PROVE  \E n \in {1, 3, 4, 7} :
           /\ n # 1 => req[r].op \in {"upload", "chunked", "save", "version"}
           /\ req'[r].op = req[r].op /\ req'[r].path = req[r].path
           /\ req'[r].pc = req[r].pc + n
           /\ req[r].pc # 1 => req'[r].dir = req[r].dir
           /\ req[r].pc # 1 \/ req[r].op # "restore" => req'[r].dest = req[r].dest
           /\ req[r].pc > 2 => req'[r].found = req[r].found
           /\ req[r].op \in Ops /\ req[r].pc \in 1 .. Len(Plan(req[r].op))
           /\ At(r, Plan(req[r].op)[req[r].pc]) /\ Sided(r, req[r])
<1>1. RequestsInv /\ RequestsInv' /\ Moved(r) /\ InFlight(r)
  BY RequestsStep, StepLabel DEF IInv
<1>2. req[r].op \in Ops /\ req[r].pc \in 1 .. Len(Plan(req[r].op)) /\ Sided(r, req[r])
  BY <1>1 DEF RequestsInv, Knows, SidesInv
<1> QED
  BY <1>1, <1>2, MovedFields DEF At

\* find_source and find_root learn the kind of the entry (and its origin).
LEMMA SourceLearned ==
  ASSUME IInv, NEW r \in Requests, Step(r), InFlight(r)'
  PROVE  /\ At(r, "find_source") =>
              \E w \in store.rows : w.path = req[r].path /\ w.dir = req'[r].dir /\ w.deleted = FALSE
         /\ At(r, "find_root") /\ req[r].op = "restore" =>
              \E w \in store.rows : w.path = req[r].path /\ w.dir = req'[r].dir
                                      /\ w.orig = req'[r].dest
<1> DEFINE x == req[r]
<1>1. /\ RequestsInv /\ FP!StoreInv(store) /\ store.rows \subseteq RowType
      /\ x \in RequestType /\ req \in [Requests -> RequestType] /\ ~Fails(r)
  BY SameTypes, Failed DEF IInv, RequestsInv, FP!StoreInv, FP!RowsInv, InFlight
<1>2. ASSUME At(r, "find_source")
      PROVE  \E w \in store.rows : w.path = x.path /\ w.dir = req'[r].dir /\ w.deleted = FALSE
  <2>1. FindSource(r)
    BY <1>2, StepLabel
  <2>2. Live(store, x.path) /\ Learns(r, [x EXCEPT !.dir = RowAt(store, x.path).dir])
    BY <1>1, <2>1 DEF FindSource
  <2> DEFINE w == RowAt(store, x.path)
             z == [x EXCEPT !.dir = w.dir]
  <2>3. /\ w \in store.rows /\ w.path = x.path /\ w.dir \in BOOLEAN
    BY <1>1, <2>2, RowRead
  <2>4. w.deleted = FALSE
    <3>1. PICK t \in store.rows : t.path = x.path /\ ~t.deleted
      BY <2>2 DEF Live
    <3>2. t = w
      BY <1>1, <2>3, <3>1 DEF FP!StoreInv, FP!RowsInv, FP!KeysUnique
    <3> QED
      BY <1>1, <3>1, <3>2 DEF RowType
  <2>5. Resume(r, z, 1)
    BY <2>2 DEF Learns
  <2> HIDE DEF w
  <2>6. z \in RequestType /\ z.dir = w.dir
    BY <1>1, <2>3 DEF RequestType
  <2> HIDE DEF z
  <2>7. req'[r].dir = w.dir
    BY <1>1, <2>5, <2>6, Resumed
  <2> QED
    BY <2>3, <2>4, <2>7
<1>3. ASSUME At(r, "find_root"), x.op = "restore"
      PROVE  \E w \in store.rows : w.path = x.path /\ w.dir = req'[r].dir
                                     /\ w.orig = req'[r].dest
  <2>1. FindRoot(r)
    BY <1>3, StepLabel
  <2>2. PICK t \in {t \in TrashRoots(store) : t.path = x.path} :
           Learns(r, [x EXCEPT !.dir = t.dir, !.dest = t.orig])
    BY <1>1, <1>3, <2>1 DEF FindRoot
  <2> DEFINE z == [x EXCEPT !.dir = t.dir, !.dest = t.orig]
  <2>3. t \in store.rows /\ t.path = x.path /\ t.dir \in BOOLEAN /\ t.orig \in Path
    BY <1>1, <2>2 DEF TrashRoots, RowType
  <2>4. Resume(r, z, 1)
    BY <2>2 DEF Learns
  <2>5. z \in RequestType /\ z.dir = t.dir /\ z.dest = t.orig
    BY <1>1, <2>3 DEF RequestType
  <2> HIDE DEF z
  <2>6. req'[r].dir = t.dir /\ req'[r].dest = t.orig
    BY <1>1, <2>4, <2>5, Resumed
  <2> QED
    BY <2>3, <2>6
<1> QED
  BY <1>2, <1>3

LEMMA OwnSource ==
  ASSUME IInv, SidesInv, NEW r \in Requests, Step(r), InFlight(r)', HasSource(store.rows, req[r])
  PROVE  HasSource(store'.rows, req'[r])
<1> DEFINE x == req[r]
           y == req'[r]
           label == Plan(x.op)[x.pc]
<1>1. PICK n \in {1, 3, 4, 7} :
           /\ n # 1 => x.op \in {"upload", "chunked", "save", "version"}
           /\ y.op = x.op /\ y.path = x.path /\ y.pc = x.pc + n
           /\ x.pc # 1 => y.dir = x.dir
           /\ x.pc # 1 \/ x.op # "restore" => y.dest = x.dest
           /\ x.op \in Ops /\ x.pc \in 1 .. Len(Plan(x.op)) /\ At(r, label)
  BY OwnFields
<1>2. x.pc \in Nat /\ x.pc >= 1
  <2>1. Len(Plan(x.op)) \in Nat
    BY <1>1, PlanLength
  <2> QED
    BY <1>1, <2>1
<1>3. ASSUME MovesLive(y)
      PROVE  \E w \in store'.rows : w.path = y.path /\ w.dir = y.dir /\ w.deleted = FALSE
  <2>1. /\ n = 1 /\ x.op \in {"delete", "rename", "move"}
        /\ x.pc = 1 \/ (x.pc # 1 /\ MovesLive(x))
        /\ ~(x.op = "delete" /\ x.pc = 3) /\ ~(x.op = "rename" /\ x.pc = 4)
        /\ ~(x.op = "move" /\ x.pc = 5)
    BY <1>1, <1>2, <1>3 DEF MovesLive
  <2>2. label \notin {"delete_row", "insert_row", "insert_first", "update_checksum", "commit"}
    BY <1>1, <2>1, Positions
  <2>3. store'.rows = store.rows
    BY <1>1, <2>2, TablesSteady
  <2>4. CASE x.pc = 1
    <3>1. label = "find_source"
      BY <1>1, <2>1, <2>4, Positions
    <3> QED
      BY <1>1, <2>3, <3>1, SourceLearned
  <2>5. CASE x.pc # 1 /\ MovesLive(x)
    BY <1>1, <2>3, <2>5 DEF HasSource
  <2> QED
    BY <2>1, <2>4, <2>5
<1>4. ASSUME MovesBack(y)
      PROVE  \E w \in store'.rows : w.path = y.path /\ w.dir = y.dir /\ w.orig = y.dest
  <2>1. /\ n = 1 /\ x.op = "restore"
        /\ x.pc = 1 \/ (x.pc # 1 /\ MovesBack(x))
        /\ x.pc # 5
    BY <1>1, <1>2, <1>4 DEF MovesBack
  <2>2. label \notin {"delete_row", "insert_row", "insert_first", "update_checksum", "commit"}
    BY <1>1, <2>1, Positions
  <2>3. store'.rows = store.rows
    BY <1>1, <2>2, TablesSteady
  <2>4. CASE x.pc = 1
    <3>1. label = "find_root"
      BY <1>1, <2>1, <2>4, Positions
    <3> QED
      BY <1>1, <2>1, <2>3, <3>1, SourceLearned
  <2>5. CASE x.pc # 1 /\ MovesBack(x)
    BY <1>1, <2>3, <2>5 DEF HasSource
  <2> QED
    BY <2>1, <2>4, <2>5
<1> QED
  BY <1>3, <1>4 DEF HasSource

LEMMA FoundParent ==
  ASSUME IInv, NEW r \in Requests, Step(r), InFlight(r)', At(r, "find_parent")
  PROVE  /\ FP!FolderAt(store.rows, ParentOf(req[r].dest))
         /\ req[r].op = "move" =>
              ~(req[r].dir /\ FP!AtOrBelow(req[r].path, ParentOf(req[r].dest)))
<1> DEFINE x == req[r]
           parent == ParentOf(x.dest)
<1>1. ~Fails(r) /\ FindParent(r) /\ store.rows \subseteq RowType
  BY StepLabel, SameTypes, Failed DEF IInv, RequestsInv, FP!StoreInv, FP!RowsInv, InFlight
<1>2. /\ IsFolder(store, parent)
      /\ ~(x.op = "move" /\ x.dir /\ (parent = x.path \/ Below(x.path, parent)))
  BY <1>1 DEF FindParent
<1>3. FP!FolderAt(store.rows, parent)
  BY <1>1, <1>2, SameTypes DEF IsFolder, FP!FolderAt, RowType
<1> QED
  BY <1>2, <1>3, SamePaths DEF FP!AtOrBelow

LEMMA FoundFile ==
  ASSUME IInv, MarksInv(store.rows), FP!TreeInv(store.rows),
         NEW r \in Requests, Step(r), InFlight(r)', At(r, "find_file")
  PROVE  FP!FolderAt(store.rows, ParentOf(req[r].path))
<1>1. ~Fails(r) /\ FindFile(r) /\ store.rows \subseteq RowType
  BY StepLabel, SameTypes, Failed DEF IInv, RequestsInv, FP!StoreInv, FP!RowsInv, InFlight
<1>2. IsFile(store, req[r].path)
  BY <1>1 DEF FindFile
<1>3. PICK w \in store.rows : w.path = req[r].path /\ w.deleted = FALSE
  BY <1>1, <1>2 DEF IsFile, RowType
<1> QED
  BY <1>3, LiveFolder

LEMMA OwnParent ==
  ASSUME LikeIsExact, IInv, SidesInv, MarksInv(store.rows), FP!TreeInv(store.rows),
         NEW r \in Requests, Step(r), InFlight(r)', HasParent(store.rows, req[r])
  PROVE  HasParent(store'.rows, req'[r])
<1> DEFINE x == req[r]
           y == req'[r]
           label == Plan(x.op)[x.pc]
           parent == ParentOf(x.dest)
           Adds == {"upload", "chunked", "folder", "save"}
<1>1. PICK n \in {1, 3, 4, 7} :
           /\ n # 1 => x.op \in {"upload", "chunked", "save", "version"}
           /\ y.op = x.op /\ y.path = x.path /\ y.pc = x.pc + n
           /\ x.pc # 1 => y.dir = x.dir
           /\ x.pc # 1 \/ x.op # "restore" => y.dest = x.dest
           /\ x.op \in Ops /\ x.pc \in 1 .. Len(Plan(x.op)) /\ At(r, label) /\ Sided(r, x)
  BY OwnFields
<1>2. x.pc \in Nat /\ x.pc >= 1
  <2>1. Len(Plan(x.op)) \in Nat
    BY <1>1, PlanLength
  <2> QED
    BY <1>1, <2>1
<1>3. ASSUME Lands(y)
      PROVE  /\ y.dest = x.dest /\ FP!FolderAt(store'.rows, parent)
             /\ x.op = "move" => ~(y.dir /\ FP!AtOrBelow(y.path, parent))
  <2>1. /\ x.op \in Adds \cup {"move", "restore"}
        /\ \/ x.op \in Adds /\ Lands(x)
           \/ x.op \in {"move", "restore"} /\ Lands(x) /\ x.pc # 5 /\ x.pc # 1
           \/ x.op \in {"upload", "chunked"} /\ x.pc = 1
           \/ x.op \in {"folder", "move"} /\ x.pc = 2
           \/ x.op = "restore" /\ x.pc = 3
           \/ x.op = "save" /\ x.pc = 1
    <3>1. CASE x.op \in {"upload", "chunked"}
      <4>1. /\ x.op = "upload" => y.pc \in 2 .. 12
            /\ x.op = "chunked" => y.pc \in 2 .. 10
        BY <1>1, <1>3, <3>1 DEF Lands
      <4>2. x.pc <= y.pc
        BY <1>1, <1>2
      <4>3. x.pc # 1 => Lands(x)
        <5> HIDE DEF x, y
        <5> QED
          BY <1>2, <3>1, <4>1, <4>2 DEF Lands
      <4> QED
        BY <3>1, <4>3
    <3>2. CASE x.op \in {"folder", "move"}
      BY <1>1, <1>2, <1>3, <3>2 DEF Lands
    <3>3. CASE x.op = "restore"
      BY <1>1, <1>2, <1>3, <3>3 DEF Lands
    <3>4. CASE x.op = "save"
      BY <1>1, <1>2, <1>3, <3>4 DEF Lands
    <3> QED
      BY <1>1, <1>3, <3>1, <3>2, <3>3, <3>4 DEF Lands
  <2>2. y.dest = x.dest
    BY <1>1, <2>1
  <2>3. CASE x.op \in Adds /\ Lands(x)
    <3>1. x.dest = x.path /\ FP!FolderAt(store.rows, parent)
      BY <1>1, <2>3 DEF Sided, HasParent
    <3>2. x.path \in FP!Path /\ Len(x.path) >= 1
      BY StepLabel, RequestPaths, SameTypes DEF IInv
    <3>3. parent \in FP!Path
      BY <3>1, <3>2, Assumed, FP!ParentPath, SamePaths
    <3>4. ~FP!AtOrBelow(x.path, parent)
      BY <3>1, <3>2, Assumed, FP!BelowParent, FP!BelowTrans, SamePaths
    <3>5. FP!FolderAt(store'.rows, parent)
      BY <3>1, <3>3, <3>4, FolderStays, SameTypes
    <3> QED
      BY <2>2, <2>3, <3>5
  <2>4. CASE x.op \in {"move", "restore"} /\ Lands(x) /\ x.pc # 5 /\ x.pc # 1
    <3>1. label \notin {"delete_row", "insert_row", "insert_first", "update_checksum", "commit"}
      BY <1>1, <2>4, Positions
    <3>2. store'.rows = store.rows
      BY <1>1, <3>1, TablesSteady
    <3>3. x.op = "move" => x.pc \in 3 .. 5
      BY <2>4 DEF Lands
    <3> QED
      BY <1>1, <2>2, <2>4, <3>2, <3>3 DEF HasParent
  <2>5. CASE \/ x.op \in {"upload", "chunked"} /\ x.pc = 1
             \/ x.op \in {"folder", "move"} /\ x.pc = 2
             \/ x.op = "restore" /\ x.pc = 3
    <3>1. label = "find_parent"
      BY <1>1, <2>5, Positions
    <3>2. store'.rows = store.rows
      BY <1>1, <3>1, TablesSteady
    <3>3. x.op = "move" => y.dir = x.dir
      BY <1>1, <2>5
    <3> QED
      BY <1>1, <2>2, <3>1, <3>2, <3>3, FoundParent
  <2>6. CASE x.op = "save" /\ x.pc = 1
    <3>1. label = "find_file"
      BY <1>1, <2>6, Positions
    <3>2. store'.rows = store.rows
      BY <1>1, <3>1, TablesSteady
    <3>3. x.dest = x.path
      BY <1>1, <2>6 DEF Sided
    <3> QED
      BY <1>1, <2>2, <2>6, <3>1, <3>2, <3>3, FoundFile
  <2> QED
    BY <2>1, <2>3, <2>4, <2>5, <2>6
<1>4. y.op = "move" /\ y.pc \in 3 .. 5 => Lands(y) /\ x.op = "move"
  BY <1>1 DEF Lands
<1> QED
  BY <1>3, <1>4 DEF HasParent

LEMMA OwnRefs ==
  ASSUME IInv, SidesInv, RefsUnique(store.versions),
         NEW r \in Requests, Step(r), InFlight(r)', HasRefs(store.versions, req[r])
  PROVE  HasRefs(store'.versions, req'[r])
<1> DEFINE x == req[r]
           y == req'[r]
           label == Plan(x.op)[x.pc]
<1>1. PICK n \in {1, 3, 4, 7} :
           /\ n # 1 => x.op \in {"upload", "chunked", "save", "version"}
           /\ y.op = x.op /\ y.path = x.path /\ y.pc = x.pc + n
           /\ x.pc > 2 => y.found = x.found
           /\ x.op \in Ops /\ x.pc \in 1 .. Len(Plan(x.op)) /\ At(r, label)
  BY OwnFields
<1>2. x.pc \in Nat /\ x.pc >= 1
  <2>1. Len(Plan(x.op)) \in Nat
    BY <1>1, PlanLength
  <2> QED
    BY <1>1, <2>1
<1>3. /\ store \in StoreType /\ x \in RequestType /\ req \in [Requests -> RequestType]
      /\ ~Fails(r)
  BY SameTypes, Failed DEF IInv, RequestsInv, FP!StoreInv, InFlight
<1>4. ASSUME y.op = "purge", y.pc = 3,
             NEW w \in store'.versions, NEW v \in y.found, v.ref = w.ref
      PROVE  Covers(y.path, w.path)
  <2>1. x.op = "purge" /\ x.pc = 2
    BY <1>1, <1>2, <1>4
  <2>2. label = "read_refs"
    BY <1>1, <2>1, Positions
  <2>3. ReadRefs(r) /\ store'.versions = store.versions
    BY <1>1, <2>2, StepLabel, TablesSteady
  <2> DEFINE S == {u \in store.versions : Covers(x.path, u.path)}
             z == [x EXCEPT !.found = S]
  <2>4. Resume(r, z, 1)
    BY <2>3 DEF ReadRefs, Learns
  <2>5. S \in SUBSET VersionType
    BY <1>3 DEF StoreType
  <2> HIDE DEF S
  <2>6. z \in RequestType /\ z.found = S
    BY <1>3, <2>5 DEF RequestType
  <2> HIDE DEF z
  <2>7. y.found = S
    BY <1>3, <2>4, <2>6, Resumed
  <2> QED
    BY <1>1, <1>4, <2>3, <2>7 DEF S, RefsUnique
<1>5. ASSUME y.op = "purge", y.pc = 4,
             NEW w \in store'.versions, NEW v \in y.found, v.ref = w.ref
      PROVE  FALSE
  <2>1. x.op = "purge" /\ x.pc = 3 /\ y.found = x.found
    BY <1>1, <1>2, <1>5
  <2>2. label = "delete_versions"
    BY <1>1, <2>1, Positions
  <2>3. DeleteVersions(r)
    BY <1>1, <2>2, StepLabel
  <2> DEFINE S == {u \in store.versions : ~Covers(x.path, u.path)}
  <2>4. store' = [store EXCEPT !.versions = S]
    BY <1>3, <2>3 DEF DeleteVersions, Commits, GivesUp, Becomes
  <2> HIDE DEF S
  <2>5. store'.versions = S
    BY <1>3, <2>4, StoreParts
  <2> QED
    BY <1>5, <2>1, <2>5 DEF S, HasRefs
<1> QED
  BY <1>4, <1>5 DEF HasRefs

LEMMA SituatedStep ==
  ASSUME LikeIsExact, MarksIInv, Apart, FP!TreeInv(store.rows), Situated,
         NEW r \in Requests, Step(r)
  PROVE  Situated'
<1>1. /\ IInv /\ SidesInv /\ MarksInv(store.rows) /\ RefsUnique(store.versions) /\ InFlight(r)
      /\ \A q \in Requests \ {r} : req'[q] = req[q]
  BY StepLabel, SpentStep DEF MarksIInv
<1> SUFFICES ASSUME NEW q \in Requests, InFlight(q)'
             PROVE  /\ HasSource(store'.rows, req'[q])
                    /\ HasParent(store'.rows, req'[q])
                    /\ HasRefs(store'.versions, req'[q])
  BY DEF Situated, HasSource, HasParent, HasRefs, MovesLive, MovesBack, Lands
<1>2. CASE q # r
  <2>1. /\ InFlight(q) /\ req'[q] = req[q]
        /\ HasSource(store.rows, req[q]) /\ HasParent(store.rows, req[q])
        /\ HasRefs(store.versions, req[q])
    BY <1>1, <1>2 DEF InFlight, Situated
  <2> QED
    BY <1>1, <1>2, <2>1, SourceStays, ParentStays, RefsStay
<1>3. CASE q = r
  <2>1. /\ HasSource(store.rows, req[r]) /\ HasParent(store.rows, req[r])
        /\ HasRefs(store.versions, req[r])
    BY <1>1 DEF Situated
  <2> QED
    BY <1>1, <1>3, <2>1, OwnSource, OwnParent, OwnRefs
<1> QED
  BY <1>2, <1>3

----------------------------------------------------------------------------
(* A request begins apart from the others, or it is on record that it did  *)
(* not; a process that died left nobody in flight.                         *)

LEMMA QuietStep ==
  ASSUME LikeIsExact, OnlyUserPaths, QuietIInv, NEW r \in Requests, Step(r)
  PROVE  QuietIInv'
<1>1. MarksIInv'
  <2>1. [Next]_vars /\ MarksIInv
    BY DEF Next, QuietIInv
  <2> QED
    BY <2>1, MarksNext
<1>2. ASSUME ~overlap'
      PROVE  Apart' /\ FP!TreeInv(store'.rows) /\ BlobsThere' /\ Situated'
  <2>1. IInv /\ MarksIInv
    BY DEF QuietIInv, MarksIInv
  <2>2. ~overlap
    BY <1>2, <2>1, HistoryStep
  <2>3. Apart /\ FP!TreeInv(store.rows) /\ BlobsThere /\ Situated
    BY <2>2 DEF QuietIInv
  <2> QED
    BY <1>2, <2>1, <2>3, ApartStep, TreeStep, BlobsThereStep, SituatedStep
<1> QED
  BY <1>1, <1>2 DEF QuietIInv

LEMMA QuietBegin ==
  ASSUME OnlyUserPaths, QuietIInv, NEW r \in Requests, NEW in \in Inputs, Begin(r, in)
  PROVE  QuietIInv'
<1> DEFINE y == Started(r, in)
<1>1. /\ req[r].status = "idle" /\ req'[r] = y
      /\ \A o \in Requests \ {r} : req'[o] = req[o]
      /\ store' = store /\ MarksIInv' /\ overlap \in BOOLEAN
  BY BeginRequests, MarksBegin DEF QuietIInv, MarksIInv, IInv
<1>2. overlap' = (overlap \/ Crosses(r, y))
  BY DEF Begin
<1>3. y.pc = 1
  BY NewRequest
<1> HIDE DEF y
<1>4. ASSUME ~overlap'
      PROVE  Apart' /\ FP!TreeInv(store'.rows) /\ BlobsThere' /\ Situated'
  <2>1. Apart /\ FP!TreeInv(store.rows) /\ BlobsThere /\ Situated /\ ~Crosses(r, y)
    BY <1>2, <1>4 DEF QuietIInv
  <2>2. \A o \in Requests \ {r} : InFlight(o)' => InFlight(o) /\ ~Collide(y, req[o])
    BY <1>1, <2>1 DEF Crosses, InFlight
  <2>3. \A a, b : Collide(a, b) <=> Collide(b, a)
    BY DEF Collide, Related
  <2>4. Apart'
    <3> SUFFICES ASSUME NEW a \in Requests, NEW b \in Requests, a # b, InFlight(a)', InFlight(b)'
                 PROVE  ~Collide(req'[a], req'[b])
      BY DEF Apart, Collide, Related
    <3>1. CASE a = r
      BY <1>1, <2>2, <3>1
    <3>2. CASE b = r
      BY <1>1, <2>2, <2>3, <3>2
    <3>3. CASE a # r /\ b # r
      BY <1>1, <2>1, <2>2, <3>3 DEF Apart
    <3> QED
      BY <3>1, <3>2, <3>3
  <2>5. Situated'
    <3> SUFFICES ASSUME NEW q \in Requests, InFlight(q)'
                 PROVE  /\ HasSource(store.rows, req'[q])
                        /\ HasParent(store.rows, req'[q])
                        /\ HasRefs(store.versions, req'[q])
      BY <1>1 DEF Situated, HasSource, HasParent, HasRefs, MovesLive, MovesBack, Lands
    <3>1. CASE q = r
      BY <1>1, <1>3, <3>1 DEF HasSource, HasParent, HasRefs, MovesLive, MovesBack, Lands
    <3>2. CASE q # r
      BY <1>1, <2>1, <2>2, <3>2 DEF Situated
    <3> QED
      BY <3>1, <3>2
  <2> QED
    BY <1>1, <2>1, <2>4, <2>5 DEF BlobsThere
<1> QED
  BY <1>1, <1>4 DEF QuietIInv

LEMMA QuietCrash ==
  ASSUME QuietIInv, Crash
  PROVE  QuietIInv'
<1>1. /\ \A o \in Requests : ~InFlight(o)'
      /\ store' = store /\ overlap' = overlap /\ MarksIInv'
  BY CrashRequests, MarksCrash DEF QuietIInv, MarksIInv
<1>2. Apart' /\ Situated'
  BY <1>1 DEF Apart, Situated
<1> QED
  BY <1>1, <1>2 DEF QuietIInv, BlobsThere

LEMMA QuietInit ==
  ASSUME OnlyUserPaths, Init
  PROVE  QuietIInv
<1>1. /\ req = [r \in Requests |-> Idle] /\ Files!TreeClosed /\ Files!HistoryAttached
      /\ MarksIInv
  BY MarksInit DEF Init
<1>2. \A r \in Requests : ~InFlight(r)
  BY <1>1 DEF InFlight, Idle
<1>3. FP!TreeInv(store.rows)
  <2>1. \A p : FP!NameOf(p) = Files!NameOf(p) /\ FP!ParentOf(p) = Files!ParentOf(p)
    BY DEF FP!NameOf, FP!ParentOf, Files!NameOf, Files!ParentOf
  <2>2. FP!Root = Files!Root
    BY DEF FP!Root, Files!Root
  <2>3. store.rows \subseteq RowType
    BY <1>1, SameTypes DEF MarksIInv, IInv, FP!StoreInv, FP!RowsInv
  <2> QED
    BY <1>1, <2>1, <2>2, <2>3 DEF Files!TreeClosed, FP!TreeInv, FP!Columns, FP!Placed
<1>4. BlobsThere
  <2> SUFFICES ASSUME NEW v \in store.versions PROVE BlobOn(store.disk, v.ref)
    BY DEF BlobsThere
  <2> DEFINE e == [path |-> Blob(v.ref), data |-> v.sum]
  <2>1. \A ref : Files!Blob(ref) = Blob(ref)
    BY DEF Files!Blob, Blob
  <2>2. e \in store.disk
    BY <1>1, <2>1 DEF Files!HistoryAttached
  <2>3. v.sum # DIR
    BY <1>1, SameTypes, StorageAssumption
       DEF MarksIInv, IInv, FP!StoreInv, FP!VersionsInv, VersionType
  <2>4. e.path = Blob(v.ref) /\ e.data # DIR
    BY <2>3
  <2> HIDE DEF e
  <2> QED
    BY <2>2, <2>4 DEF BlobOn, FileOn
<1> QED
  BY <1>1, <1>2, <1>3, <1>4 DEF QuietIInv, Apart, Situated

LEMMA QuietAlways ==
  ASSUME LikeIsExact, OnlyUserPaths
  PROVE  Spec => []QuietIInv
<1>1. Init => QuietIInv
  BY QuietInit
<1>2. QuietIInv /\ [Next]_vars => QuietIInv'
  <2> SUFFICES ASSUME QuietIInv, [Next]_vars PROVE QuietIInv'
    OBVIOUS
  <2>1. CASE UNCHANGED vars
    <3>1. MarksIInv'
      BY MarksNext DEF QuietIInv
    <3> QED
      BY <2>1, <3>1 DEF vars, QuietIInv, Apart, BlobsThere, Situated, InFlight
  <2> QED
    BY <2>1, QuietStep, QuietBegin, QuietCrash DEF Next
<1> QED
  BY <1>1, <1>2, PTL DEF Spec

(* TablesSurvive in every reachable state, for any requests and any store  *)
(* to start with: the marks of the trash always, and as long as no two     *)
(* requests in flight had related paths, rows that form a tree and         *)
(* versions that have their bytes.  Names are matched as they are (no case *)
(* folding, no wildcard), and nobody names an entry of ".trash".           *)
THEOREM TablesAlwaysSurvive ==
  ASSUME LikeIsExact, OnlyUserPaths
  PROVE  Spec => []TablesSurvive
<1>1. QuietIInv => TablesSurvive
  <2> SUFFICES ASSUME QuietIInv PROVE TablesSurvive
    OBVIOUS
  <2>1. MarksIInv /\ FP!KeysUnique(store.rows) /\ store.rows \subseteq RowType
    BY SameTypes DEF QuietIInv, MarksIInv, IInv, FP!StoreInv, FP!RowsInv
  <2>2. Files!TrashConsistent
    BY <2>1 DEF MarksIInv, MarksInv, FP!TrashInv, Files!TrashConsistent
  <2>3. ASSUME ~overlap
        PROVE  /\ Files!TreeClosed
               /\ \A v \in store.versions : FileOn(store.disk, Blob(v.ref)) # {}
    <3>1. FP!TreeInv(store.rows) /\ BlobsThere
      BY <2>3 DEF QuietIInv
    <3>2. \A p : FP!NameOf(p) = Files!NameOf(p) /\ FP!ParentOf(p) = Files!ParentOf(p)
      BY DEF FP!NameOf, FP!ParentOf, Files!NameOf, Files!ParentOf
    <3>3. FP!Root = Files!Root
      BY DEF FP!Root, Files!Root
    <3>4. Files!TreeClosed
      BY <2>1, <3>1, <3>2, <3>3
         DEF Files!TreeClosed, FP!TreeInv, FP!Columns, FP!Placed, FP!KeysUnique
    <3> QED
      BY <3>1, <3>4 DEF BlobsThere, BlobOn
  <2> QED
    BY <2>2, <2>3 DEF TablesSurvive
<1> QED
  BY <1>1, QuietAlways, PTL

----------------------------------------------------------------------------
(* Bytes.  Which places lead to which: in a tree of rows nothing lies      *)
(* below a file.                                                           *)

\* Places of which one leads to the other, or both to a third.
LEMMA PathOrder ==
  ASSUME NEW p \in Path, NEW q \in Path, NEW s \in Path
  PROVE  /\ FP!AtOrBelow(p, p)
         /\ FP!AtOrBelow(p, q) /\ FP!AtOrBelow(q, s) => FP!AtOrBelow(p, s)
         /\ FP!AtOrBelow(p, s) /\ FP!AtOrBelow(q, s) => Related(p, q)
         /\ FP!AtOrBelow(p, q) => Len(p) <= Len(q) /\ \A i \in 1 .. Len(p) : q[i] = p[i]
         /\ Len(q) >= 1 => (Below(p, q) <=> FP!AtOrBelow(p, ParentOf(q)))
         /\ Related(p, q) <=> FP!AtOrBelow(p, q) \/ FP!AtOrBelow(q, p)
         /\ Below(p, q) => FP!AtOrBelow(p, q) /\ Len(p) < Len(q) /\ p # q
<1>1. /\ p \in FP!Path /\ q \in FP!Path /\ s \in FP!Path
      /\ Len(p) \in Nat /\ Len(q) \in Nat /\ Len(s) \in Nat
  BY SameTypes, LongPath
<1>2. /\ Below(p, q) <=> Len(p) < Len(q) /\ \A i \in 1 .. Len(p) : q[i] = p[i]
      /\ Below(p, q) /\ FP!AtOrBelow(q, s) => Below(p, s)
      /\ FP!AtOrBelow(p, q) /\ Below(q, s) => Below(p, s)
      /\ Below(p, s) /\ Below(q, s) => Below(p, q) \/ FP!AtOrBelow(q, p)
      /\ Len(q) >= 1 => (Below(p, q) <=> FP!AtOrBelow(p, ParentOf(q)))
  BY <1>1, Assumed, SamePaths, FP!BelowElements, FP!BelowTrans, FP!BelowLinear, FP!BelowParent
<1>3. \A a, b : FP!AtOrBelow(a, b) <=> b = a \/ Below(a, b)
  BY SamePaths DEF FP!AtOrBelow
<1>4. Related(p, q) <=> FP!AtOrBelow(p, q) \/ FP!AtOrBelow(q, p)
  BY <1>3 DEF Related
<1>5. FP!AtOrBelow(p, q) => Len(p) <= Len(q) /\ \A i \in 1 .. Len(p) : q[i] = p[i]
  BY <1>1, <1>2, <1>3
<1>6. FP!AtOrBelow(p, s) /\ FP!AtOrBelow(q, s) => Related(p, q)
  BY <1>2, <1>3, <1>4
<1>7. Below(p, q) => Len(p) < Len(q) /\ p # q
  BY <1>1, <1>2
<1> QED
  BY <1>2, <1>3, <1>4, <1>5, <1>6, <1>7

\* No row lies on the two levels above the roots of the trash: it would need a folder there.
LEMMA RowsPlaced ==
  ASSUME IInv, MarksInv(store.rows), FP!TreeInv(store.rows)
  PROVE  /\ \A w \in store.rows : w.path \in Path /\ Len(w.path) >= 1 /\ Len(w.path) \in Nat
         /\ \A w, g \in store.rows : w.path = g.path => w = g
         /\ \A w \in store.rows : /\ w.parent = ParentOf(w.path)
                                  /\ Len(ParentOf(w.path)) = Len(w.path) - 1
         /\ \A w \in store.rows : w.deleted = TRUE <=> w.path[1] = TRASH
         /\ \A w \in store.rows : w.orig # NoPath => w.deleted = TRUE /\ ~(Len(w.path) > 3)
         /\ \A w \in store.rows :
              \/ w.orig # NoPath
              \/ w.deleted = FALSE /\ w.parent = Root
              \/ \E g \in store.rows : g.path = w.parent /\ g.dir = TRUE /\ g.deleted = w.deleted
         /\ \A w \in store.rows : w.deleted = TRUE => Len(w.path) >= 3
<1> DEFINE rows == store.rows
<1>1. /\ \A w \in rows : w.path \in Path /\ Len(w.path) >= 1 /\ Len(w.path) \in Nat
      /\ \A w, g \in rows : w.path = g.path => w = g
  BY SameTypes, LongPath DEF IInv, FP!StoreInv, FP!RowsInv, FP!KeysUnique, RowType
<1>2. \A w \in rows : w.parent = ParentOf(w.path)
  BY SamePaths DEF FP!TreeInv, FP!Columns
<1>m. /\ \A w \in rows : w.deleted = TRUE <=> w.path[1] = TRASH
      /\ \A w \in rows : w.orig # NoPath => w.deleted = TRUE /\ ~(Len(w.path) < 3) /\ ~(Len(w.path) > 3)
  <2>1. \A w \in rows : w.deleted \in BOOLEAN
    BY DEF IInv, FP!StoreInv, FP!RowsInv, FP!RowType
  <2>2. \A w \in rows : w.deleted <=> w.path[1] = TRASH
    BY DEF MarksInv, FP!TrashInv
  <2>3. \A w \in rows : w.orig # NoPath => w.deleted /\ Len(w.path) = 3
    BY Zenon DEF MarksInv, FP!TrashInv
  <2>4. \A n : n = 3 => ~(n < 3) /\ ~(n > 3)
    OBVIOUS
  <2>5. \A w \in rows : w.orig # NoPath => w.deleted
    BY <2>3, Zenon
  <2>6. \A w \in rows : w.orig # NoPath => ~(Len(w.path) < 3) /\ ~(Len(w.path) > 3)
    BY <2>3, <2>4, Zenon
  <2> QED
    BY <2>1, <2>2, <2>5, <2>6
<1>p. \A w \in rows :
        \/ w.orig # NoPath
        \/ w.deleted = FALSE /\ w.parent = Root
        \/ \E g \in rows : g.path = w.parent /\ g.dir = TRUE /\ g.deleted = w.deleted
  <2> TAKE w \in rows
  <2>1. w.deleted \in BOOLEAN /\ \A g \in rows : g.dir \in BOOLEAN
    BY DEF IInv, FP!StoreInv, FP!RowsInv, FP!RowType
  <2>2. FP!Placed(rows, w)
    BY DEF FP!TreeInv
  <2> QED
    BY <2>1, <2>2, SameTypes DEF FP!Placed
<1>3. \A w \in rows : Len(ParentOf(w.path)) = Len(w.path) - 1
  <2>1. \A w \in rows : w.path \in FP!Path /\ w.path # FP!Root
    BY <1>1, LongPath, SameTypes
  <2> QED
    BY <2>1, Assumed, SamePaths, FP!ParentPath
<1>4. \A w \in rows : w.deleted = TRUE => Len(w.path) >= 3
  <2>1. \A g \in rows : g.deleted = TRUE /\ Len(g.path) < 3
          => \E h \in rows : h.path = ParentOf(g.path) /\ h.deleted = TRUE
    <3> TAKE g \in rows
    <3> HAVE g.deleted = TRUE /\ Len(g.path) < 3
    <3>1. g.orig = NoPath
      BY <1>m
    <3> QED
      BY <1>2, <1>p, <3>1
  <2>2. \A g \in rows : g.deleted = TRUE => ~(Len(g.path) < 2)
    <3> SUFFICES ASSUME NEW g \in rows, g.deleted = TRUE, Len(g.path) < 2 PROVE FALSE
      OBVIOUS
    <3>1. PICK h \in rows : h.path = ParentOf(g.path)
      BY <1>1, <2>1
    <3>2. Len(h.path) < 1
      BY <1>1, <1>3, <3>1
    <3> QED
      BY <1>1, <3>2
  <2>3. \A g \in rows : g.deleted = TRUE => ~(Len(g.path) < 3)
    <3> SUFFICES ASSUME NEW g \in rows, g.deleted = TRUE, Len(g.path) < 3 PROVE FALSE
      OBVIOUS
    <3>1. PICK h \in rows : h.path = ParentOf(g.path) /\ h.deleted = TRUE
      BY <1>1, <2>1
    <3>2. Len(h.path) < 2
      BY <1>1, <1>3, <3>1
    <3> QED
      BY <2>2, <3>1, <3>2
  <2> QED
    BY <1>1, <2>2, <2>3
<1> QED
  BY <1>1, <1>2, <1>3, <1>4, <1>m, <1>p

\* Above a row there are only folders: a lowest row below another place would lie in a
\* folder, which is that place itself or a row below it.
LEMMA FoldersAbove ==
  ASSUME IInv, MarksInv(store.rows), FP!TreeInv(store.rows),
         NEW q \in Path, Len(q) >= 1, q[1] = TRASH => ~(Len(q) < 3),
         \A g \in store.rows : g.path = q => g.dir = FALSE,
         NEW t \in store.rows
  PROVE  ~Below(q, t.path)
<1> DEFINE rows == store.rows
<1>1. /\ \A w \in rows : w.path \in Path /\ Len(w.path) >= 1 /\ Len(w.path) \in Nat
      /\ \A w \in rows : w.parent = ParentOf(w.path)
      /\ \A w \in rows : Len(ParentOf(w.path)) = Len(w.path) - 1
      /\ Len(q) \in Nat
  BY RowsPlaced, LongPath
<1> DEFINE under == {w \in rows : Below(q, w.path)}
           sizes == {Len(w.path) : w \in under}
<1>5. ASSUME under # {} PROVE FALSE
  <2>1. sizes \subseteq Nat /\ sizes # {}
    BY <1>1, <1>5
  <2>2. PICK n \in sizes : \A m \in sizes : ~(<<m, n>> \in OpToRel(<, Nat))
    BY <2>1, NatLessThanWellFounded, WFMin
  <2>3. \A m \in sizes : ~(m < n)
    BY <2>1, <2>2 DEF OpToRel
  <2>4. PICK w \in under : n = Len(w.path)
    BY <2>2
  <2>5. w \in rows /\ Below(q, w.path) /\ Len(q) < Len(w.path)
    BY <1>1, <2>4, PathOrder
  <2>6. FP!AtOrBelow(q, ParentOf(w.path))
    BY <1>1, <2>5, PathOrder
  <2>7. CASE w.orig # NoPath
    <3>1. w.path[1] = TRASH /\ ~(Len(w.path) > 3)
      BY <2>5, <2>7, RowsPlaced
    <3>2. q[1] = w.path[1]
      BY <1>1, <2>5, PathOrder
    <3> QED
      BY <1>1, <2>5, <3>1, <3>2
  <2>8. CASE w.deleted = FALSE /\ w.parent = Root
    <3>1. Len(ParentOf(w.path)) < 1
      BY <1>1, <2>5, <2>8 DEF Root
    <3> QED
      BY <1>1, <2>5, <3>1
  <2>9. ASSUME NEW g \in rows, g.path = w.parent, g.dir = TRUE
        PROVE  FALSE
    <3>1. g.path = ParentOf(w.path) /\ g.path # q
      BY <1>1, <2>5, <2>9
    <3>3. Below(q, g.path)
      BY <2>6, <3>1, SamePaths DEF FP!AtOrBelow
    <3>4. Len(g.path) \in sizes /\ Len(g.path) = Len(w.path) - 1
      BY <1>1, <2>5, <3>1, <3>3
    <3> QED
      BY <1>1, <2>3, <2>4, <2>5, <3>4, SMTT(30)
  <2> QED
    BY <2>5, <2>7, <2>8, <2>9, RowsPlaced
<1> QED
  BY <1>5

\* Nothing in the tree lies below a file.
LEMMA FilesAreLeaves ==
  ASSUME IInv, MarksInv(store.rows), FP!TreeInv(store.rows),
         NEW f \in store.rows, f.dir = FALSE, NEW t \in store.rows
  PROVE  ~Below(f.path, t.path)
<1>1. /\ f.path \in Path /\ Len(f.path) >= 1 /\ Len(f.path) \in Nat
      /\ f.deleted = TRUE <=> f.path[1] = TRASH
      /\ f.deleted = TRUE => Len(f.path) >= 3
      /\ \A g \in store.rows : g.path = f.path => g = f
  BY RowsPlaced
<1> DEFINE q == f.path
<1>2. q \in Path /\ Len(q) >= 1
  BY <1>1
<1>3. q[1] = TRASH => ~(Len(q) < 3)
  BY <1>1
<1>4. \A g \in store.rows : g.path = q => g.dir = FALSE
  BY <1>1
<1> HIDE DEF q
<1>5. ~Below(q, t.path)
  BY <1>2, <1>3, <1>4, FoldersAbove
<1> QED
  BY <1>5 DEF q

----------------------------------------------------------------------------
(* What a step puts on the disk, takes from it, or moves.                  *)

\* How a step of r changes the disk.
DiskChange(r) ==
  LET x == req[r]
      p == x.path
      d == store.disk
      e == store'.disk
      part == FileOn(d, Part(r))
  IN  \/ e = d
      \/ At(r, "copy_blob") /\ e = d \cup {[b EXCEPT !.path = Blob(r)] : b \in FileOn(d, p)}
      \/ At(r, "make_parents") /\ e = MakeParents(d, p)
      \/ At(r, "stream") /\ e = d \cup {[path |-> Part(r), data |-> r]}
      \/ At(r, "replace") /\ (e = d \ part \/ e = WriteFile(d \ part, p, r))
      \/ (At(r, "remove_bytes") \/ At(r, "insert_row")) /\ e = RemoveFileOn(d, p)
      \/ At(r, "remove_tree") /\ (e = RemoveFileOn(d, p) \/ e = RemoveTreeOn(d, p))
      \/ (At(r, "adopt") \/ At(r, "write_bytes")) /\ e = WriteFile(d, p, r)
      \/ /\ At(r, "copy_back")
         /\ \E b \in d : \/ e = WriteFile(d, p, b.data)
                         \/ \E n \in Segments : e = WriteFile(d, Append(p, n), b.data)
      \/ At(r, "make_directory") /\ e = MakeParents(d, p) \cup {[path |-> p, data |-> DIR]}
      \/ /\ At(r, "rename_on_disk") /\ lock = NoOne /\ lock' = r
         /\ ~RelocateFails(store, p, x.dest, x.dir) /\ e = RenameOn(d, p, x.dest)
      \/ At(r, "remove_blobs") /\ e = {b \in d : \A v \in x.found : b.path # Blob(v.ref)}

\* Those are all the ways.
LEMMA StepDisk ==
  ASSUME IInv, NEW r \in Requests, Step(r)
  PROVE  DiskChange(r)
<1> DEFINE x == req[r]
           p == x.path
           q == x.dest
           d == store.disk
<1>1. InFlight(r) /\ store \in StoreType /\ RequestsInv
  BY StepLabel, SameTypes DEF IInv, FP!StoreInv
<1>2. x.op \in Ops /\ x.pc \in 1 .. Len(Plan(x.op)) /\ x.found \subseteq VersionType
  BY <1>1, RequestPaths DEF RequestsInv, Knows
<1>4. /\ \A s : store' = [store EXCEPT !.disk = s] => store'.disk = s
      /\ \A a : store' = [store EXCEPT !.rows = a] => store'.disk = d
      /\ \A a : store' = [store EXCEPT !.versions = a] => store'.disk = d
  <2>1. /\ \A a : [store EXCEPT !.disk = a].disk = a
        /\ \A a : [store EXCEPT !.rows = a].disk = d
        /\ \A a : [store EXCEPT !.versions = a].disk = d
    BY <1>1, StoreParts
  <2> QED
    BY <2>1, Zenon
<1>5. store'.disk = d => DiskChange(r)
  BY DEF DiskChange
<1>6. CASE store' = store
  BY <1>5, <1>6
<1>7. CASE CopyBlob(r)
  <2>1. At(r, "copy_blob")
        /\ store' = [store EXCEPT !.disk = d \cup {[b EXCEPT !.path = Blob(r)] : b \in FileOn(d, p)}]
    BY <1>7, Zenon DEF CopyBlob, Becomes
  <2> QED
    BY <1>4, <2>1, Zenon DEF DiskChange
<1>8. CASE MakeUploadParents(r)
  <2>1. At(r, "make_parents")
        /\ (store' = store \/ store' = [store EXCEPT !.disk = MakeParents(d, p)])
    BY <1>8, Zenon DEF MakeUploadParents, Becomes, NoWrite
  <2> QED
    BY <1>4, <1>6, <2>1, Zenon DEF DiskChange
<1>9. CASE Stream(r)
  <2>1. At(r, "stream")
        /\ (store' = store \/ store' = [store EXCEPT !.disk = d \cup {[path |-> Part(r), data |-> r]}])
    BY <1>9, Zenon DEF Stream, Becomes, NoWrite
  <2> QED
    BY <1>4, <1>6, <2>1, Zenon DEF DiskChange
<1>10. CASE Replace(r)
  <2> DEFINE rest == d \ FileOn(d, Part(r))
  <2>1. At(r, "replace")
        /\ (\/ store' = [store EXCEPT !.disk = rest]
            \/ store' = [store EXCEPT !.disk = WriteFile(rest, p, r)])
    BY <1>10, Zenon DEF Replace, Becomes
  <2> QED
    BY <1>4, <2>1, Zenon DEF DiskChange
<1>11. CASE RemoveBytes(r)
  <2>1. At(r, "remove_bytes") /\ store' = [store EXCEPT !.disk = RemoveFileOn(d, p)]
    BY <1>11, Zenon DEF RemoveBytes, Becomes
  <2> QED
    BY <1>4, <2>1, Zenon DEF DiskChange
<1>12. CASE InsertRow(r)
  <2>1. At(r, "insert_row")
        /\ (\/ store' = [store EXCEPT !.disk = RemoveFileOn(d, p)]
            \/ store' = [store EXCEPT !.rows = store.rows \cup {NewRow(p, FALSE, r, x.node)}])
    BY <1>12, Zenon DEF InsertRow, Commits, GivesUp, Becomes
  <2> QED
    BY <1>4, <1>5, <2>1, Zenon DEF DiskChange
<1>13. CASE RemoveTree(r)
  <2>1. At(r, "remove_tree")
        /\ (\/ store' = [store EXCEPT !.disk = RemoveFileOn(d, p)]
            \/ store' = [store EXCEPT !.disk = RemoveTreeOn(d, p)])
    BY <1>13, Zenon DEF RemoveTree, Becomes
  <2> QED
    BY <1>4, <2>1, Zenon DEF DiskChange
<1>14. CASE Adopt(r) \/ WriteBytes(r)
  <2>1. (At(r, "adopt") \/ At(r, "write_bytes"))
        /\ (store' = store \/ store' = [store EXCEPT !.disk = WriteFile(d, p, r)])
    BY <1>14, Zenon DEF Adopt, WriteBytes, Becomes, NoWrite
  <2> QED
    BY <1>4, <1>6, <2>1, Zenon DEF DiskChange
<1>15. CASE CopyBack(r)
  <2> DEFINE ver == CHOOSE v \in x.found : TRUE
             t == ver.ref
  <2>0. At(r, "copy_back")
    BY <1>15 DEF CopyBack
  <2>1. x.op = "version" /\ x.pc = 7
    BY <1>2, <2>0, Positions DEF At
  <2>2. x.found # {}
    BY <1>1, <2>1 DEF RequestsInv, Knows
  <2>3. t \in Segments
    BY <1>2, <2>2, StorageAssumption DEF VersionType
  <2>4. \/ store' = store
        \/ \E e \in FileOn(d, Blob(t)) : store' = [store EXCEPT !.disk =
              WriteFile(d, IF IsDirOn(d, p) THEN Append(p, t) ELSE p, e.data)]
    BY <1>15, Zenon DEF CopyBack, Becomes, NoWrite
  <2>5. ASSUME NEW e \in FileOn(d, Blob(t)), store' = [store EXCEPT !.disk =
              WriteFile(d, IF IsDirOn(d, p) THEN Append(p, t) ELSE p, e.data)]
        PROVE  DiskChange(r)
    <3>1. e \in d
      BY DEF FileOn
    <3>2. store'.disk = WriteFile(d, p, e.data) \/ store'.disk = WriteFile(d, Append(p, t), e.data)
      BY <1>4, <2>5, Zenon
    <3> HIDE DEF t
    <3> QED
      BY <2>0, <2>3, <3>1, <3>2, Zenon DEF DiskChange
  <2> QED
    BY <1>6, <2>4, <2>5
<1>16. CASE MakeDirectory(r)
  <2>1. At(r, "make_directory")
        /\ (\/ store' = store
            \/ store' = [store EXCEPT !.disk = MakeParents(d, p) \cup {[path |-> p, data |-> DIR]}])
    BY <1>16, Zenon DEF MakeDirectory, Becomes, NoWrite
  <2> QED
    BY <1>4, <1>6, <2>1, Zenon DEF DiskChange
<1>17. CASE RenameOnDisk(r)
  <2>1. At(r, "rename_on_disk")
        /\ (\/ store' = store
            \/ /\ lock = NoOne /\ lock' = r /\ ~RelocateFails(store, p, q, x.dir)
               /\ store' = [store EXCEPT !.disk = RenameOn(d, p, q)])
    BY <1>17, Zenon DEF RenameOnDisk, GivesUp
  <2> QED
    BY <1>4, <1>6, <2>1, Zenon DEF DiskChange
<1>18. CASE RemoveBlobs(r)
  <2>1. At(r, "remove_blobs")
        /\ store' = [store EXCEPT !.disk = {e \in d : \A v \in x.found : e.path # Blob(v.ref)}]
    BY <1>18, Zenon DEF RemoveBlobs, Becomes
  <2> QED
    BY <1>4, <2>1, Zenon DEF DiskChange
<1>19. CASE InsertVersion(r) \/ DeleteRow(r) \/ InsertFirst(r) \/ DeleteVersions(r) \/ UpdateChecksum(r)
  <2>1. \/ store' = store
        \/ \E a : store' = [store EXCEPT !.rows = a]
        \/ \E a : store' = [store EXCEPT !.versions = a]
    BY <1>19, Zenon DEF InsertVersion, DeleteRow, InsertFirst, DeleteVersions, UpdateChecksum,
       Commits, GivesUp, Becomes, NoWrite
  <2> QED
    BY <1>4, <1>5, <1>6, <2>1, Zenon
<1>20. CASE Commit(r)
  <2>1. \E a, b : store' = [store EXCEPT !.rows = a, !.versions = b]
    BY <1>20, Zenon DEF Commit
  <2>2. store'.disk = d
    BY <1>1, <2>1 DEF StoreType
  <2> QED
    BY <1>5, <2>2
<1>21. CASE \/ FindSource(r) \/ FindFile(r) \/ FindNone(r) \/ FindParent(r) \/ FindExisting(r)
            \/ FindRoot(r) \/ FindVersion(r) \/ ReadBack(r)
            \/ ReadCurrent(r) \/ ReadMax(r) \/ ReadRefs(r)
  BY <1>6, <1>21 DEF FindSource, FindFile, FindNone, FindParent, FindExisting, FindRoot,
     FindVersion, ReadBack, ReadCurrent, ReadMax, ReadRefs, NoWrite
<1> QED
  BY <1>7, <1>8, <1>9, <1>10, <1>11, <1>12, <1>13, <1>14, <1>15, <1>16, <1>17, <1>18, <1>19,
     <1>20, <1>21 DEF Step

\* The .part file lies beside the target and is named by the request.
LEMMA PartPath ==
  ASSUME RequestsInv, NEW r \in Requests, InFlight(r)
  PROVE  /\ Part(r) \in Path /\ Len(Part(r)) = Len(req[r].path) /\ Len(req[r].path) >= 1
         /\ Len(req[r].path) \in Nat
         /\ Part(r)[Len(req[r].path)] = r /\ ParentOf(Part(r)) = ParentOf(req[r].path)
         /\ Len(req[r].path) > 1 => Part(r)[1] = req[r].path[1]
         /\ Len(req[r].path) = 1 => Part(r)[1] = r
<1> DEFINE p == req[r].path
           h == ParentOf(p)
<1>1. p \in Path /\ Len(p) >= 1 /\ Len(p) \in Nat /\ r \in Segments
  BY RequestPaths, LongPath
<1> HIDE DEF p
<1>2. p \in FP!Path /\ p # FP!Root
  BY <1>1, LongPath, SameTypes
<1>3. h \in FP!Path /\ Len(h) = Len(p) - 1 /\ \A i \in 1 .. Len(p) - 1 : h[i] = p[i]
  BY <1>2, Assumed, SamePaths, FP!ParentPath
<1> HIDE DEF h
<1>4. Part(r) = Append(h, r)
  BY DEF Part, h, p
<1>5. /\ Append(h, r) \in FP!Path /\ Len(Append(h, r)) = Len(p)
      /\ \A i \in 1 .. Len(p) - 1 : Append(h, r)[i] = p[i]
      /\ ParentOf(Append(h, r)) = h
  BY <1>1, <1>3, Assumed, SamePaths, FP!ChildPath DEF FP!Child
<1>6. Append(h, r)[Len(p)] = r
  BY <1>1, <1>3, SameTypes DEF Path
<1>7. Part(r) \in Path /\ Len(Part(r)) = Len(p) /\ Part(r)[Len(p)] = r /\ ParentOf(Part(r)) = h
  BY <1>4, <1>5, <1>6, SameTypes
<1>8. Len(p) > 1 => Part(r)[1] = p[1]
  BY <1>1, <1>4, <1>5
<1>9. Len(p) = 1 => Part(r)[1] = r
  BY <1>7
<1> QED
  BY <1>1, <1>7, <1>8, <1>9 DEF p, h

\* What a step of r takes from the disk, or moves.
LEMMA DiskLost ==
  ASSUME IInv, NEW r \in Requests, Step(r),
         NEW e \in store.disk, e.data # DIR, e \notin store'.disk
  PROVE  LET x == req[r]
         IN  \/ At(r, "remove_blobs") /\ \E v \in x.found : e.path = Blob(v.ref)
             \/ At(r, "replace") /\ e.path = Part(r)
             \/ /\ \/ At(r, "remove_bytes") \/ At(r, "replace") \/ At(r, "insert_row")
                   \/ At(r, "adopt") \/ At(r, "write_bytes") \/ At(r, "copy_back")
                   \/ At(r, "remove_tree")
                /\ e.path = x.path
             \/ (At(r, "copy_back") \/ At(r, "remove_tree")) /\ Below(x.path, e.path)
             \/ /\ At(r, "rename_on_disk") /\ lock = NoOne /\ lock' = r
                /\ ~RelocateFails(store, x.path, x.dest, x.dir)
                /\ store'.disk = RenameOn(store.disk, x.path, x.dest)
                /\ e.path = x.dest \/ FP!AtOrBelow(x.path, e.path)
<1> DEFINE x == req[r]
           p == x.path
           d == store.disk
<1>1. DiskChange(r) /\ InFlight(r) /\ RequestsInv
  BY StepDisk, StepLabel DEF IInv
<1>2. \A q, c, f : q # e.path /\ e \in f => e \in WriteFile(f, q, c)
  BY DEF WriteFile, MakeParents
<1>3. \A n \in Segments : Below(p, Append(p, n))
  <2> TAKE n \in Segments
  <2>1. p \in FP!Path /\ p \in Path
    BY <1>1, RequestPaths, SameTypes
  <2>2. /\ Append(p, n) \in FP!Path /\ Len(Append(p, n)) = Len(p) + 1
        /\ \A i \in 1 .. Len(p) : Append(p, n)[i] = p[i]
    BY <2>1, Assumed, FP!ChildPath DEF FP!Child
  <2>3. Len(p) \in Nat
    BY <2>1, LongPath
  <2> HIDE DEF p
  <2>4. Len(p) < Len(Append(p, n))
    BY <2>2, <2>3
  <2> QED
    BY <2>1, <2>2, <2>4, Assumed, SamePaths, FP!BelowElements
<1>4. CASE At(r, "replace") /\ e.path # Part(r)
  <2>1. e \in d \ FileOn(d, Part(r))
    BY <1>4 DEF FileOn
  <2>2. store'.disk = WriteFile(d \ FileOn(d, Part(r)), p, r)
    BY <1>1, <1>4, <2>1 DEF DiskChange, At
  <2> QED
    BY <1>2, <1>4, <2>1, <2>2
<1>5. CASE At(r, "rename_on_disk")
  <2>1. /\ lock = NoOne /\ lock' = r /\ ~RelocateFails(store, p, x.dest, x.dir)
        /\ store'.disk = RenameOn(d, p, x.dest)
    BY <1>1, <1>5 DEF DiskChange, At
  <2>2. ASSUME e.path # x.dest, ~FP!AtOrBelow(p, e.path)
        PROVE  e \in RenameOn(d, p, x.dest)
    <3>1. e.path # p /\ ~Below(p, e.path)
      BY <2>2, SamePaths DEF FP!AtOrBelow
    <3>2. e \in MakeParents(d, x.dest)
      BY DEF MakeParents
    <3> HIDE DEF d, p, x
    <3>3. e \in d
      BY DEF d
    <3> QED
      BY <2>2, <3>1, <3>2, <3>3 DEF RenameOn
  <2> QED
    BY <1>5, <2>1, <2>2
<1>6. CASE At(r, "copy_back")
  <2>1. \E q : (q = p \/ \E n \in Segments : q = Append(p, n)) /\ \E c : store'.disk = WriteFile(d, q, c)
    BY <1>1, <1>6 DEF DiskChange, At
  <2>2. e.path = p \/ \E n \in Segments : e.path = Append(p, n)
    BY <1>2, <2>1
  <2> QED
    BY <1>3, <1>6, <2>2
<1>7. CASE \/ At(r, "remove_bytes") \/ At(r, "insert_row")
           \/ At(r, "adopt") \/ At(r, "write_bytes")
  <2>1. store'.disk = RemoveFileOn(d, p) \/ store'.disk = WriteFile(d, p, r)
    BY <1>1, <1>7 DEF DiskChange, At
  <2>2. e.path = p
    BY <1>2, <2>1 DEF RemoveFileOn, FileOn
  <2> QED
    BY <1>7, <2>2
<1>8. CASE At(r, "remove_tree")
  <2>1. store'.disk = RemoveFileOn(d, p) \/ store'.disk = RemoveTreeOn(d, p)
    BY <1>1, <1>8 DEF DiskChange, At
  <2>2. e.path = p \/ Below(p, e.path)
    BY <2>1 DEF RemoveFileOn, FileOn, RemoveTreeOn
  <2> QED
    BY <1>8, <2>2
<1>9. CASE At(r, "remove_blobs")
  <2>1. store'.disk = {b \in d : \A v \in x.found : b.path # Blob(v.ref)}
    BY <1>1, <1>9 DEF DiskChange, At
  <2> QED
    BY <1>9, <2>1
<1>10. CASE \/ At(r, "copy_blob") \/ At(r, "make_parents") \/ At(r, "stream") \/ At(r, "make_directory")
  <2>1. d \subseteq store'.disk
    BY <1>1, <1>10 DEF DiskChange, At, MakeParents
  <2> QED
    BY <2>1
<1> QED
  BY <1>1, <1>4, <1>5, <1>6, <1>7, <1>8, <1>9, <1>10 DEF DiskChange

\* The bytes that a rename moves are afterwards where it moves them to.
LEMMA Renamed ==
  ASSUME NEW d \in SUBSET EntryType, NEW old, NEW new, NEW e \in d,
         e.path # new, FP!AtOrBelow(old, e.path)
  PROVE  [path |-> Rebase(old, new, e.path), data |-> e.data] \in RenameOn(d, old, new)
<1>1. e.path = old \/ Below(old, e.path)
  BY SamePaths DEF FP!AtOrBelow
<1>2. OnDisk(d, old)
  BY <1>1 DEF OnDisk
<1> DEFINE made == {b \in MakeParents(d, new) : b.path # new}
<1>3. e \in made
  BY DEF MakeParents
<1>4. [e EXCEPT !.path = Rebase(old, new, e.path)] = [path |-> Rebase(old, new, e.path), data |-> e.data]
  BY DEF EntryType
<1> HIDE DEF made
<1>5. RenameOn(d, old, new) = {IF b.path = old \/ Below(old, b.path)
            THEN [b EXCEPT !.path = Rebase(old, new, b.path)] ELSE b : b \in made}
  BY <1>2 DEF RenameOn, made
<1> QED
  BY <1>1, <1>3, <1>4, <1>5

----------------------------------------------------------------------------
(* Where the names along a path come from: one the server drew at          *)
(* random is the .part file of an upload, or an id of the trash.           *)

\* A path whose elements begin another one leads to it.
LEMMA PrefixIs ==
  ASSUME NEW p \in Path, NEW q \in Path, Len(p) <= Len(q), \A i \in 1 .. Len(p) : q[i] = p[i]
  PROVE  FP!AtOrBelow(p, q)
<1>1. p \in FP!Path /\ q \in FP!Path /\ Len(p) \in Nat /\ Len(q) \in Nat
  BY SameTypes, LongPath
<1>2. CASE Len(p) < Len(q)
  <2>1. Below(p, q)
    BY <1>1, <1>2, Assumed, SamePaths, FP!BelowElements
  <2> QED
    BY <2>1, SamePaths DEF FP!AtOrBelow
<1>3. CASE Len(p) = Len(q)
  <2>1. p = q
    BY <1>1, <1>3, Assumed, FP!PathEqual
  <2> QED
    BY <2>1 DEF FP!AtOrBelow
<1> QED
  BY <1>1, <1>2, <1>3

\* A path rebased to a place lies at or below it; only what lies at or below the old
\* place is rebased.
LEMMA RebasedAt ==
  ASSUME NEW old \in Path, NEW new \in Path, NEW q \in Path
  PROVE  /\ Rebase(old, new, q) \in Path
         /\ FP!AtOrBelow(new, Rebase(old, new, q))
         /\ Rebase(old, new, old) = new
         /\ \A i \in 1 .. Len(new) : Rebase(old, new, q)[i] = new[i]
         /\ Len(Rebase(old, new, q)) = Len(new) + IF Len(old) <= Len(q) THEN Len(q) - Len(old) ELSE 0
         /\ \A i \in 1 .. Len(q) - Len(old) : Rebase(old, new, q)[Len(new) + i] = q[Len(old) + i]
<1>1. /\ old \in FP!Path /\ new \in FP!Path /\ q \in FP!Path
      /\ Len(old) \in Nat /\ Len(new) \in Nat /\ Len(q) \in Nat
  BY SameTypes, LongPath
<1>2. \A s : FP!Rebase(old, new, s) = Rebase(old, new, s)
  BY DEF FP!Rebase, Rebase
<1>3. \A s \in FP!Path :
        /\ Rebase(old, new, s) \in FP!Path
        /\ Len(Rebase(old, new, s)) = Len(new) + IF Len(old) <= Len(s) THEN Len(s) - Len(old) ELSE 0
        /\ \A i \in 1 .. Len(new) : Rebase(old, new, s)[i] = new[i]
        /\ \A i \in 1 .. Len(s) - Len(old) : Rebase(old, new, s)[Len(new) + i] = s[Len(old) + i]
  <2> TAKE s \in FP!Path
  <2> DEFINE b == FP!Rebase(old, new, s)
  <2>1. /\ b \in FP!Path
        /\ Len(b) = Len(new) + IF Len(old) <= Len(s) THEN Len(s) - Len(old) ELSE 0
        /\ \A i \in 1 .. Len(new) : b[i] = new[i]
        /\ \A i \in 1 .. Len(s) - Len(old) : b[Len(new) + i] = s[Len(old) + i]
    BY <1>1, Assumed, FP!RebasePath
  <2>2. b = Rebase(old, new, s)
    BY <1>2
  <2> HIDE DEF b
  <2> QED
    BY <2>1, <2>2
<1>4. Rebase(old, new, q) \in Path
  BY <1>1, <1>3, SameTypes
<1>5. Len(new) <= Len(Rebase(old, new, q))
  BY <1>1, <1>3
<1>6. FP!AtOrBelow(new, Rebase(old, new, q))
  BY <1>1, <1>3, <1>4, <1>5, PrefixIs
<1>7. Rebase(old, new, old) = new
  <2>1. Rebase(old, new, old) \in FP!Path /\ Len(Rebase(old, new, old)) = Len(new)
        /\ \A i \in 1 .. Len(new) : Rebase(old, new, old)[i] = new[i]
    BY <1>1, <1>3
  <2> QED
    BY <1>1, <2>1, Assumed, FP!PathEqual
<1> QED
  BY <1>1, <1>3, <1>4, <1>6, <1>7

\* What MovedPath does to a path: nothing, or it is the new place, or it is rebased.
LEMMA MovedAt ==
  ASSUME LikeIsExact, NEW old \in Path, NEW new \in Path, NEW dir, NEW p \in Path
  PROVE  LET m == MovedPath(old, new, dir, p)
         IN  /\ m \in Path
             /\ m = p \/ FP!AtOrBelow(new, m)
             /\ p = old => FP!AtOrBelow(new, m)
             /\ p = old /\ ~Below(old, new) => m = new
             /\ dir = TRUE /\ Below(old, p) => m = Rebase(old, new, p)
             /\ \/ m = p \/ m = new
                \/ m = Rebase(old, new, p) /\ Below(old, p)
                \/ m = Rebase(old, new, new) /\ Below(old, new)
             /\ p # old /\ ~Below(old, p) => m = p
<1> DEFINE m == MovedPath(old, new, dir, p)
<1>1. old \in FP!Path /\ new \in FP!Path /\ p \in FP!Path
  BY SameTypes
<1>2. (LikeBelow(old, p) <=> Below(old, p)) /\ (LikeBelow(old, new) <=> Below(old, new))
  BY <1>1, Assumed, SamePaths, FP!ExactLikeBelow
<1>3. FP!AtOrBelow(new, new)
  BY DEF FP!AtOrBelow
<1>4. ~Below(old, old)
  BY DEF Below
<1>5. CASE p = old
  <2>1. m = IF dir /\ LikeBelow(old, new) THEN Rebase(old, new, new) ELSE new
    BY <1>5 DEF MovedPath
  <2> HIDE DEF m
  <2> QED
    BY <1>2, <1>3, <1>4, <1>5, <2>1, RebasedAt DEF m
<1>6. CASE p # old
  <2>1. m = IF dir /\ LikeBelow(old, p) THEN Rebase(old, new, p) ELSE p
    BY <1>6 DEF MovedPath
  <2> HIDE DEF m
  <2> QED
    BY <1>2, <1>6, <2>1, RebasedAt DEF m
<1> QED
  BY <1>5, <1>6

\* What an entry moves to lies at or below the place it moves to.
LEMMA TakenPath ==
  ASSUME LikeIsExact, NEW old \in Path, NEW new \in Path, NEW dir \in BOOLEAN, NEW p \in Path,
         p = old \/ (dir /\ Below(old, p))
  PROVE  /\ FP!AtOrBelow(new, MovedPath(old, new, dir, p))
         /\ ~Below(old, new) => MovedPath(old, new, dir, p) = Rebase(old, new, p)
<1> DEFINE m == MovedPath(old, new, dir, p)
           b == Rebase(old, new, p)
<1>1. p = old \/ (dir = TRUE /\ Below(old, p))
  OBVIOUS
<1>2. /\ p = old => FP!AtOrBelow(new, m)
      /\ p = old /\ ~Below(old, new) => m = new
      /\ dir = TRUE /\ Below(old, p) => m = b
  <2>1. p = old => FP!AtOrBelow(new, m)
    BY MovedAt
  <2>2. p = old /\ ~Below(old, new) => m = new
    BY MovedAt, ZenonT(40)
  <2>3. dir = TRUE /\ Below(old, p) => m = b
    <3> SUFFICES ASSUME dir = TRUE, Below(old, p) PROVE m = b
      OBVIOUS
    <3>1. LikeBelow(old, p)
      <4>1. old \in FP!Path /\ p \in FP!Path
        BY SameTypes
      <4> QED
        BY <4>1, Assumed, SamePaths, FP!ExactLikeBelow
    <3>2. p # old
      BY DEF Below
    <3> QED
      BY <3>1, <3>2, Zenon DEF MovedPath
  <2> QED
    BY <2>1, <2>2, <2>3
<1>3. FP!AtOrBelow(new, b) /\ Rebase(old, new, old) = new
  BY RebasedAt
<1> HIDE DEF m
<1>4. CASE p = old
  BY <1>2, <1>3, <1>4 DEF m
<1>5. CASE p # old
  BY <1>1, <1>2, <1>3, <1>5 DEF m
<1> QED
  BY <1>4, <1>5

\* Nothing that a delete, a rename, a move or a restore moves to has a .part file at or
\* below it but the .part file of an upload below it.
LEMMA PartApart ==
  ASSUME IInv, SidesInv, NEW r \in Requests, InFlight(r), req[r].op = "upload",
         NEW z \in Path, Len(z) >= 1, z[1] = TRASH \/ Fresh(z), FP!AtOrBelow(z, Part(r))
  PROVE  FP!AtOrBelow(z, req[r].path)
<1> DEFINE p == req[r].path
           part == Part(r)
<1>1. /\ part \in Path /\ Len(part) = Len(p) /\ Len(p) >= 1 /\ Len(p) \in Nat
      /\ part[Len(p)] = r /\ ParentOf(part) = ParentOf(p)
      /\ Len(p) > 1 => part[1] = p[1]
      /\ Len(p) = 1 => part[1] = r
  BY PartPath DEF IInv
<1>2. p \in Path /\ Len(z) \in Nat /\ r # TRASH
  BY RequestPaths, LongPath, AsyncAssumption DEF IInv
<1>3. p[1] # TRASH
  BY DEF SidesInv, Sided
<1> HIDE DEF p, part
<1>4. Len(z) <= Len(part) /\ \A i \in 1 .. Len(z) : part[i] = z[i]
  BY <1>1, PathOrder DEF part
<1>5. z[1] = part[1]
  BY <1>2, <1>4
<1>6. Fresh(z)
  BY <1>1, <1>2, <1>3, <1>5
<1>7. z # part
  BY <1>1, <1>6 DEF Fresh
<1>8. Below(z, part)
  BY <1>7, SamePaths DEF FP!AtOrBelow, part
<1>9. FP!AtOrBelow(z, ParentOf(p))
  BY <1>1, <1>8, PathOrder
<1> QED
  BY <1>1, <1>2, <1>9, PathOrder DEF p

\* What a step takes or moves lies beside no place its own places are unrelated to.
LEMMA HitsRelated ==
  ASSUME IInv, SidesInv, NEW r \in Requests, Step(r),
         NEW e \in store.disk, e.data # DIR, e \notin store'.disk,
         NEW z \in Path, Len(z) >= 1, z[1] # VERSIONS, z[1] = TRASH \/ Fresh(z),
         FP!AtOrBelow(z, e.path)
  PROVE  Related(req[r].path, z) \/ Related(req[r].dest, z)
<1> DEFINE x == req[r]
           p == x.path
<1>1. /\ InFlight(r) /\ RequestsInv /\ e.path \in Path
      /\ x.op \in Ops /\ x.pc \in 1 .. Len(Plan(x.op))
  BY StepLabel, DiskType DEF IInv, EntryType, RequestsInv, Knows
<1>2. p \in Path /\ x.dest \in Path
  BY <1>1, RequestPaths
<1>3. \A ref : e.path # Blob(ref)
  <2> SUFFICES ASSUME NEW ref, e.path = Blob(ref) PROVE FALSE
    OBVIOUS
  <2>1. e.path[1] = VERSIONS
    BY DEF Blob
  <2>2. Len(z) \in Nat /\ \A i \in 1 .. Len(z) : e.path[i] = z[i]
    BY <1>1, LongPath, PathOrder
  <2> QED
    BY <2>1, <2>2
<1>4. ASSUME e.path = p \/ Below(p, e.path) \/ FP!AtOrBelow(p, e.path) PROVE Related(p, z)
  <2>1. FP!AtOrBelow(p, e.path)
    BY <1>4, SamePaths DEF FP!AtOrBelow
  <2> QED
    BY <1>1, <1>2, <2>1, PathOrder
<1>5. ASSUME e.path = x.dest PROVE Related(x.dest, z)
  BY <1>2, <1>5, PathOrder
<1>6. ASSUME At(r, "replace"), e.path = Part(r) PROVE Related(p, z)
  <2>1. x.op = "upload"
    BY <1>1, <1>6, Positions DEF At
  <2>2. FP!AtOrBelow(z, p)
    BY <1>1, <1>6, <2>1, PartApart
  <2> QED
    BY <1>2, <2>2, PathOrder
<1> QED
  BY <1>3, <1>4, <1>5, <1>6, DiskLost

\* A row has no drawn name along its path but the id of the trash.
RowNamed(p) == p[1] # VERSIONS /\ \A i \in 1 .. Len(p) : p[i] \in Requests => p[1] = TRASH /\ i = 2
\* A request names no drawn name but the ids a delete gave.
RequestNamed(x) ==
  /\ Len(x.dest) >= 1 /\ x.dest[1] # VERSIONS
  /\ x.dest[1] = TRASH \/ Fresh(x.dest)
  /\ x.op \notin {"restore", "purge"} => Fresh(x.path)
  /\ x.op = "restore" /\ x.pc = 1 => x.dest = x.path
Named ==
  /\ \A w \in store.rows : RowNamed(w.path) /\ (w.orig # NoPath => Fresh(w.orig))
  /\ \A r \in Requests : IF req[r].status = "idle" THEN req[r] = Idle ELSE RequestNamed(req[r])

\* What a step leaves of a request, also when it fails or answers.
LEMMA StepFields ==
  ASSUME IInv, NEW r \in Requests, Step(r)
  PROVE  LET x == req[r]
             y == req'[r]
         IN  /\ \A o \in Requests \ {r} : req'[o] = req[o]
             /\ y.op = x.op /\ y.path = x.path
             /\ x.pc # 1 \/ x.op # "restore" \/ ~InFlight(r)' => y.dest = x.dest
             /\ y.status \in {"failed", "run", "ok"}
             /\ y.status = "failed" => y.pc = x.pc
             /\ y.status # "failed" => \E n \in {1, 3, 4, 7} :
                  /\ Skips(r, n) /\ y.pc = x.pc + n /\ (y.status = "ok" => y.pc > Len(Plan(x.op)))
                  /\ n # 1 => x.op \in {"upload", "chunked", "save", "version"}
             /\ x \in RequestType /\ y \in RequestType /\ x.pc \in Nat /\ y.pc \in Nat
             /\ InFlight(r) /\ x.op \in Ops /\ x.pc \in 1 .. Len(Plan(x.op))
<1> DEFINE x == req[r]
           y == req'[r]
           z == [y EXCEPT !.pc = x.pc]
<1>1. RequestsInv /\ RequestsInv' /\ Moved(r) /\ InFlight(r)
  BY RequestsStep, StepLabel DEF IInv
<1>2. x \in RequestType /\ y \in RequestType /\ x.op \in Ops /\ x.pc \in 1 .. Len(Plan(x.op))
  BY <1>1 DEF RequestsInv, Knows
<1>3. x.pc \in Nat /\ y.pc \in Nat
  BY <1>2 DEF RequestType
<1>4. z.op = y.op /\ z.path = y.path /\ z.dest = y.dest
  BY <1>2 DEF RequestType
<1>5. \A o \in Requests \ {r} : req'[o] = req[o]
  BY <1>1 DEF Moved
<1>6. CASE y.status = "failed" /\ y.op = x.op /\ y.pc = x.pc /\ y.path = x.path /\ y.dest = x.dest
  BY <1>1, <1>2, <1>3, <1>5, <1>6
<1>7. CASE \E n \in {1, 3, 4, 7} :
             /\ n # 1 => x.op \in {"upload", "chunked", "save", "version"}
             /\ Skips(r, n) /\ Keeps(x, z) /\ y.pc = x.pc + n /\ y.status \in {"run", "ok"}
             /\ y.status = "ok" => x.pc + n > Len(Plan(x.op))
  <2>1. PICK n \in {1, 3, 4, 7} :
             /\ n # 1 => x.op \in {"upload", "chunked", "save", "version"}
             /\ Skips(r, n) /\ Keeps(x, z) /\ y.pc = x.pc + n /\ y.status \in {"run", "ok"}
             /\ y.status = "ok" => x.pc + n > Len(Plan(x.op))
    BY <1>7
  <2> HIDE DEF z
  <2>2. y.op = x.op /\ y.path = x.path /\ (x.pc # 1 \/ x.op # "restore" => y.dest = x.dest)
    BY <1>4, <2>1 DEF Keeps
  <2>3. x.op = "restore" /\ x.pc = 1 => y.status # "ok"
    <3>1. x.op = "restore" => ~(Len(Plan(x.op)) < 3) /\ n = 1
      <4>1. Len(Plan(x.op)) \in 3 .. 12
        BY <1>2, PlanLength
      <4>2. \A k \in 3 .. 12 : ~(k < 3)
        OBVIOUS
      <4> QED
        BY <2>1, <4>1, <4>2
    <3>2. Len(Plan(x.op)) \in Nat
      BY <1>2, PlanLength
    <3> QED
      BY <1>3, <2>1, <3>1, <3>2
  <2> QED
    BY <1>1, <1>2, <1>3, <1>5, <2>1, <2>2, <2>3 DEF InFlight
<1> QED
  BY <1>1, <1>6, <1>7, Zenon DEF Moved

\* A row that moves along keeps to these names.
LEMMA MovedNamed ==
  ASSUME LikeIsExact, NEW old \in Path, Len(old) >= 1, NEW new \in Path, Len(new) >= 1,
         new[1] # VERSIONS, NEW dir, NEW p \in Path, Len(p) >= 1, RowNamed(p),
         \/ Fresh(new) /\ (old[1] # TRASH \/ ~(Len(old) < 3))
         \/ /\ old[1] # TRASH /\ new[1] = TRASH
            /\ \A i \in 1 .. Len(new) : new[i] \in Requests => i = 2
            /\ ~(Len(new) < 2)
  PROVE  RowNamed(MovedPath(old, new, dir, p))
<1> DEFINE m == MovedPath(old, new, dir, p)
<1>1. /\ Len(old) \in Nat /\ Len(new) \in Nat /\ Len(p) \in Nat
      /\ TRASH \notin Requests
  BY LongPath, AsyncAssumption
<1>2. \/ m = p \/ m = new
      \/ m = Rebase(old, new, p) /\ Below(old, p)
      \/ m = Rebase(old, new, new) /\ Below(old, new)
  BY MovedAt
<1> HIDE DEF m
<1>3. RowNamed(new)
  BY <1>1 DEF RowNamed, Fresh
<1>4. ASSUME NEW s \in {p, new}, Below(old, s), m = Rebase(old, new, s) PROVE RowNamed(m)
  <2>1. s \in Path /\ Len(s) \in Nat /\ RowNamed(s)
    BY <1>1, <1>3, <1>4
  <2>2. Len(old) < Len(s) /\ \A i \in 1 .. Len(old) : s[i] = old[i]
    BY <2>1, <1>4, PathOrder
  <2>3. s[1] = old[1]
    BY <1>1, <2>2
  <2>4. /\ Len(m) = Len(new) + (Len(s) - Len(old))
        /\ \A i \in 1 .. Len(new) : m[i] = new[i]
        /\ \A i \in 1 .. Len(s) - Len(old) : m[Len(new) + i] = s[Len(old) + i]
    <3>1. /\ Len(Rebase(old, new, s)) = Len(new) + IF Len(old) <= Len(s) THEN Len(s) - Len(old) ELSE 0
          /\ \A i \in 1 .. Len(new) : Rebase(old, new, s)[i] = new[i]
          /\ \A i \in 1 .. Len(s) - Len(old) : Rebase(old, new, s)[Len(new) + i] = s[Len(old) + i]
      BY <2>1, RebasedAt, ZenonT(40)
    <3> QED
      BY <1>1, <1>4, <2>1, <2>2, <3>1
  <2>5. m[1] = new[1]
    BY <1>1, <2>4
  <2> SUFFICES ASSUME NEW i \in 1 .. Len(m), m[i] \in Requests PROVE m[1] = TRASH /\ i = 2
    BY <2>5 DEF RowNamed
  <2>6. CASE i <= Len(new)
    <3>1. i \in 1 .. Len(new) /\ m[i] = new[i]
      BY <1>1, <2>4, <2>6
    <3> QED
      BY <2>5, <3>1, <1>3 DEF RowNamed
  <2>7. CASE ~(i <= Len(new))
    <3> DEFINE j == i - Len(new)
    <3>1. j \in 1 .. Len(s) - Len(old) /\ m[i] = s[Len(old) + j]
      <4>1. j \in 1 .. Len(s) - Len(old) /\ i = Len(new) + j
        BY <1>1, <2>1, <2>2, <2>4, <2>7
      <4> HIDE DEF j
      <4> QED
        BY <2>4, <4>1
    <3>2. Len(old) + j \in 1 .. Len(s)
      BY <1>1, <2>1, <2>2, <3>1
    <3>3. s[1] = TRASH /\ Len(old) + j = 2
      BY <2>1, <3>1, <3>2 DEF RowNamed
    <3>4. Len(old) < 3
      BY <1>1, <3>1, <3>3
    <3>5. Fresh(new) /\ old[1] = TRASH
      BY <2>3, <3>3
    <3> QED
      BY <2>3, <3>3, <3>4, <3>5
  <2> QED
    BY <2>6, <2>7
<1> QED
  BY <1>2, <1>3, <1>4 DEF m

\* Every row does, after every step.
LEMMA RowsNamed ==
  ASSUME LikeIsExact, MarksIInv, Situated, Named, NEW r \in Requests, Step(r),
         NEW w \in store'.rows
  PROVE  RowNamed(w.path) /\ (w.orig # NoPath => Fresh(w.orig))
<1> DEFINE x == req[r]
           p == x.path
           q == x.dest
<1>1. /\ InFlight(r) /\ IInv /\ RequestsInv /\ Sided(r, x) /\ RequestNamed(x)
      /\ HasSource(store.rows, x) /\ MarksInv(store.rows)
      /\ x.op \in Ops /\ x.pc \in 1 .. Len(Plan(x.op))
  BY StepLabel DEF MarksIInv, IInv, SidesInv, Situated, RequestsInv, Knows, Named, InFlight
<1>2. /\ p \in Path /\ Len(p) >= 1 /\ Len(p) \in Nat /\ q \in Path /\ Len(q) >= 1
      /\ \A t \in store.rows : t.path \in Path /\ Len(t.path) >= 1
      /\ TRASH \notin Requests /\ TRASH # VERSIONS
  BY <1>1, RequestPaths, LongPath, SameTypes, AsyncAssumption, StorageAssumption
     DEF IInv, FP!StoreInv, FP!RowsInv, RowType
<1>3. \A t \in store.rows : RowNamed(t.path) /\ (t.orig # NoPath => Fresh(t.orig))
  BY DEF Named
<1>4. /\ p[1] # VERSIONS
      /\ x.op \notin {"restore", "purge"} => Fresh(p) /\ p[1] # TRASH
  BY <1>1 DEF Sided, RequestNamed
<1>5. Fresh(p) /\ p[1] # VERSIONS => RowNamed(p)
  BY DEF RowNamed, Fresh
<1>6. w.orig # NoPath => Fresh(w.orig)
  <2>1. \/ w.orig = NoPath
        \/ x.op = "delete" /\ w.orig = p
        \/ \E t \in store.rows : w.orig = t.orig
    BY <1>1, RowSources
  <2> QED
    BY <1>3, <1>4, <2>1
<1>7. ASSUME At(r, "commit"), NEW t \in store.rows
      PROVE  RowNamed(MovedPath(p, q, x.dir, t.path))
  <2>1. \/ x.op = "delete" \/ x.op \in {"rename", "move"}
        \/ x.op = "restore" /\ x.pc = 5
    BY <1>1, <1>7, Positions DEF At
  <2>2. q[1] # VERSIONS /\ (q[1] = TRASH \/ Fresh(q))
    BY <1>1 DEF RequestNamed
  <2>3. CASE x.op = "delete"
    <3>1. q = TrashPath(r, NameOf(p)) /\ p[1] # TRASH /\ Fresh(p)
      BY <1>1, <1>4, <2>3 DEF Sided
    <3>2. NameOf(p) \notin Requests
      BY <1>2, <3>1 DEF NameOf, Fresh
    <3>3. /\ q[1] = TRASH /\ \A i \in 1 .. Len(q) : q[i] \in Requests => i = 2
          /\ ~(Len(q) < 2)
      <4> DEFINE n == NameOf(p)
      <4>1. q = <<TRASH, r, n>>
        BY <3>1 DEF TrashPath
      <4>2. n \notin Requests
        BY <3>2
      <4> HIDE DEF n
      <4> QED
        BY <1>2, <4>1, <4>2
    <3> QED
      BY <1>2, <1>3, <2>2, <3>1, <3>3, MovedNamed
  <2>4. CASE x.op \in {"rename", "move"}
    <3>1. Fresh(q) /\ p[1] # TRASH
      BY <1>1, <1>4, <2>2, <2>4 DEF Sided, UserPath
    <3> QED
      BY <1>2, <1>3, <2>2, <3>1, MovedNamed
  <2>5. CASE x.op = "restore" /\ x.pc = 5
    <3>1. Fresh(q)
      BY <1>1, <2>2, <2>5 DEF Sided, UserPath
    <3>2. PICK s \in store.rows : s.path = p /\ s.orig = q
      BY <1>1, <2>5 DEF HasSource, MovesBack
    <3>3. s.orig # NoPath
      BY <1>2, <3>2, StorageAssumption
    <3>4. Len(s.path) = 3
      BY <1>1, <3>3, Zenon DEF MarksInv, FP!TrashInv
    <3>5. \A n : n = 3 => ~(n < 3)
      OBVIOUS
    <3>6. ~(Len(p) < 3)
      BY <3>2, <3>4, <3>5, Zenon
    <3> QED
      BY <1>2, <1>3, <2>2, <3>1, <3>6, MovedNamed
  <2> QED
    BY <2>1, <2>3, <2>4, <2>5
<1>8. \/ w.path = p /\ x.op \in {"upload", "chunked", "save", "folder"}
      \/ \E t \in store.rows : w.path = t.path
      \/ At(r, "commit") /\ \E t \in store.rows : w.path = MovedPath(p, q, x.dir, t.path)
  BY <1>1, RowSources
<1>9. RowNamed(w.path)
  BY <1>3, <1>4, <1>5, <1>7, <1>8
<1> QED
  BY <1>6, <1>9

\* And so do the requests.
LEMMA NamedStep ==
  ASSUME LikeIsExact, MarksIInv, Situated, Named, NEW r \in Requests, Step(r)
  PROVE  Named'
<1> DEFINE x == req[r]
           y == req'[r]
<1>1. /\ IInv /\ RequestsInv' /\ SidesInv /\ MarksInv(store.rows) /\ InFlight(r)
      /\ RequestNamed(x)
  BY StepLabel, RequestsStep DEF MarksIInv, Named, InFlight
<1>2. /\ \A o \in Requests \ {r} : req'[o] = req[o]
      /\ y.op = x.op /\ y.path = x.path
      /\ x.pc # 1 \/ x.op # "restore" \/ ~InFlight(r)' => y.dest = x.dest
      /\ y.status \in {"failed", "run", "ok"}
      /\ x.pc \in Nat /\ y.pc \in Nat /\ x.op \in Ops /\ x.pc \in 1 .. Len(Plan(x.op))
      /\ y.pc = 1 => x.pc = 1
  <2>1. y.pc = 1 => x.pc = 1
    <3>1. /\ y.status = "failed" => y.pc = x.pc
          /\ y.status # "failed" => \E n \in {1, 3, 4, 7} : y.pc = x.pc + n
          /\ x.pc \in 1 .. Len(Plan(x.op)) /\ x.pc \in Nat /\ y.pc \in Nat
      BY <1>1, StepFields
    <3>2. Len(Plan(x.op)) \in Nat
      BY <1>1, StepFields, PlanLength
    <3> QED
      BY <3>1, <3>2
  <2> QED
    BY <1>1, <2>1, StepFields
<1>3. \A w \in store'.rows : RowNamed(w.path) /\ (w.orig # NoPath => Fresh(w.orig))
  BY RowsNamed
<1>4. CASE y.dest = x.dest
  <2>1. RequestNamed(y)
    BY <1>1, <1>2, <1>4 DEF RequestNamed
  <2> QED
    BY <1>2, <1>3, <2>1 DEF Named
<1>5. CASE x.pc = 1 /\ x.op = "restore" /\ InFlight(r)'
  <2>1. At(r, "find_root")
    BY <1>1, <1>2, <1>5, Positions DEF At
  <2>2. PICK w \in store.rows : w.orig = y.dest
    BY <1>1, <1>5, <2>1, SourceLearned
  <2>3. y.dest \in Path /\ Len(y.dest) >= 1
    <3>1. y \in RequestType /\ y.dest # Root
      BY <1>1, <1>5 DEF RequestsInv, Knows
    <3> QED
      BY <3>1, LongPath DEF RequestType
  <2>4. w.orig # NoPath
    BY <2>2, <2>3, StorageAssumption
  <2>5. Fresh(y.dest) /\ y.dest[1] # VERSIONS
    BY <1>1, <2>2, <2>4 DEF Named, MarksInv
  <2>6. y.pc # 1
    <3>1. \E n \in {1, 3, 4, 7} : y.pc = x.pc + n
      BY <1>1, <1>5, OwnFields
    <3> QED
      BY <1>5, <3>1
  <2>7. RequestNamed(y)
    BY <1>1, <1>2, <1>5, <2>3, <2>5, <2>6 DEF RequestNamed
  <2> QED
    BY <1>2, <1>3, <2>7 DEF Named
<1> QED
  BY <1>2, <1>4, <1>5

\* Once bytes are forfeited they stay so: requests keep what they said.
LEMMA ForfeitedStep ==
  ASSUME IInv, Named, NEW r \in Requests, Step(r), Forfeited
  PROVE  Forfeited'
<1> DEFINE x == req[r]
           y == req'[r]
<1>1. /\ \A o \in Requests \ {r} : req'[o] = req[o]
      /\ y.op = x.op /\ y.path = x.path
      /\ x.pc # 1 \/ x.op # "restore" \/ ~InFlight(r)' => y.dest = x.dest
      /\ y.status \in {"failed", "run", "ok"} /\ InFlight(r)
  BY StepFields
<1>2. x.op = "restore" /\ x.pc = 1 => x.dest = x.path
  BY <1>1 DEF Named, RequestNamed, InFlight
<1>3. \A o \in Requests : \A z : Touches(o, z) =>
        req'[o].status # "idle" /\ \E q \in {req'[o].path, req'[o].dest} : Related(q, z)
  BY <1>1, <1>2 DEF Touches
<1>4. PICK a, o \in Requests :
        /\ a # o /\ Touches(o, req[a].dest)
        /\ CutShort(a) \/ (req[a].op = "delete" /\ req[o].op = "purge")
  BY DEF Forfeited
<1>5. \A u \in Requests : req'[u].op = req[u].op
  BY <1>1
<1>6. CASE a # r
  <2>1. req'[a] = req[a]
    BY <1>1, <1>6
  <2>2. CutShort(a) => CutShort(a)'
    BY <2>1 DEF CutShort
  <2>3. Touches(o, req[a].dest)'
    BY <1>3, <1>4, <2>1 DEF Touches, Related, Below
  <2> QED
    BY <1>4, <1>5, <2>1, <2>2, <2>3 DEF Forfeited
<1>7. CASE a = r
  <2>1. ~CutShort(a)
    BY <1>1, <1>7 DEF CutShort, InFlight
  <2>2. req'[a].dest = req[a].dest
    BY <1>1, <1>4, <1>7, <2>1
  <2>3. Touches(o, req[a].dest)'
    BY <1>3, <1>4, <2>2 DEF Touches, Related, Below
  <2> QED
    BY <1>4, <1>5, <2>1, <2>3 DEF Forfeited
<1> QED
  BY <1>6, <1>7

\* Where a step of r puts bytes.
LEMMA DiskAppears ==
  ASSUME IInv, NEW r \in Requests, Step(r),
         NEW e \in store'.disk, e.data # DIR, e \notin store.disk
  PROVE  LET x == req[r]
         IN  \/ At(r, "copy_blob") /\ e.path = Blob(r)
             \/ At(r, "stream") /\ e.path = Part(r)
             \/ FP!AtOrBelow(x.path, e.path)
             \/ At(r, "rename_on_disk") /\ FP!AtOrBelow(x.dest, e.path)
<1> DEFINE x == req[r]
           p == x.path
           d == store.disk
<1>1. DiskChange(r) /\ InFlight(r) /\ RequestsInv /\ d \subseteq EntryType
  BY StepDisk, StepLabel, DiskType DEF IInv
<1>2. p \in Path /\ x.dest \in Path
  BY <1>1, RequestPaths
<1>3. \A q, c, f : e \in WriteFile(f, q, c) => e.path = q \/ e \in f
  BY DEF WriteFile, MakeParents
<1>4. \A q, f : e \in MakeParents(f, q) => e \in f
  BY DEF MakeParents
<1>5. FP!AtOrBelow(p, p)
  BY DEF FP!AtOrBelow
<1>6. CASE At(r, "copy_blob")
  <2>1. store'.disk = d \cup {[b EXCEPT !.path = Blob(r)] : b \in FileOn(d, p)}
    BY <1>1, <1>6 DEF DiskChange, At
  <2>2. PICK b \in FileOn(d, p) : e = [b EXCEPT !.path = Blob(r)]
    BY <2>1
  <2>3. e.path = Blob(r)
    BY <1>1, <2>2 DEF FileOn, EntryType
  <2> QED
    BY <1>6, <2>3
<1>7. CASE At(r, "stream")
  <2>1. store'.disk = d \cup {[path |-> Part(r), data |-> r]}
    BY <1>1, <1>7 DEF DiskChange, At
  <2> QED
    BY <1>7, <2>1
<1>8. CASE At(r, "copy_back")
  <2>1. \E q : (q = p \/ \E n \in Segments : q = Append(p, n)) /\ \E c : store'.disk = WriteFile(d, q, c)
    BY <1>1, <1>8 DEF DiskChange, At
  <2>2. e.path = p \/ \E n \in Segments : e.path = Append(p, n)
    BY <1>3, <2>1
  <2>3. \A n \in Segments : FP!AtOrBelow(p, Append(p, n))
    <3> TAKE n \in Segments
    <3>1. p \in FP!Path
      BY <1>2, SameTypes
    <3>2. /\ Append(p, n) \in FP!Path /\ Len(Append(p, n)) = Len(p) + 1
          /\ \A i \in 1 .. Len(p) : Append(p, n)[i] = p[i]
      BY <3>1, Assumed, FP!ChildPath DEF FP!Child
    <3>3. Len(p) \in Nat /\ Append(p, n) \in Path
      BY <1>2, LongPath
    <3> HIDE DEF p
    <3> QED
      <4>1. Len(p) <= Len(Append(p, n))
        BY <3>2, <3>3
      <4> QED
        BY <1>2, <3>2, <3>3, <4>1, PrefixIs DEF p
  <2> QED
    BY <1>5, <2>2, <2>3
<1>9. CASE At(r, "rename_on_disk")
  <2>1. store'.disk = RenameOn(d, p, x.dest)
    BY <1>1, <1>9 DEF DiskChange, At
  <2> DEFINE made == {b \in MakeParents(d, x.dest) : b.path # x.dest}
  <2>2. PICK b \in made : e = IF b.path = p \/ Below(p, b.path)
                              THEN [b EXCEPT !.path = Rebase(p, x.dest, b.path)] ELSE b
    <3> HIDE DEF d, p, x
    <3>1. e \notin d
      BY DEF d
    <3> QED
      BY <2>1, <3>1 DEF RenameOn
  <2>3. FP!DiskInv(MakeParents(d, x.dest))
    <3>1. Len(x.dest) >= 1 /\ x.dest \in FP!Path /\ FP!DiskInv(d)
      BY <1>1, RequestPaths, SameTypes, DiskType DEF IInv
    <3> QED
      BY <3>1, Assumed, SameDisk, FP!MakeParentsDisk
  <2>4. b \in EntryType
    BY <2>2, <2>3, SameTypes DEF FP!DiskInv
  <2>5. b.path \in Path
    BY <2>4 DEF EntryType
  <2>6. CASE b.path = p \/ Below(p, b.path)
    <3>1. e.path = Rebase(p, x.dest, b.path)
      BY <2>2, <2>4, <2>6 DEF EntryType
    <3> QED
      BY <1>2, <1>9, <2>5, <3>1, RebasedAt
  <2>7. CASE e = b
    <3>1. e \in MakeParents(d, x.dest)
      BY <2>2, <2>7
    <3> QED
      BY <1>4, <3>1
  <2> QED
    BY <2>2, <2>6, <2>7
<1>10. CASE At(r, "replace") \/ At(r, "adopt") \/ At(r, "write_bytes")
  <2>1. \/ store'.disk \subseteq d
        \/ \E f \in SUBSET d : store'.disk = WriteFile(f, p, r)
    BY <1>1, <1>10 DEF DiskChange, At
  <2>2. e.path = p
    BY <1>3, <2>1
  <2> QED
    BY <1>5, <2>2
<1>11. CASE At(r, "make_parents") \/ At(r, "make_directory")
  <2>1. e \in MakeParents(d, p) \/ e.data = DIR
    BY <1>1, <1>11 DEF DiskChange, At
  <2> QED
    BY <1>4, <2>1
<1> QED
  BY <1>1, <1>6, <1>7, <1>8, <1>9, <1>10, <1>11
     DEF DiskChange, RemoveFileOn, RemoveTreeOn

\* Only a purge takes a blob, one it read the reference of.
LEMMA BlobLost ==
  ASSUME IInv, SidesInv, Named, NEW r \in Requests, Step(r), NEW ref \in Refs,
         NEW e \in store.disk, e.data # DIR, e.path = Blob(ref), e \notin store'.disk
  PROVE  At(r, "remove_blobs") /\ \E v \in req[r].found : v.ref = ref
<1> DEFINE x == req[r]
           p == x.path
<1>1. /\ InFlight(r) /\ RequestsInv /\ p[1] # VERSIONS /\ RequestNamed(x)
  BY StepLabel DEF IInv, SidesInv, Sided, Named, InFlight
<1>2. p \in Path /\ Len(p) >= 1
  BY <1>1, RequestPaths
<1>3. p # Blob(ref) /\ ~Below(p, Blob(ref)) /\ ~FP!AtOrBelow(p, Blob(ref))
  <2>1. p # Blob(ref) /\ ~Below(p, Blob(ref))
    BY <1>1, <1>2, OffBlob
  <2> QED
    BY <2>1, SamePaths DEF FP!AtOrBelow
<1>4. Part(r) # Blob(ref)
  <2> SUFFICES ASSUME Part(r) = Blob(ref) PROVE FALSE
    OBVIOUS
  <2>1. Len(Blob(ref)) = 2 /\ Blob(ref)[1] = VERSIONS
    BY DEF Blob
  <2>2. Len(p) > 1
    <3>1. Len(Part(r)) = Len(p)
      BY <1>1, PartPath
    <3>2. \A n : n = 2 => n > 1
      OBVIOUS
    <3> QED
      BY <2>1, <3>1, <3>2, Zenon
  <2> QED
    BY <1>1, <2>1, <2>2, PartPath
<1>5. x.dest # Blob(ref)
  BY <1>1 DEF RequestNamed, Blob
<1>6. \A v : Blob(v.ref) = Blob(ref) => v.ref = ref
  BY DEF Blob
<1> QED
  BY <1>3, <1>4, <1>5, <1>6, DiskLost

\* A version stays as it is unless it lies at or below the place of the request.
LEMMA VersionsStay ==
  ASSUME LikeIsExact, IInv, NEW r \in Requests, Step(r), NEW v \in store.versions,
         ~FP!AtOrBelow(req[r].path, v.path)
  PROVE  v \in store'.versions
<1> DEFINE x == req[r]
<1>1. VersionsChange(r) /\ InFlight(r) /\ v \in VersionType
  BY StepTables, StepLabel, SameTypes DEF IInv, FP!StoreInv, FP!VersionsInv
<1>2. x.path \in Path /\ x.dest \in Path /\ v.path \in Path
  BY <1>1, RequestPaths DEF IInv, VersionType
<1>3. v.path # x.path /\ ~Below(x.path, v.path)
  BY SamePaths DEF FP!AtOrBelow
<1>4. ~Covers(x.path, v.path)
  <2>1. x.path \in FP!Path /\ v.path \in FP!Path
    BY <1>2, SameTypes
  <2> QED
    BY <2>1, Assumed, SamePaths, FP!ExactCovers
<1>5. MovedPath(x.path, x.dest, x.dir, v.path) = v.path
  BY <1>2, <1>3, MovedAt
<1>6. [v EXCEPT !.path = MovedPath(x.path, x.dest, x.dir, v.path)] = v
  BY <1>1, <1>5 DEF VersionType
<1>7. v \in RelocateVersions(store.versions, x.path, x.dest, x.dir)
  BY <1>6 DEF RelocateVersions
<1> QED
  BY <1>1, <1>4, <1>7 DEF VersionsChange

----------------------------------------------------------------------------
(* What a handler has prepared at its position: the row it means to        *)
(* replace, the copy of its bytes, the version that names the copy, the    *)
(* place it has cleared, the bytes it has written.                         *)

\* The positions where a handler has found the file, is between the copy and the version
\* that names it, has both, has cleared the place, has written, or is about to rename.
HasFile(x) == \/ x.op = "save" /\ x.pc \in (2 .. 6) \cup {9}
              \/ x.op \in {"upload", "chunked"} /\ x.pc \in 3 .. 7
              \/ x.op = "version" /\ x.pc \in 2 .. 7
Copies(x) == \/ x.op = "save" /\ x.pc \in 4 .. 5
             \/ x.op \in {"upload", "chunked", "version"} /\ x.pc \in 5 .. 6
Backs(x) == \/ x.op = "save" /\ x.pc \in 6 .. 9
            \/ x.op \in {"upload", "chunked", "version"} /\ x.pc = 7
Clears(x) == \/ x.op = "upload" /\ x.pc \in 8 .. 12
             \/ x.op = "chunked" /\ x.pc \in 8 .. 10
Wrote(x) == \/ x.op = "upload" /\ x.pc = 12
            \/ x.op = "chunked" /\ x.pc = 10
Leaves(x) == \/ x.op = "rename" /\ x.pc \in 3 .. 4
             \/ x.op = "move" /\ x.pc \in 4 .. 5
CopyOf(r, e) == [path |-> Blob(r), data |-> e.data]

\* What is true at these positions.
FileAt(s, p) == \E w \in s.rows : w.path = p /\ w.dir = FALSE /\ w.deleted = FALSE
CopyThere(s, r, p) == \A e \in FileOn(s.disk, p) : CopyOf(r, e) \in s.disk
Prepared(s, r, x) ==
  /\ HasFile(x) => FileAt(s, x.path)
  /\ Copies(x) \/ Backs(x) => CopyThere(s, r, x.path)
  /\ Backs(x) /\ FileOn(s.disk, x.path) # {} => \E v \in s.versions : v.ref = r /\ v.path = x.path
  /\ Clears(x) => \A w \in s.rows : w.path # x.path
  /\ Wrote(x) => [path |-> x.path, data |-> r] \in s.disk
  /\ Leaves(x) => x.path # x.dest

\* A step of r leaves alone what another handler has prepared.
LEMMA PreparedStays ==
  ASSUME LikeIsExact, MarksIInv, Apart, Situated, Named, NEW r \in Requests, Step(r),
         NEW o \in Requests \ {r}, InFlight(o), Prepared(store, o, req[o])
  PROVE  Prepared(store', o, req[o])
<1> DEFINE x == req[r]
           z == req[o]
           p == z.path
           d == store.disk
           d1 == store'.disk
<1>1. /\ InFlight(r) /\ IInv /\ RequestsInv /\ SidesInv /\ RequestNamed(z)
      /\ z.op \in Ops /\ z.pc \in 1 .. Len(Plan(z.op)) /\ z.pc \in Nat
      /\ x.op \in Ops /\ x.pc \in 1 .. Len(Plan(x.op)) /\ HasRefs(store.versions, x)
  BY StepLabel DEF MarksIInv, IInv, Named, InFlight, RequestsInv, Knows, RequestType, Situated
<1>2. /\ ~Related(p, x.path) /\ ~Related(p, x.dest) /\ ~Related(x.path, p) /\ ~Related(x.dest, p)
      /\ ~FP!AtOrBelow(x.path, p) /\ ~FP!AtOrBelow(x.dest, p)
  BY <1>1, Distant
<1>3. /\ p \in Path /\ Len(p) >= 1 /\ x.path \in Path /\ x.dest \in Path
      /\ o \in Contents /\ o \in Refs /\ o # DIR /\ x.found \in SUBSET VersionType
      /\ p[1] # VERSIONS
  BY <1>1, RequestPaths, StorageAssumption DEF SidesInv, Sided
<1>4. HasFile(z) => FileAt(store', p)
  <2> SUFFICES ASSUME HasFile(z) PROVE FileAt(store', p)
    OBVIOUS
  <2>1. PICK w \in store.rows : w.path = p /\ w.dir = FALSE /\ w.deleted = FALSE
    BY DEF Prepared, FileAt
  <2>2. PICK t \in store'.rows : t.path = w.path /\ t.dir = w.dir /\ t.deleted = w.deleted
    BY <1>1, <1>2, <2>1, RowsStay
  <2> QED
    BY <2>1, <2>2 DEF FileAt
<1>f. Copies(z) \/ Backs(z) \/ Wrote(z) => Fresh(p)
  BY <1>1 DEF Copies, Backs, Wrote, RequestNamed
<1>5. Fresh(p) => FileOn(d1, p) \subseteq FileOn(d, p)
  <2> SUFFICES ASSUME Fresh(p), NEW e \in d1, e.path = p, e.data # DIR, e \notin d PROVE FALSE
    BY DEF FileOn
  <2>1. e.path # Blob(r)
    BY <1>3 DEF Blob
  <2>2. e.path # Part(r)
    <3>1. /\ Part(r)[Len(x.path)] = r /\ Len(Part(r)) = Len(x.path) /\ Len(x.path) \in Nat
          /\ Len(x.path) >= 1
      BY <1>1, PartPath
    <3> QED
      BY <3>1 DEF Fresh
  <2> QED
    BY <1>1, <1>2, <2>1, <2>2, DiskAppears
<1>6. Copies(z) \/ Backs(z) => CopyThere(store', o, p)
  <2> SUFFICES ASSUME Copies(z) \/ Backs(z), NEW e \in FileOn(d, p)
               PROVE  CopyOf(o, e) \in d1
    BY <1>5, <1>f DEF CopyThere
  <2> DEFINE b == CopyOf(o, e)
  <2>1. b \in d /\ b.path = Blob(o) /\ b.data = e.data /\ e.data # DIR
    BY DEF Prepared, CopyThere, CopyOf, FileOn
  <2> HIDE DEF b
  <2>2. ASSUME At(r, "remove_blobs"), NEW v \in x.found, v.ref = o PROVE FALSE
    <3>1. x.op = "purge" /\ x.pc = 4
      BY <1>1, <2>2, Positions DEF At
    <3>2. \A w \in store.versions : w.ref # o
      BY <1>1, <2>2, <3>1 DEF HasRefs
    <3>3. CASE Copies(z)
      <4>1. ~Spent(z)
        BY <1>1, <3>3 DEF Spent, PastInsert, Copies
      <4> QED
        BY <2>2, <4>1 DEF MarksIInv, DrawsInv
    <3>4. CASE Backs(z)
      BY <3>2, <3>4 DEF Prepared
    <3> QED
      BY <3>3, <3>4
  <2> QED
    BY <1>1, <1>3, <2>1, <2>2, BlobLost DEF b
<1>7. ASSUME Backs(z), FileOn(d1, p) # {}
      PROVE  \E v \in store'.versions : v.ref = o /\ v.path = p
  <2>1. FileOn(d, p) # {}
    BY <1>5, <1>f, <1>7
  <2>2. PICK v \in store.versions : v.ref = o /\ v.path = p
    BY <1>7, <2>1 DEF Prepared
  <2>3. v \in store'.versions
    BY <1>1, <1>2, <2>2, VersionsStay
  <2> QED
    BY <2>2, <2>3
<1>8. ASSUME Clears(z), NEW w \in store'.rows, w.path = p PROVE FALSE
  <2>1. \A t \in store.rows : t.path # p /\ t.path \in Path
    BY <1>1, <1>8, SameTypes DEF Prepared, IInv, FP!StoreInv, FP!RowsInv, RowType
  <2>2. w.path # x.path
    BY <1>2, <1>8 DEF FP!AtOrBelow
  <2>3. \A t \in store.rows : w.path # MovedPath(x.path, x.dest, x.dir, t.path)
    <3> SUFFICES ASSUME NEW t \in store.rows, p = MovedPath(x.path, x.dest, x.dir, t.path) PROVE FALSE
      BY <1>8
    <3> DEFINE m == MovedPath(x.path, x.dest, x.dir, t.path)
    <3>1. m = t.path \/ FP!AtOrBelow(x.dest, m)
      BY <1>3, <2>1, MovedAt
    <3> QED
      BY <1>2, <2>1, <3>1
  <2> QED
    BY <1>1, <1>8, <2>1, <2>2, <2>3, RowSources
<1>9. Wrote(z) => [path |-> p, data |-> o] \in d1
  <2> DEFINE e == [path |-> p, data |-> o]
  <2> SUFFICES ASSUME Wrote(z), e \notin d1 PROVE FALSE
    OBVIOUS
  <2>1. e \in d /\ e.data # DIR /\ e.path = p
    BY <1>3 DEF Prepared
  <2>2. Fresh(p) /\ FP!AtOrBelow(p, e.path)
    BY <1>f DEF FP!AtOrBelow
  <2> HIDE DEF e
  <2>3. Related(x.path, p) \/ Related(x.dest, p)
    BY <1>1, <1>3, <2>1, <2>2, HitsRelated
  <2> QED
    BY <1>2, <2>3
<1>10. Leaves(z) => p # z.dest
  BY DEF Prepared
<1> QED
  BY <1>4, <1>6, <1>7, <1>8, <1>9, <1>10 DEF Prepared

\* What a step of r that does not fail found or did.
Did(r) ==
  LET x == req[r]
      p == x.path
      d == store.disk
      n == req'[r].pc - x.pc
      part == FileOn(d, Part(r))
  IN  /\ At(r, "find_file") => IsFile(store, p)
      /\ At(r, "find_existing") => (n = 1 /\ IsFile(store, p)) \/ (n = 7 /\ ~Live(store, p))
      /\ At(r, "find_none") => ~Live(store, x.dest)
      /\ At(r, "read_current") => (n = 1 /\ IsFile(store, p)) \/ (n = 4 /\ ~IsFile(store, p))
      /\ At(r, "copy_blob") =>
           /\ n = 1 \/ FileOn(d, p) = {}
           /\ store'.disk = d \cup {[e EXCEPT !.path = Blob(r)] : e \in FileOn(d, p)}
      /\ At(r, "insert_version") => store'.versions = store.versions \cup {NewVersion(r)}
      /\ At(r, "delete_row") => store'.rows = {w \in store.rows : ~Covers(p, w.path)}
      /\ At(r, "insert_first") => \E dir, sum :
           /\ store'.rows = store.rows \cup {NewRow(p, dir, sum, x.node)}
           /\ x.op # "folder" => dir = FALSE
      /\ At(r, "insert_row") =>
           /\ store'.rows = store.rows \cup {NewRow(p, FALSE, r, x.node)} /\ store'.disk = d
      /\ At(r, "replace") => store'.disk = WriteFile(d \ part, p, r)
      /\ At(r, "adopt") \/ At(r, "write_bytes") => store'.disk = WriteFile(d, p, r)
      /\ At(r, "rename_on_disk") =>
           /\ store'.disk = RenameOn(d, p, x.dest) /\ lock = NoOne
           /\ ~RelocateFails(store, p, x.dest, x.dir)

\* Every step that does not fail did so.
LEMMA Outcome ==
  ASSUME IInv, NEW r \in Requests, Step(r), req'[r].status # "failed"
  PROVE  Did(r)
<1> DEFINE x == req[r]
           p == x.path
           d == store.disk
           n == req'[r].pc - x.pc
<1>1. /\ InFlight(r) /\ RequestsInv /\ store \in StoreType /\ x \in RequestType /\ x.pc \in Nat
      /\ req \in [Requests -> RequestType] /\ ~Fails(r)
  <2>1. InFlight(r) /\ RequestsInv /\ store \in StoreType
    BY StepLabel, SameTypes DEF IInv, FP!StoreInv
  <2>2. x \in RequestType /\ req \in [Requests -> RequestType]
    BY <2>1 DEF RequestsInv
  <2>3. x.pc \in Nat
    BY <2>2 DEF RequestType
  <2>4. ~Fails(r)
    BY <2>2, Failed
  <2> QED
    BY <2>1, <2>2, <2>3, <2>4
<1>p. /\ \A s : store' = [store EXCEPT !.disk = s] => store'.disk = s
      /\ \A a : store' = [store EXCEPT !.rows = a] => store'.rows = a /\ store'.disk = d
      /\ \A a : store' = [store EXCEPT !.versions = a] => store'.versions = a
  <2>1. /\ \A a : [store EXCEPT !.disk = a].disk = a
        /\ \A a : [store EXCEPT !.rows = a].rows = a /\ [store EXCEPT !.rows = a].disk = d
        /\ \A a : [store EXCEPT !.versions = a].versions = a
    BY <1>1, StoreParts
  <2> QED
    BY <2>1, Zenon
<1>r. \A y \in RequestType, k \in Nat : Resume(r, y, k) => req'[r].pc = y.pc + k
  <2> SUFFICES ASSUME NEW y \in RequestType, NEW k \in Nat, Resume(r, y, k)
               PROVE  req'[r].pc = y.pc + k
    OBVIOUS
  <2> QED
    BY <1>1, Resumed
<1>s. \A k \in Nat : Resume(r, x, k) => n = k
  BY <1>1, <1>r
<1>l. \A z : Resume(r, z, 1) /\ (\E a : z = [x EXCEPT !.node = a] \/ z = [x EXCEPT !.sum = a]) => n = 1
  <2> SUFFICES ASSUME NEW z, Resume(r, z, 1), NEW a, z = [x EXCEPT !.node = a] \/ z = [x EXCEPT !.sum = a]
               PROVE  n = 1
    OBVIOUS
  <2>1. PICK b : req'[r] = [z EXCEPT !.pc = z.pc + 1, !.status = b]
    BY <1>1 DEF Resume
  <2>2. z.pc = x.pc /\ z = [z EXCEPT !.pc = z.pc] /\ DOMAIN z = DOMAIN x /\ "pc" \in DOMAIN x
    BY <1>1 DEF RequestType
  <2>3. [z EXCEPT !.pc = z.pc + 1, !.status = b].pc = z.pc + 1
    BY <2>2
  <2> QED
    BY <1>1, <2>1, <2>2, <2>3
<1>2. At(r, "find_file") => IsFile(store, p)
  BY <1>1, StepLabel, Zenon DEF FindFile
<1>3. At(r, "find_existing") => (n = 1 /\ IsFile(store, p)) \/ (n = 7 /\ ~Live(store, p))
  <2> SUFFICES ASSUME At(r, "find_existing")
               PROVE  (n = 1 /\ IsFile(store, p)) \/ (n = 7 /\ ~Live(store, p))
    OBVIOUS
  <2>1. \/ ~Live(store, p) /\ Resume(r, x, 7)
        \/ IsFile(store, p) /\ \E z, a : Resume(r, z, 1) /\ z = [x EXCEPT !.node = a]
    BY <1>1, StepLabel, Zenon DEF FindExisting, Learns
  <2> QED
    BY <1>s, <1>l, <2>1
<1>4. At(r, "find_none") => ~Live(store, x.dest)
  BY <1>1, StepLabel, Zenon DEF FindNone
<1>5. At(r, "read_current") => (n = 1 /\ IsFile(store, p)) \/ (n = 4 /\ ~IsFile(store, p))
  <2> SUFFICES ASSUME At(r, "read_current")
               PROVE  (n = 1 /\ IsFile(store, p)) \/ (n = 4 /\ ~IsFile(store, p))
    OBVIOUS
  <2>1. \/ ~IsFile(store, p) /\ Resume(r, x, 4)
        \/ IsFile(store, p) /\ \E z, a : Resume(r, z, 1) /\ z = [x EXCEPT !.sum = a]
    BY <1>1, StepLabel, Zenon DEF ReadCurrent, Learns
  <2> QED
    BY <1>s, <1>l, <2>1
<1>6. At(r, "copy_blob") =>
        /\ n = 1 \/ FileOn(d, p) = {}
        /\ store'.disk = d \cup {[e EXCEPT !.path = Blob(r)] : e \in FileOn(d, p)}
  <2>1. ASSUME At(r, "copy_blob"), FileOn(d, p) # {} PROVE n = 1
    <3>1. Resume(r, x, 1)
      BY <1>1, <2>1, StepLabel, Zenon DEF CopyBlob, Goes
    <3> QED
      BY <1>s, <3>1
  <2>2. ASSUME At(r, "copy_blob")
        PROVE  store'.disk = d \cup {[e EXCEPT !.path = Blob(r)] : e \in FileOn(d, p)}
    <3>1. store' = [store EXCEPT !.disk = d \cup {[e EXCEPT !.path = Blob(r)] : e \in FileOn(d, p)}]
      BY <1>1, <2>2, StepLabel, Zenon DEF CopyBlob, Becomes
    <3> QED
      BY <1>p, <3>1
  <2> QED
    BY <2>1, <2>2
<1>7. At(r, "insert_version") => store'.versions = store.versions \cup {NewVersion(r)}
  <2> SUFFICES ASSUME At(r, "insert_version")
               PROVE  store'.versions = store.versions \cup {NewVersion(r)}
    OBVIOUS
  <2>1. store' = [store EXCEPT !.versions = store.versions \cup {NewVersion(r)}]
    BY <1>1, StepLabel, Zenon DEF InsertVersion, Commits, GivesUp, Becomes, NewVersion
  <2> QED
    BY <1>p, <2>1
<1>8. At(r, "delete_row") => store'.rows = {w \in store.rows : ~Covers(p, w.path)}
  <2> SUFFICES ASSUME At(r, "delete_row")
               PROVE  store'.rows = {w \in store.rows : ~Covers(p, w.path)}
    OBVIOUS
  <2>1. store' = [store EXCEPT !.rows = {w \in store.rows : ~Covers(p, w.path)}]
    BY <1>1, StepLabel, Zenon DEF DeleteRow, Commits, GivesUp, Becomes
  <2> QED
    BY <1>p, <2>1
<1>9. At(r, "insert_first") => \E dir, sum :
           /\ store'.rows = store.rows \cup {NewRow(p, dir, sum, x.node)}
           /\ x.op # "folder" => dir = FALSE
  <2> SUFFICES ASSUME At(r, "insert_first")
               PROVE  \E dir, sum : /\ store'.rows = store.rows \cup {NewRow(p, dir, sum, x.node)}
                                    /\ x.op # "folder" => dir = FALSE
    OBVIOUS
  <2> DEFINE b == x.op = "folder"
             c == IF b THEN NoSum ELSE r
  <2>1. store' = [store EXCEPT !.rows = store.rows \cup {NewRow(p, b, c, x.node)}]
    BY <1>1, StepLabel, Zenon DEF InsertFirst, Commits, GivesUp, Becomes
  <2>2. store'.rows = store.rows \cup {NewRow(p, b, c, x.node)}
    BY <1>p, <2>1
  <2>3. x.op # "folder" => b = FALSE
    OBVIOUS
  <2> QED
    BY <2>2, <2>3, Zenon
<1>10. At(r, "insert_row") =>
           /\ store'.rows = store.rows \cup {NewRow(p, FALSE, r, x.node)} /\ store'.disk = d
  <2> SUFFICES ASSUME At(r, "insert_row")
               PROVE  /\ store'.rows = store.rows \cup {NewRow(p, FALSE, r, x.node)} /\ store'.disk = d
    OBVIOUS
  <2>1. store' = [store EXCEPT !.rows = store.rows \cup {NewRow(p, FALSE, r, x.node)}]
    BY <1>1, StepLabel, Zenon DEF InsertRow, Commits, GivesUp, Becomes
  <2> QED
    BY <1>p, <2>1
<1>11. At(r, "replace") => store'.disk = WriteFile(d \ FileOn(d, Part(r)), p, r)
  <2> SUFFICES ASSUME At(r, "replace")
               PROVE  store'.disk = WriteFile(d \ FileOn(d, Part(r)), p, r)
    OBVIOUS
  <2>1. store' = [store EXCEPT !.disk = WriteFile(d \ FileOn(d, Part(r)), p, r)]
    BY <1>1, StepLabel, Zenon DEF Replace, Becomes
  <2> QED
    BY <1>p, <2>1
<1>12. At(r, "adopt") \/ At(r, "write_bytes") => store'.disk = WriteFile(d, p, r)
  <2> SUFFICES ASSUME At(r, "adopt") \/ At(r, "write_bytes")
               PROVE  store'.disk = WriteFile(d, p, r)
    OBVIOUS
  <2>1. store' = [store EXCEPT !.disk = WriteFile(d, p, r)]
    BY <1>1, StepLabel, Zenon DEF Adopt, WriteBytes, Becomes
  <2> QED
    BY <1>p, <2>1
<1>13. At(r, "rename_on_disk") =>
           /\ store'.disk = RenameOn(d, p, x.dest) /\ lock = NoOne
           /\ ~RelocateFails(store, p, x.dest, x.dir)
  <2> SUFFICES ASSUME At(r, "rename_on_disk")
               PROVE  /\ store'.disk = RenameOn(d, p, x.dest) /\ lock = NoOne
                      /\ ~RelocateFails(store, p, x.dest, x.dir)
    OBVIOUS
  <2>1. /\ store' = [store EXCEPT !.disk = RenameOn(d, p, x.dest)] /\ lock = NoOne
        /\ ~RelocateFails(store, p, x.dest, x.dir)
    BY <1>1, StepLabel, Zenon DEF RenameOnDisk, GivesUp
  <2> QED
    BY <1>p, <2>1
<1> QED
  BY <1>2, <1>3, <1>4, <1>5, <1>6, <1>7, <1>8, <1>9, <1>10, <1>11, <1>12, <1>13, Zenon DEF Did

\* The statements that change the rows.
Adders == {"delete_row", "insert_row", "insert_first", "update_checksum", "commit"}

\* Which steps lead to the positions where something is prepared.
LEMMA Reaches ==
  ASSUME NEW op \in Ops, NEW pc \in 1 .. Len(Plan(op)), NEW n \in {1, 3, 4, 7},
         n = 7 => Plan(op)[pc] = "find_existing",
         n = 4 => Plan(op)[pc] = "read_current",
         n = 3 => Plan(op)[pc] = "copy_blob",
         NEW x, NEW y, x.op = op, y.op = op, x.pc = pc, y.pc = pc + n
  PROVE  LET L == Plan(op)[pc]
         IN  /\ HasFile(y) => \/ L = "find_file" \/ (L = "find_existing" /\ n = 1)
                              \/ L = "insert_first" /\ op = "save"
                              \/ HasFile(x) /\ L \notin Adders
             /\ Copies(y) => L = "copy_blob" \/ (Copies(x) /\ L = "read_max")
             /\ Backs(y) => \/ L = "copy_blob" /\ n # 1
                            \/ L = "read_current" /\ n = 4 /\ HasFile(x)
                            \/ Copies(x) /\ L = "insert_version"
                            \/ Backs(x) /\ L \in {"delete_row", "remove_bytes", "insert_first"}
             /\ Clears(y) => \/ L = "delete_row"
                             \/ L = "find_existing" /\ n = 7 /\ op \in {"upload", "chunked"}
                             \/ Clears(x) /\ L \notin Adders
             /\ Wrote(y) => L \in {"replace", "adopt"}
             /\ Leaves(y) => /\ pc # 1
                             /\ \/ L = "find_none" /\ op \in {"rename", "move"} /\ MovesLive(x)
                                \/ Leaves(x)
<1> DEFINE L == Plan(op)[pc]
<1>1. /\ L = "find_existing" <=> op \in {"upload", "chunked"} /\ pc = 2
      /\ L = "read_current" <=>
           \/ op = "save" /\ pc = 2
           \/ op \in {"upload", "chunked", "version"} /\ pc = 3
      /\ L = "copy_blob" <=>
           \/ op = "save" /\ pc = 3
           \/ op \in {"upload", "chunked", "version"} /\ pc = 4
      /\ L = "read_max" <=>
           \/ op = "save" /\ pc = 4
           \/ op \in {"upload", "chunked", "version"} /\ pc = 5
      /\ L = "insert_version" <=>
           \/ op = "save" /\ pc = 5
           \/ op \in {"upload", "chunked", "version"} /\ pc = 6
      /\ L = "delete_row" <=>
           \/ op = "purge" /\ pc = 5
           \/ op = "save" /\ pc = 6
           \/ op \in {"upload", "chunked"} /\ pc = 7
  BY Positions
<1>2. /\ L = "remove_bytes" <=>
           \/ op = "save" /\ pc = 7
           \/ op \in {"upload", "chunked"} /\ pc = 8
      /\ L = "replace" <=> op = "upload" /\ pc = 11
      /\ L = "insert_row" <=>
           \/ op = "chunked" /\ pc = 10
           \/ op = "upload" /\ pc = 12
      /\ L = "adopt" <=> op = "chunked" /\ pc = 9
      /\ L = "find_file" <=> op \in {"save", "version"} /\ pc = 1
      /\ L = "insert_first" <=>
           \/ op = "folder" /\ pc = 3
           \/ op = "save" /\ pc = 8
  BY Positions
<1>3. /\ L = "find_none" <=>
           \/ op = "folder" /\ pc = 1
           \/ op \in {"rename", "restore"} /\ pc = 2
           \/ op = "move" /\ pc = 3
      /\ L = "commit" <=>
           \/ op = "delete" /\ pc = 3
           \/ op = "rename" /\ pc = 4
           \/ op \in {"move", "restore"} /\ pc = 5
      /\ L = "update_checksum" <=> op = "version" /\ pc = 8
  BY Positions
<1>4. pc \in Nat /\ pc >= 1
  BY PlanLength
<1> HIDE DEF L
<1>5. /\ n = 7 => op \in {"upload", "chunked"} /\ pc = 2
      /\ n = 4 => \/ op = "save" /\ pc = 2
                  \/ op \in {"upload", "chunked", "version"} /\ pc = 3
      /\ n = 3 => \/ op = "save" /\ pc = 3
                  \/ op \in {"upload", "chunked", "version"} /\ pc = 4
  BY <1>1 DEF L
<1>a. HasFile(y) => \/ L = "find_file" \/ (L = "find_existing" /\ n = 1)
                    \/ L = "insert_first" /\ op = "save"
                    \/ HasFile(x) /\ L \notin Adders
  BY <1>1, <1>2, <1>3, <1>4, <1>5 DEF HasFile, Adders
<1>b. Copies(y) => L = "copy_blob" \/ (Copies(x) /\ L = "read_max")
  BY <1>1, <1>4, <1>5 DEF Copies
<1>c. Backs(y) => \/ L = "copy_blob" /\ n # 1
                  \/ L = "read_current" /\ n = 4 /\ HasFile(x)
                  \/ Copies(x) /\ L = "insert_version"
                  \/ Backs(x) /\ L \in {"delete_row", "remove_bytes", "insert_first"}
  BY <1>1, <1>2, <1>4, <1>5 DEF Backs, Copies, HasFile
<1>d. Clears(y) => \/ L = "delete_row"
                   \/ L = "find_existing" /\ n = 7 /\ op \in {"upload", "chunked"}
                   \/ Clears(x) /\ L \notin Adders
  BY <1>1, <1>2, <1>3, <1>4, <1>5 DEF Clears, Adders
<1>e. Wrote(y) => L \in {"replace", "adopt"}
  BY <1>2, <1>4, <1>5 DEF Wrote
<1>f. Leaves(y) => /\ pc # 1
                   /\ \/ L = "find_none" /\ op \in {"rename", "move"} /\ MovesLive(x)
                      \/ Leaves(x)
  BY <1>3, <1>4, <1>5 DEF Leaves, MovesLive
<1> QED
  BY <1>a, <1>b, <1>c, <1>d, <1>e, <1>f DEF L


\* A step prepares what the position it leads to needs.
LEMMA PreparedOwn ==
  ASSUME LikeIsExact, MarksIInv, Situated, Named, NEW r \in Requests, Step(r), InFlight(r)',
         Prepared(store, r, req[r])
  PROVE  Prepared(store', r, req'[r])
<1> DEFINE x == req[r]
           y == req'[r]
           p == x.path
           d == store.disk
           d1 == store'.disk
           n == y.pc - x.pc
           L == Plan(x.op)[x.pc]
<1>1. /\ InFlight(r) /\ IInv /\ SidesInv /\ RequestsInv /\ Sided(r, x) /\ HasSource(store.rows, x)
      /\ MarksInv(store.rows) /\ y.status # "failed" /\ FP!StoreInv(store)
  BY StepLabel DEF MarksIInv, IInv, SidesInv, Situated, InFlight
<1>2. /\ y.op = x.op /\ y.path = p /\ (x.pc # 1 => y.dest = x.dest)
      /\ n \in {1, 3, 4, 7} /\ Skips(r, n)
      /\ x.pc \in Nat /\ y.pc \in Nat /\ x.op \in Ops /\ x.pc \in 1 .. Len(Plan(x.op))
      /\ y.pc = x.pc + n
  <2>1. /\ y.op = x.op /\ y.path = p
        /\ x.pc \in Nat /\ y.pc \in Nat /\ x.op \in Ops /\ x.pc \in 1 .. Len(Plan(x.op))
        /\ \E k \in {1, 3, 4, 7} : Skips(r, k) /\ y.pc = x.pc + k
    BY <1>1, StepFields
  <2>2. x.pc # 1 => y.dest = x.dest
    BY <1>1, StepFields
  <2>3. PICK k \in {1, 3, 4, 7} : Skips(r, k) /\ y.pc = x.pc + k
    BY <2>1
  <2>4. n = k
    BY <2>1, <2>3
  <2> QED
    BY <2>1, <2>2, <2>3, <2>4
<1>3. /\ At(r, L) /\ \A label : At(r, label) <=> label = L
  BY <1>1 DEF At
<1>4. Did(r)
  BY <1>1, Outcome
<1>5. /\ p \in Path /\ Len(p) >= 1 /\ r \in Refs /\ r \in Contents /\ r # DIR
      /\ p[1] # VERSIONS
  BY <1>1, RequestPaths, StorageAssumption DEF Sided
<1>6. /\ L \notin Adders
           => store'.rows = store.rows
      /\ L \notin {"insert_version", "delete_versions", "commit"}
           => store'.versions = store.versions
  BY <1>1, <1>3, TablesSteady DEF Adders
<1>7. /\ HasFile(y) => \/ L = "find_file" \/ (L = "find_existing" /\ n = 1)
                       \/ L = "insert_first" /\ x.op = "save"
                       \/ HasFile(x) /\ L \notin Adders
      /\ Copies(y) => L = "copy_blob" \/ (Copies(x) /\ L = "read_max")
      /\ Backs(y) => \/ L = "copy_blob" /\ n # 1
                     \/ L = "read_current" /\ n = 4 /\ HasFile(x)
                     \/ Copies(x) /\ L = "insert_version"
                     \/ Backs(x) /\ L \in {"delete_row", "remove_bytes", "insert_first"}
      /\ Clears(y) => \/ L = "delete_row"
                      \/ L = "find_existing" /\ n = 7 /\ x.op \in {"upload", "chunked"}
                      \/ Clears(x) /\ L \notin Adders
      /\ Wrote(y) => L \in {"replace", "adopt"}
      /\ Leaves(y) => /\ x.pc # 1
                      /\ \/ L = "find_none" /\ x.op \in {"rename", "move"} /\ MovesLive(x)
                         \/ Leaves(x)
  <2>1. /\ n = 7 => L = "find_existing"
        /\ n = 4 => L = "read_current"
        /\ n = 3 => L = "copy_blob"
    BY <1>2, <1>3 DEF Skips
  <2> HIDE DEF x, y, n
  <2> QED
    BY <1>2, <2>1, Reaches
<1>8. IsFile(store, p) => FileAt(store, p)
  BY <1>1 DEF IsFile, FileAt, FP!StoreInv, FP!RowsInv, FP!RowType
<1>9. FileAt(store, p) => IsFile(store, p)
  BY DEF IsFile, FileAt
<1> HIDE DEF L
<1>10. HasFile(y) => FileAt(store', p)
  <2> SUFFICES ASSUME HasFile(y) PROVE FileAt(store', p)
    OBVIOUS
  <2>1. CASE L = "find_file" \/ (L = "find_existing" /\ n = 1)
    <3>1. IsFile(store, p)
      BY <1>2, <1>3, <1>4, <2>1 DEF Did
    <3>2. store'.rows = store.rows
      BY <1>6, <2>1 DEF Adders
    <3> QED
      BY <1>8, <3>1, <3>2 DEF FileAt
  <2>2. CASE L = "insert_first" /\ x.op = "save"
    <3>1. PICK dir, sum : /\ store'.rows = store.rows \cup {NewRow(p, dir, sum, x.node)}
                          /\ dir = FALSE
      BY <1>3, <1>4, <2>2 DEF Did
    <3>2. NewRow(p, dir, sum, x.node) \in store'.rows
      BY <3>1
    <3>3. NewRow(p, dir, sum, x.node).path = p /\ NewRow(p, dir, sum, x.node).dir = dir
          /\ NewRow(p, dir, sum, x.node).deleted = FALSE
      BY DEF NewRow
    <3> QED
      BY <3>1, <3>2, <3>3 DEF FileAt
  <2>3. CASE HasFile(x) /\ L \notin Adders
    BY <1>6, <2>3 DEF Prepared, FileAt
  <2> QED
    BY <1>7, <2>1, <2>2, <2>3
<1>11. Copies(y) \/ Backs(y) => CopyThere(store', r, p)
  <2> SUFFICES ASSUME Copies(y) \/ Backs(y), NEW e \in FileOn(d1, p)
               PROVE  CopyOf(r, e) \in d1
    BY DEF CopyThere
  <2>1. CASE L = "copy_blob"
    <3>1. d1 = d \cup {[b EXCEPT !.path = Blob(r)] : b \in FileOn(d, p)}
      BY <1>3, <1>4, <2>1 DEF Did
    <3>2. \A b \in FileOn(d, p) : [b EXCEPT !.path = Blob(r)].path = Blob(r)
                                  /\ [b EXCEPT !.path = Blob(r)] = CopyOf(r, b)
      BY <1>1, DiskType DEF EntryType, FileOn, CopyOf
    <3>3. p # Blob(r)
      BY <1>5, OffBlob
    <3>4. e \in FileOn(d, p)
      BY <3>1, <3>2, <3>3 DEF FileOn
    <3> QED
      BY <3>1, <3>2, <3>4
  <2>2. CASE L = "read_current" /\ n = 4 /\ HasFile(x)
    <3>1. ~IsFile(store, p)
      BY <1>3, <1>4, <2>2 DEF Did
    <3> QED
      BY <1>9, <2>2, <3>1 DEF Prepared
  <2>3. CASE /\ Copies(x) \/ Backs(x)
             /\ L \in {"read_max", "insert_version", "delete_row", "remove_bytes", "insert_first"}
    <3>1. d1 = d \/ d1 = RemoveFileOn(d, p)
      BY <1>1, <1>3, <2>3, StepDisk DEF DiskChange
    <3>2. e \in FileOn(d, p)
      BY <3>1 DEF FileOn, RemoveFileOn
    <3>3. CopyOf(r, e) \in d
      BY <2>3, <3>2 DEF Prepared, CopyThere
    <3>4. CopyOf(r, e).path = Blob(r) /\ Blob(r) # p
      BY <1>5, OffBlob DEF CopyOf
    <3> QED
      BY <3>1, <3>3, <3>4 DEF RemoveFileOn, FileOn
  <2> QED
    BY <1>7, <2>1, <2>2, <2>3
<1>12. ASSUME Backs(y), FileOn(d1, p) # {}
       PROVE  \E v \in store'.versions : v.ref = r /\ v.path = p
  <2>1. CASE L = "copy_blob" /\ n # 1
    <3>1. FileOn(d, p) = {}
      BY <1>3, <1>4, <2>1 DEF Did
    <3>2. d1 = d \cup {[b EXCEPT !.path = Blob(r)] : b \in FileOn(d, p)}
      BY <1>3, <1>4, <2>1 DEF Did
    <3>3. d1 = d
      BY <3>1, <3>2
    <3> QED
      BY <1>12, <3>1, <3>3
  <2>2. CASE L = "read_current" /\ n = 4 /\ HasFile(x)
    <3>1. ~IsFile(store, p)
      BY <1>3, <1>4, <2>2 DEF Did
    <3> QED
      BY <1>9, <2>2, <3>1 DEF Prepared
  <2>3. CASE Copies(x) /\ L = "insert_version"
    <3>1. store'.versions = store.versions \cup {NewVersion(r)}
      BY <1>3, <1>4, <2>3 DEF Did
    <3>2. NewVersion(r).ref = r /\ NewVersion(r).path = p
      BY DEF NewVersion
    <3> QED
      BY <3>1, <3>2
  <2>4. CASE Backs(x) /\ L \in {"delete_row", "remove_bytes", "insert_first"}
    <3>1. d1 = d \/ d1 = RemoveFileOn(d, p)
      BY <1>1, <1>3, <2>4, StepDisk DEF DiskChange
    <3>2. FileOn(d, p) # {}
      BY <1>12, <3>1 DEF FileOn, RemoveFileOn
    <3>3. store'.versions = store.versions
      BY <1>6, <2>4
    <3> QED
      BY <2>4, <3>2, <3>3 DEF Prepared
  <2> QED
    BY <1>7, <1>12, <2>1, <2>2, <2>3, <2>4
<1>13. ASSUME Clears(y), NEW w \in store'.rows, w.path = p PROVE FALSE
  <2>1. CASE L = "delete_row"
    <3>1. store'.rows = {t \in store.rows : ~Covers(p, t.path)}
      BY <1>3, <1>4, <2>1 DEF Did
    <3> QED
      BY <1>13, <3>1 DEF Covers
  <2>2. CASE L = "find_existing" /\ n = 7 /\ x.op \in {"upload", "chunked"}
    <3>1. ~Live(store, p)
      BY <1>3, <1>4, <2>2 DEF Did
    <3>2. store'.rows = store.rows
      BY <1>6, <2>2 DEF Adders
    <3>3. p[1] # TRASH
      BY <1>1, <2>2 DEF Sided
    <3>4. w \in store.rows /\ w.deleted
      BY <1>13, <3>1, <3>2 DEF Live
    <3> QED
      BY <1>1, <1>13, <3>3, <3>4 DEF MarksInv, FP!TrashInv
  <2>3. CASE Clears(x) /\ L \notin Adders
    BY <1>6, <1>13, <2>3 DEF Prepared
  <2> QED
    BY <1>7, <1>13, <2>1, <2>2, <2>3
<1>14. Wrote(y) => [path |-> p, data |-> r] \in d1
  <2> SUFFICES ASSUME Wrote(y) PROVE [path |-> p, data |-> r] \in d1
    OBVIOUS
  <2>1. d1 = WriteFile(d, p, r) \/ d1 = WriteFile(d \ FileOn(d, Part(r)), p, r)
    BY <1>3, <1>4, <1>7 DEF Did
  <2> QED
    BY <2>1 DEF WriteFile
<1>15. Leaves(y) => p # y.dest
  <2> SUFFICES ASSUME Leaves(y) PROVE p # x.dest
    BY <1>2, <1>7
  <2>1. CASE L = "find_none" /\ x.op \in {"rename", "move"} /\ MovesLive(x)
    <3>1. ~Live(store, x.dest)
      BY <1>3, <1>4, <2>1 DEF Did
    <3>2. Live(store, p)
      BY <1>1, <2>1 DEF HasSource, Live
    <3> QED
      BY <3>1, <3>2
  <2>2. CASE Leaves(x)
    BY <2>2 DEF Prepared
  <2> QED
    BY <1>7, <2>1, <2>2
<1> QED
  BY <1>2, <1>10, <1>11, <1>12, <1>13, <1>14, <1>15 DEF Prepared

----------------------------------------------------------------------------
(* What keeps an entry of the disk from being the last one with its        *)
(* bytes.  The bytes c are kept when an entry holds them that a row leads  *)
(* to, or a version, or that a relocation has on its way, or that a        *)
(* relocation left where it died.                                          *)

\* Every handler in flight is prepared for its position, and stays so.
Ready == \A r \in Requests : InFlight(r) => Prepared(store, r, req[r])

LEMMA ReadyStep ==
  ASSUME LikeIsExact, MarksIInv, Apart, Situated, Named, Ready, NEW r \in Requests, Step(r)
  PROVE  Ready'
<1> SUFFICES ASSUME NEW o \in Requests, InFlight(o)' PROVE Prepared(store', o, req'[o])
  BY DEF Ready
<1>1. InFlight(r) /\ IInv /\ Prepared(store, r, req[r])
  BY StepLabel DEF Ready, MarksIInv
<1>2. CASE o = r
  BY <1>1, <1>2, PreparedOwn
<1>3. CASE o # r
  <2>1. req'[o] = req[o]
    BY <1>1, <1>3, StepFields
  <2>2. InFlight(o) /\ Prepared(store, o, req[o])
    BY <2>1 DEF InFlight, Ready
  <2>3. Prepared(store', o, req[o])
    BY <1>3, <2>2, PreparedStays
  <2> QED
    BY <2>1, <2>3
<1> QED
  BY <1>2, <1>3

Spared(p) == p[1] # TRASH \/ \E r \in Requests : req[r].op = "delete" /\ FP!AtOrBelow(req[r].dest, p)
Takes(x, p) == p = x.path \/ (x.dir /\ Below(x.path, p))
Rowed(e) == /\ \E w \in store.rows : w.path = e.path /\ w.dir = FALSE
            /\ Spared(e.path)
            /\ \A r \in Requests : At(r, "commit") => ~FP!AtOrBelow(req[r].path, e.path)
Blobbed(e) == \E v \in store.versions : e.path = Blob(v.ref) /\ Spared(v.path)
Underway(e) == \E r \in Requests :
  /\ At(r, "commit")
  /\ \E w \in store.rows : /\ w.dir = FALSE /\ Takes(req[r], w.path)
                           /\ e.path = MovedPath(req[r].path, req[r].dest, req[r].dir, w.path)
Stranded(e) == \E r \in Requests : CutShort(r) /\ FP!AtOrBelow(req[r].dest, e.path)
Keeper(e) == e.data # DIR /\ (Rowed(e) \/ Blobbed(e) \/ Underway(e) \/ Stranded(e))
Kept(c) == \E e \in store.disk : e.data = c /\ Keeper(e)

\* The inductive invariant of the bytes.
BytesIInv ==
  /\ QuietIInv
  /\ ~overlap => /\ Named /\ Ready
                 /\ ~Forfeited => \A c \in Stored : Kept(c)

\* What is out of a purge's reach stays so.
LEMMA SparedStays ==
  ASSUME IInv, NEW r \in Requests, Step(r), NEW p, Spared(p)
  PROVE  Spared(p)'
<1>1. \A o \in Requests : req'[o].op = req[o].op /\ (req[o].op = "delete" => req'[o].dest = req[o].dest)
  <2>1. /\ req'[r].op = req[r].op
        /\ req[r].op # "restore" => req'[r].dest = req[r].dest
        /\ \A o \in Requests \ {r} : req'[o] = req[o]
    BY StepFields
  <2> QED
    BY <2>1
<1> QED
  BY <1>1 DEF Spared

\* What a purge covers is not spared: or the bytes are forfeited.
LEMMA NotPurged ==
  ASSUME RequestsInv, SidesInv, ~Forfeited, NEW r \in Requests, InFlight(r), req[r].op = "purge",
         NEW p \in Path, Len(p) >= 1, FP!AtOrBelow(req[r].path, p)
  PROVE  ~Spared(p)
<1> SUFFICES ASSUME Spared(p) PROVE FALSE
  OBVIOUS
<1>1. req[r].path \in Path /\ Len(req[r].path) >= 1 /\ req[r].path[1] = TRASH
  BY RequestPaths DEF SidesInv, Sided
<1>2. p[1] = TRASH
  <2>1. \A i \in 1 .. Len(req[r].path) : p[i] = req[r].path[i]
    BY <1>1, PathOrder
  <2>2. 1 \in 1 .. Len(req[r].path)
    BY <1>1, LongPath
  <2> QED
    BY <1>1, <2>1, <2>2
<1>3. PICK o \in Requests : req[o].op = "delete" /\ FP!AtOrBelow(req[o].dest, p)
  BY <1>2 DEF Spared
<1>4. req[o].dest \in Path
  BY DEF RequestsInv, RequestType
<1>5. Related(req[r].path, req[o].dest)
  BY <1>1, <1>3, <1>4, PathOrder
<1>6. o # r /\ Touches(r, req[o].dest)
  BY <1>3, <1>5 DEF Touches, InFlight
<1> QED
  BY <1>3, <1>6 DEF Forfeited

\* Who holds the transaction of a relocation after a step.
LEMMA NewCommit ==
  ASSUME IInv, NEW r \in Requests, Step(r), NEW o \in Requests, At(o, "commit")'
  PROVE  /\ req'[o].op = req[o].op /\ req'[o].path = req[o].path /\ req'[o].dest = req[o].dest
         /\ req'[o].dir = req[o].dir
         /\ \/ At(o, "commit") /\ o # r
            \/ o = r /\ At(r, "rename_on_disk") /\ lock = NoOne /\ lock' = r
<1>1. InFlight(r) /\ RequestsInv /\ RequestsInv' /\ LockInv' /\ IInv'
  <2>1. IInv'
    BY StepStep
  <2> QED
    BY <2>1, StepLabel DEF IInv
<1>2. lock' = o
  <2>1. /\ req'[o].op \in Ops /\ req'[o].pc \in 1 .. Len(Plan(req'[o].op))
        /\ Plan(req'[o].op)[req'[o].pc] = "commit" /\ InFlight(o)'
    BY <1>1 DEF RequestsInv, Knows, InFlight, At
  <2>2. Committing(req'[o].op, req'[o].pc)
    BY <2>1, Positions DEF Committing
  <2> QED
    BY <1>1, <2>1, <2>2 DEF LockInv
<1>3. CASE o # r
  <2>1. req'[o] = req[o]
    BY <1>1, <1>3, StepFields
  <2> QED
    BY <1>3, <2>1 DEF At, InFlight
<1>4. CASE o = r
  <2>1. InFlight(r)'
    BY <1>4 DEF At, InFlight
  <2>2. PICK n \in {1, 3, 4, 7} :
           /\ n # 1 => req[r].op \in {"upload", "chunked", "save", "version"}
           /\ req'[r].op = req[r].op /\ req'[r].path = req[r].path
           /\ req'[r].pc = req[r].pc + n
           /\ req[r].pc # 1 => req'[r].dir = req[r].dir
           /\ req[r].pc # 1 \/ req[r].op # "restore" => req'[r].dest = req[r].dest
    BY <1>1, <2>1, RequestsStep, MovedFields
  <2>3. /\ req[r].op \in Ops /\ req[r].pc \in 1 .. Len(Plan(req[r].op)) /\ req[r].pc \in Nat
        /\ req'[r].op \in Ops /\ req'[r].pc \in 1 .. Len(Plan(req'[r].op))
        /\ Plan(req'[r].op)[req'[r].pc] = "commit"
    <3>1. /\ req[r].op \in Ops /\ req[r].pc \in 1 .. Len(Plan(req[r].op)) /\ req[r].pc \in Nat
      BY <1>1, StepFields
    <3>2. /\ req'[r].op \in Ops /\ req'[r].pc \in 1 .. Len(Plan(req'[r].op))
      BY <1>1, <2>1 DEF RequestsInv, Knows, InFlight
    <3>3. Plan(req'[r].op)[req'[r].pc] = "commit"
      BY <1>4 DEF At
    <3> QED
      BY <3>1, <3>2, <3>3
  <2>4. \/ req'[r].op = "delete" /\ req'[r].pc = 3
        \/ req'[r].op = "rename" /\ req'[r].pc = 4
        \/ req'[r].op \in {"move", "restore"} /\ req'[r].pc = 5
    BY <2>3, Positions
  <2>5. n = 1 /\ \/ req[r].op = "delete" /\ req[r].pc = 2
                 \/ req[r].op = "rename" /\ req[r].pc = 3
                 \/ req[r].op \in {"move", "restore"} /\ req[r].pc = 4
    BY <2>2, <2>3, <2>4
  <2>6. Plan(req[r].op)[req[r].pc] = "rename_on_disk"
    BY <2>3, <2>5, Positions
  <2>7. At(r, "rename_on_disk") /\ req[r].pc # 1
    BY <1>1, <2>5, <2>6 DEF At
  <2>8. lock = NoOne /\ lock' = r
    <3>1. ~At(r, "commit")
      BY <2>6 DEF At
    <3>2. req'[r].status # "failed"
      BY <2>1 DEF InFlight
    <3>3. ~Fails(r)
      BY <1>1, <3>2, Failed DEF RequestsInv
    <3> QED
      BY <2>7, <3>1, <3>3, StepLock
  <2> QED
    BY <1>4, <2>2, <2>7, <2>8
<1> QED
  BY <1>3, <1>4

----------------------------------------------------------------------------
(* What keeps bytes before a step keeps them after it, or a copy of them   *)
(* does.                                                                   *)

\* What holds as long as the requests in flight kept apart.
Calm == /\ MarksIInv /\ Apart /\ FP!TreeInv(store.rows) /\ Situated
        /\ Named /\ Ready

\* A commit moves the rows and the versions, and leaves the disk alone.
LEMMA CommitMoves ==
  ASSUME LikeIsExact, IInv, NEW r \in Requests, Step(r), At(r, "commit")
  PROVE  LET x == req[r]
             m(p) == MovedPath(x.path, x.dest, x.dir, p)
         IN  /\ \A w \in store.rows : \E t \in store'.rows : t.path = m(w.path) /\ t.dir = w.dir
             /\ store'.versions = {[v EXCEPT !.path = m(v.path)] : v \in store.versions}
             /\ \A e \in store.disk : e.data # DIR => e \in store'.disk
<1> DEFINE x == req[r]
           m(p) == MovedPath(x.path, x.dest, x.dir, p)
           rows == RelocateRows(store.rows, x.path, x.dest, x.dir)
<1>1. /\ store \in StoreType /\ store.rows \subseteq RowType
  BY SameTypes DEF IInv, FP!StoreInv, FP!RowsInv
<1>4. /\ store'.rows \in {rows, Stamped(rows, x.dest, x.path), Unstamped(rows, x.dest)}
      /\ store'.versions = RelocateVersions(store.versions, x.path, x.dest, x.dir)
  <2>1. Commit(r)
    BY StepLabel
  <2>2. store' = [store EXCEPT
           !.rows = CASE x.op = "delete"  -> Stamped(rows, x.dest, x.path)
                      [] x.op = "restore" -> Unstamped(rows, x.dest)
                      [] OTHER            -> rows,
           !.versions = RelocateVersions(store.versions, x.path, x.dest, x.dir)]
    BY <2>1 DEF Commit
  <2> DEFINE a == CASE x.op = "delete"  -> Stamped(rows, x.dest, x.path)
                    [] x.op = "restore" -> Unstamped(rows, x.dest)
                    [] OTHER            -> rows
             b == RelocateVersions(store.versions, x.path, x.dest, x.dir)
  <2>3. a \in {rows, Stamped(rows, x.dest, x.path), Unstamped(rows, x.dest)}
    OBVIOUS
  <2>4. store' = [store EXCEPT !.rows = a, !.versions = b]
    BY <2>2
  <2> HIDE DEF a, b
  <2>5. [store EXCEPT !.rows = a, !.versions = b].rows = a
        /\ [store EXCEPT !.rows = a, !.versions = b].versions = b
    BY <1>1 DEF StoreType
  <2> QED
    BY <2>3, <2>4, <2>5 DEF b
<1>5. x.path \in Path /\ x.dest \in Path /\ Len(x.dest) >= 1 /\ x.dir \in BOOLEAN
      /\ \A w \in store.rows : w \in RowType /\ Len(w.path) >= 1
  BY StepLabel, RequestPaths, SameTypes DEF IInv, FP!StoreInv, FP!RowsInv
<1>6. \A w \in store.rows : \E t \in rows \cap RowType : t.path = m(w.path) /\ t.dir = w.dir
  <2> SUFFICES ASSUME NEW w \in store.rows
               PROVE  \E t \in rows \cap RowType : t.path = m(w.path) /\ t.dir = w.dir
    OBVIOUS
  <2> DEFINE t == FP!MovedRow(x.path, x.dest, x.dir, w)
  <2>1. t \in RowType /\ t.path = FP!MovedPath(x.path, x.dest, x.dir, w.path) /\ t.dir = w.dir
    BY <1>5, Assumed, SameTypes, FP!MovedRowFields
  <2>2. t \in FP!RelocateRows(store.rows, x.path, x.dest, x.dir)
    BY DEF FP!RelocateRows
  <2>3. t \in rows
    BY <2>2, SameRows
  <2>4. FP!MovedPath(x.path, x.dest, x.dir, w.path) = m(w.path)
    BY SamePaths
  <2> HIDE DEF t
  <2> QED
    BY <2>1, <2>3, <2>4
<1>7. \A t \in rows \cap RowType : \E u \in store'.rows : u.path = t.path /\ u.dir = t.dir
  <2> SUFFICES ASSUME NEW t \in rows \cap RowType
               PROVE  \E u \in store'.rows : u.path = t.path /\ u.dir = t.dir
    OBVIOUS
  <2> HIDE DEF rows
  <2>1. CASE store'.rows = Stamped(rows, x.dest, x.path)
    <3> DEFINE u == IF Covers(x.dest, t.path)
                    THEN [t EXCEPT !.deleted = TRUE, !.orig = IF t.path = x.dest THEN x.path ELSE @]
                    ELSE t
    <3>1. u.path = t.path /\ u.dir = t.dir
      BY DEF RowType
    <3>2. u \in store'.rows
      BY <2>1 DEF Stamped
    <3> HIDE DEF u
    <3> QED
      BY <3>1, <3>2
  <2>2. CASE store'.rows = Unstamped(rows, x.dest)
    <3> DEFINE u == IF Covers(x.dest, t.path) THEN [t EXCEPT !.deleted = FALSE, !.orig = NoPath] ELSE t
    <3>1. u.path = t.path /\ u.dir = t.dir
      BY DEF RowType
    <3>2. u \in store'.rows
      BY <2>2 DEF Unstamped
    <3> HIDE DEF u
    <3> QED
      BY <3>1, <3>2
  <2>3. CASE store'.rows = rows
    BY <2>3
  <2> QED
    BY <1>4, <2>1, <2>2, <2>3 DEF rows
<1> HIDE DEF rows
<1>8. \A w \in store.rows : \E t \in store'.rows : t.path = m(w.path) /\ t.dir = w.dir
  BY <1>6, <1>7
<1>9. store'.versions = {[v EXCEPT !.path = m(v.path)] : v \in store.versions}
  BY <1>4 DEF RelocateVersions
<1>10. \A e \in store.disk : e.data # DIR => e \in store'.disk
  <2> SUFFICES ASSUME NEW e \in store.disk, e.data # DIR, e \notin store'.disk PROVE FALSE
    OBVIOUS
  <2>1. \A label : At(r, label) => label = "commit"
    BY DEF At
  <2> QED
    BY <2>1, DiskLost
<1> QED
  BY <1>8, <1>9, <1>10

\* What a request and a row that others may look for are called.
LEMMA RequestPlace ==
  ASSUME RequestsInv, Named, NEW o \in Requests, req[o].status # "idle"
  PROVE  LET z == req[o].dest
         IN  z \in Path /\ Len(z) >= 1 /\ z[1] # VERSIONS /\ (z[1] = TRASH \/ Fresh(z))
<1>1. req[o] \in RequestType
  BY DEF RequestsInv
<1>2. RequestNamed(req[o])
  BY DEF Named
<1> QED
  BY <1>1, <1>2 DEF RequestType, RequestNamed

\* The blob of a version that is spared stays, and its version with it.
LEMMA BlobbedStays ==
  ASSUME LikeIsExact, Calm, ~Forfeited, NEW r \in Requests, Step(r),
         NEW e \in store.disk, e.data # DIR, Blobbed(e)
  PROVE  e \in store'.disk /\ Blobbed(e)'
<1> DEFINE x == req[r]
           m(p) == MovedPath(x.path, x.dest, x.dir, p)
<1>1. /\ InFlight(r) /\ IInv /\ RequestsInv /\ SidesInv /\ Sided(r, x) /\ HasRefs(store.versions, x)
      /\ x.op \in Ops /\ x.pc \in 1 .. Len(Plan(x.op)) /\ VersionsChange(r)
  BY StepLabel, StepTables
     DEF Calm, MarksIInv, IInv, InFlight, RequestsInv, Knows, Situated, SidesInv
<1>2. PICK v \in store.versions : e.path = Blob(v.ref) /\ Spared(v.path)
  BY DEF Blobbed
<1>3. v \in VersionType /\ v.path \in Path /\ v.ref \in Refs
  BY <1>1, SameTypes DEF IInv, FP!StoreInv, FP!VersionsInv, VersionType
<1>4. e \in store'.disk
  <2> SUFFICES ASSUME e \notin store'.disk PROVE FALSE
    OBVIOUS
  <2>1. At(r, "remove_blobs") /\ \E u \in x.found : u.ref = v.ref
    BY <1>1, <1>2, <1>3, BlobLost DEF Calm
  <2>2. x.op = "purge" /\ x.pc = 4
    BY <1>1, <2>1, Positions DEF At
  <2> QED
    BY <1>1, <2>1, <2>2 DEF HasRefs
<1>5. Spared(v.path)'
  BY <1>1, <1>2, SparedStays
<1>6. CASE v \in store'.versions
  BY <1>2, <1>4, <1>5, <1>6 DEF Blobbed, Spared
<1>7. CASE At(r, "delete_versions") /\ v \notin store'.versions
  <2>1. x.op = "purge"
    BY <1>1, <1>7, Positions DEF At
  <2>2. Covers(x.path, v.path)
    <3>1. ~At(r, "insert_version") /\ ~At(r, "commit")
      BY <1>7 DEF At
    <3> QED
      BY <1>1, <1>7, <3>1 DEF VersionsChange
  <2>3. x.path \in FP!Path /\ v.path \in FP!Path /\ FP!LikeIsExact
    BY <1>1, <1>3, RequestPaths, SameTypes, SamePaths
  <2>4. FP!AtOrBelow(x.path, v.path)
    BY <2>2, <2>3, Assumed, SamePaths, FP!ExactCovers
  <2>5. Len(v.path) >= 1
    <3>1. x.path \in Path /\ Len(x.path) >= 1
      BY <1>1, RequestPaths
    <3> QED
      BY <1>3, <2>4, <3>1, PathOrder, LongPath
  <2> QED
    BY <1>1, <1>2, <1>3, <2>1, <2>4, <2>5, NotPurged
<1>8. CASE At(r, "commit")
  <2>1. PICK q : q = m(v.path)
    OBVIOUS
  <2>2. PICK u \in store'.versions : u.ref = v.ref /\ u.path = q
    <3>1. [v EXCEPT !.path = m(v.path)] \in store'.versions
      BY <1>1, <1>8, CommitMoves
    <3>2. [v EXCEPT !.path = q].ref = v.ref /\ [v EXCEPT !.path = q].path = q
      BY <1>3 DEF VersionType
    <3> QED
      BY <2>1, <3>1, <3>2
  <2>3. /\ x.path \in Path /\ x.dest \in Path /\ Len(x.dest) >= 1
    BY <1>1, RequestPaths
  <2>4. q \in Path /\ (q = v.path \/ FP!AtOrBelow(x.dest, q))
    BY <1>3, <2>1, <2>3, MovedAt
  <2> HIDE DEF m
  <2>5. Spared(q)'
    <3>1. CASE q = v.path
      BY <1>5, <3>1 DEF Spared
    <3>2. CASE FP!AtOrBelow(x.dest, q) /\ x.op = "delete"
      <4>1. req'[r].op = "delete" /\ req'[r].dest = x.dest
        BY <1>1, <3>2, StepFields
      <4> QED
        BY <3>2, <4>1 DEF Spared
    <3>3. CASE FP!AtOrBelow(x.dest, q) /\ x.op # "delete"
      <4>1. x.op \in {"rename", "move"} \/ (x.op = "restore" /\ x.pc > 1)
        BY <1>1, <1>8, <3>3, Positions DEF At
      <4>2. x.dest[1] # TRASH
        BY <1>1, <4>1 DEF Sided, UserPath
      <4>3. \A i \in 1 .. Len(x.dest) : q[i] = x.dest[i]
        BY <2>3, <2>4, <3>3, PathOrder
      <4>4. 1 \in 1 .. Len(x.dest)
        BY <2>3, LongPath
      <4> QED
        BY <4>2, <4>3, <4>4 DEF Spared
    <3> QED
      BY <2>4, <3>1, <3>2, <3>3
  <2> QED
    BY <1>2, <1>4, <2>2, <2>5 DEF Blobbed, Spared
<1> QED
  BY <1>1, <1>4, <1>6, <1>7, <1>8 DEF VersionsChange

\* Bytes that a dead relocation left stay: nobody came to where it moved them.
LEMMA StrandedStays ==
  ASSUME Calm, ~Forfeited, NEW r \in Requests, Step(r),
         NEW e \in store.disk, e.data # DIR, Stranded(e)
  PROVE  e \in store'.disk /\ Stranded(e)'
<1>1. InFlight(r) /\ IInv /\ RequestsInv /\ SidesInv
  BY StepLabel DEF Calm, MarksIInv, IInv
<1>2. PICK o \in Requests : CutShort(o) /\ FP!AtOrBelow(req[o].dest, e.path)
  BY DEF Stranded
<1>3. o # r /\ req[o].status # "idle" /\ req'[o] = req[o]
  <2>1. o # r /\ req[o].status # "idle"
    BY <1>1, <1>2 DEF CutShort, InFlight
  <2> QED
    BY <1>1, <2>1, StepFields
<1>4. Stranded(e)'
  BY <1>2, <1>3 DEF Stranded, CutShort
<1>5. e \in store'.disk
  <2> SUFFICES ASSUME e \notin store'.disk PROVE FALSE
    OBVIOUS
  <2> DEFINE z == req[o].dest
  <2>1. z \in Path /\ Len(z) >= 1 /\ z[1] # VERSIONS /\ (z[1] = TRASH \/ Fresh(z))
    BY <1>1, <1>3, RequestPlace DEF Calm
  <2>2. Related(req[r].path, z) \/ Related(req[r].dest, z)
    <3> HIDE DEF z
    <3>1. FP!AtOrBelow(z, e.path)
      BY <1>2 DEF z
    <3> QED
      BY <1>1, <2>1, <3>1, HitsRelated
  <2>3. Touches(r, z)
    BY <1>1, <2>2 DEF Touches, InFlight
  <2> QED
    BY <1>2, <1>3, <2>3 DEF Forfeited
<1> QED
  BY <1>4, <1>5

\* What a relocation has on its way stays there while others act.
LEMMA UnderwayStays ==
  ASSUME LikeIsExact, Calm, NEW r \in Requests, Step(r),
         NEW e \in store.disk, e.data # DIR, NEW o \in Requests \ {r}, At(o, "commit"),
         NEW w \in store.rows, w.dir = FALSE, Takes(req[o], w.path),
         e.path = MovedPath(req[o].path, req[o].dest, req[o].dir, w.path)
  PROVE  e \in store'.disk /\ Underway(e)'
<1> DEFINE z == req[o].dest
<1>1. /\ InFlight(r) /\ IInv /\ RequestsInv /\ SidesInv /\ InFlight(o) /\ Apart /\ RowsChange(r)
  BY StepLabel, StepTables DEF Calm, MarksIInv, IInv, At
<1>2. lock = o /\ ~At(r, "commit") /\ lock # NoOne
  BY <1>1, CommitHolds, AsyncAssumption
<1>3. store'.rows = store.rows
  BY <1>1, <1>2 DEF RowsChange
<1>4. req'[o] = req[o] /\ At(o, "commit")'
  <2>1. req'[o] = req[o]
    BY <1>1, StepFields
  <2> QED
    BY <2>1 DEF At, InFlight
<1>5. Underway(e)'
  BY <1>3, <1>4 DEF Underway, Takes
<1>6. FP!AtOrBelow(z, e.path)
  <2>1. w.path \in Path /\ req[o].path \in Path /\ z \in Path /\ req[o].dir \in BOOLEAN
    BY <1>1, RequestPaths, SameTypes DEF IInv, FP!StoreInv, FP!RowsInv, RowType
  <2> QED
    BY <2>1, TakenPath DEF Takes
<1>7. e \in store'.disk
  <2> SUFFICES ASSUME e \notin store'.disk PROVE FALSE
    OBVIOUS
  <2>1. z \in Path /\ Len(z) >= 1 /\ z[1] # VERSIONS /\ (z[1] = TRASH \/ Fresh(z))
    BY <1>1, RequestPlace DEF Calm, InFlight
  <2>2. Related(req[r].path, z) \/ Related(req[r].dest, z)
    <3> HIDE DEF z
    <3> QED
      BY <1>1, <1>6, <2>1, HitsRelated
  <2> QED
    BY <1>1, <2>2, Distant
<1> QED
  BY <1>5, <1>7

\* What was on its way has arrived at the commit.
LEMMA UnderwayLands ==
  ASSUME LikeIsExact, Calm, NEW r \in Requests, Step(r),
         NEW e \in store.disk, e.data # DIR, At(r, "commit"),
         NEW w \in store.rows, w.dir = FALSE, Takes(req[r], w.path),
         e.path = MovedPath(req[r].path, req[r].dest, req[r].dir, w.path)
  PROVE  e \in store'.disk /\ Rowed(e)'
<1> DEFINE x == req[r]
<1>1. /\ InFlight(r) /\ IInv /\ RequestsInv /\ Sided(r, x)
      /\ x.op \in Ops /\ x.pc \in 1 .. Len(Plan(x.op))
  BY StepLabel DEF Calm, MarksIInv, IInv, InFlight, RequestsInv, Knows, SidesInv
<1>2. PICK t \in store'.rows : t.path = e.path /\ t.dir = FALSE
  BY <1>1, CommitMoves
<1>3. e \in store'.disk
  BY <1>1, CommitMoves
<1>4. /\ x.path \in Path /\ x.dest \in Path /\ Len(x.dest) >= 1 /\ x.dir \in BOOLEAN
      /\ w.path \in Path /\ e.path \in Path
  BY <1>1, RequestPaths, DiskType, SameTypes
     DEF IInv, FP!StoreInv, FP!RowsInv, RowType, EntryType
<1>5. FP!AtOrBelow(x.dest, e.path)
  BY <1>4, TakenPath DEF Takes
<1>6. Spared(e.path)'
  <2>1. CASE x.op = "delete"
    <3>1. req'[r].op = "delete" /\ req'[r].dest = x.dest
      BY <1>1, <2>1, StepFields
    <3> QED
      BY <1>5, <3>1 DEF Spared
  <2>2. CASE x.op # "delete"
    <3>1. x.op \in {"rename", "move"} \/ (x.op = "restore" /\ x.pc > 1)
      BY <1>1, <2>2, Positions DEF At
    <3>2. x.dest[1] # TRASH
      BY <1>1, <3>1 DEF Sided, UserPath
    <3>3. \A i \in 1 .. Len(x.dest) : e.path[i] = x.dest[i]
      BY <1>4, <1>5, PathOrder
    <3>4. 1 \in 1 .. Len(x.dest)
      BY <1>4, LongPath
    <3> QED
      BY <3>2, <3>3, <3>4 DEF Spared
  <2> QED
    BY <2>1, <2>2
<1>7. ASSUME NEW o \in Requests, At(o, "commit")' PROVE FALSE
  <2>1. At(o, "commit") /\ o # r
    <3>1. ~At(r, "rename_on_disk")
      BY DEF At
    <3> QED
      BY <1>1, <1>7, <3>1, NewCommit
  <2> QED
    BY <1>1, <2>1, CommitHolds
<1> QED
  BY <1>2, <1>3, <1>6, <1>7 DEF Rowed, Spared

\* What a handler backed up before it touched it.
LEMMA BackedCopy ==
  ASSUME Calm, NEW r \in Requests, Step(r), Backs(req[r]),
         NEW e \in store.disk, e.data # DIR, e.path = req[r].path
  PROVE  \E f \in store'.disk : f.data = e.data /\ Blobbed(f)'
<1> DEFINE x == req[r]
           f == CopyOf(r, e)
<1>1. /\ InFlight(r) /\ IInv /\ RequestsInv /\ SidesInv /\ Sided(r, x)
      /\ x.op \in Ops /\ x.pc \in 1 .. Len(Plan(x.op)) /\ VersionsChange(r) /\ Prepared(store, r, x)
  BY StepLabel, StepTables
     DEF Calm, MarksIInv, IInv, InFlight, RequestsInv, Knows, SidesInv, Ready
<1>2. e \in FileOn(store.disk, x.path)
  BY DEF FileOn
<1>3. f \in store.disk /\ f.data = e.data /\ f.path = Blob(r)
  BY <1>1, <1>2 DEF Prepared, CopyThere, CopyOf
<1>4. PICK v \in store.versions : v.ref = r /\ v.path = x.path
  BY <1>1, <1>2 DEF Prepared
<1>5. x.op \in {"save", "upload", "chunked", "version"}
  BY DEF Backs
<1>6. ~At(r, "remove_blobs") /\ ~At(r, "delete_versions") /\ ~At(r, "commit")
  BY <1>1, <1>5, Positions DEF At
<1> HIDE DEF f
<1>7. f \in store'.disk
  <2>1. r \in Refs
    BY <1>1, RequestPaths
  <2> QED
    BY <1>1, <1>3, <1>6, <2>1, BlobLost DEF Calm
<1>8. v \in store'.versions
  BY <1>1, <1>6 DEF VersionsChange
<1>9. Spared(v.path)'
  BY <1>1, <1>4, <1>5 DEF Sided, Spared
<1> QED
  BY <1>3, <1>4, <1>7, <1>8, <1>9 DEF Blobbed, Spared

\* A relocation that may rename on disk leads away, to a place no row has.
LEMMA RenamesAway ==
  ASSUME LikeIsExact, Calm, NEW r \in Requests, InFlight(r), At(r, "rename_on_disk"),
         ~RelocateFails(store, req[r].path, req[r].dest, req[r].dir),
         NEW w \in store.rows, w.dir = FALSE,
         NEW e \in store.disk, e.path = w.path
  PROVE  LET x == req[r]
         IN  /\ FP!AtOrBelow(x.path, e.path) =>
                  /\ x.path # x.dest /\ ~Below(x.path, x.dest) /\ e.path # x.dest
                  /\ Takes(x, w.path)
             /\ ~FP!AtOrBelow(x.path, e.path) => e.path # x.dest
<1> DEFINE x == req[r]
           p == x.path
           q == x.dest
<1>1. /\ IInv /\ RequestsInv /\ Sided(r, x) /\ HasSource(store.rows, x)
      /\ x.op \in Ops /\ x.pc \in 1 .. Len(Plan(x.op)) /\ Prepared(store, r, x)
  BY DEF Calm, MarksIInv, IInv, InFlight, RequestsInv, Knows, SidesInv, Situated, Ready
<1>2. /\ p \in Path /\ q \in Path /\ Len(q) >= 1 /\ x.dir \in BOOLEAN
      /\ w.path \in Path /\ Len(p) >= 1
  BY <1>1, RequestPaths, SameTypes DEF IInv, FP!StoreInv, FP!RowsInv, RowType
<1>3. \/ x.op = "delete" /\ x.pc = 2
      \/ x.op = "rename" /\ x.pc = 3
      \/ x.op \in {"move", "restore"} /\ x.pc = 4
  BY <1>1, Positions DEF At
<1>4. PICK g \in store.rows : g.path = p /\ g.dir = x.dir
  BY <1>1, <1>3 DEF HasSource, MovesLive, MovesBack
<1>5. p # q
  <2>1. CASE x.op \in {"rename", "move"}
    BY <1>1, <1>3, <2>1 DEF Prepared, Leaves
  <2>2. CASE x.op = "delete"
    <3>1. p[1] # TRASH /\ q = TrashPath(r, NameOf(p))
      BY <1>1, <2>2 DEF Sided
    <3>2. q[1] = TRASH
      BY <3>1 DEF TrashPath
    <3> QED
      BY <3>1, <3>2
  <2>3. CASE x.op = "restore"
    <3>1. p[1] = TRASH /\ q[1] # TRASH
      BY <1>1, <1>3, <2>3 DEF Sided, UserPath
    <3> QED
      BY <3>1
  <2> QED
    BY <1>3, <2>1, <2>2, <2>3
<1>6. FP!AtOrBelow(p, e.path) => ~Below(p, q)
  <2> SUFFICES ASSUME FP!AtOrBelow(p, e.path), Below(p, q) PROVE FALSE
    OBVIOUS
  <2>1. OnDisk(store.disk, p)
    BY SamePaths DEF OnDisk, FP!AtOrBelow
  <2> QED
    BY <2>1 DEF RelocateFails, RenameFails
<1>7. ASSUME FP!AtOrBelow(p, e.path)
      PROVE  e.path # q /\ Takes(x, w.path)
  <2>1. e.path # q
    BY <1>5, <1>6, <1>7, SamePaths DEF FP!AtOrBelow
  <2>2. w.path = p \/ Below(p, w.path)
    BY <1>7, SamePaths DEF FP!AtOrBelow
  <2>3. Below(p, w.path) => x.dir
    <3>1. g.dir = FALSE => ~Below(g.path, w.path)
      BY <1>1, FilesAreLeaves DEF Calm, MarksIInv
    <3> QED
      BY <1>2, <1>4, <3>1
  <2> QED
    BY <2>1, <2>2, <2>3 DEF Takes
<1>8. ASSUME ~FP!AtOrBelow(p, e.path), e.path = q PROVE FALSE
  <2>1. ~Below(p, q) /\ w.path # p /\ ~Below(p, w.path)
    BY <1>8, SamePaths DEF FP!AtOrBelow
  <2>2. MovedPath(p, q, x.dir, g.path) = q
    <3>1. ~Below(p, q) => MovedPath(p, q, x.dir, p) = q
      <4> HIDE DEF p, q
      <4> QED
        BY <1>2, MovedAt, ZenonT(40)
    <3> QED
      BY <1>4, <2>1, <3>1
  <2>3. MovedPath(p, q, x.dir, w.path) = q
    BY <1>2, <1>8, <2>1, MovedAt, ZenonT(40)
  <2>4. g # w
    BY <1>4, <2>1
  <2> QED
    BY <2>2, <2>3, <2>4 DEF RelocateFails, KeyClash
<1> QED
  BY <1>5, <1>6, <1>7, <1>8

\* A rename takes the bytes of a row along.
LEMMA RowedMoves ==
  ASSUME LikeIsExact, Calm, NEW r \in Requests, Step(r), NEW e \in store.disk, e.data # DIR,
         NEW w \in store.rows, w.path = e.path, w.dir = FALSE,
         At(r, "rename_on_disk"), lock = NoOne, lock' = r, FP!AtOrBelow(req[r].path, e.path)
  PROVE  \E f \in store'.disk : f.data = e.data /\ Underway(f)'
<1> DEFINE x == req[r]
           y == req'[r]
           p == x.path
           q == x.dest
<1>1. /\ InFlight(r) /\ IInv /\ RequestsInv /\ x.op \in Ops /\ x.pc \in 1 .. Len(Plan(x.op))
      /\ RequestsInv' /\ LockInv' /\ x.pc \in Nat
  <2>1. InFlight(r) /\ IInv /\ RequestsInv
    BY StepLabel DEF Calm, MarksIInv, IInv
  <2>2. IInv'
    BY <2>1, StepStep
  <2> QED
    BY <2>1, <2>2, StepFields DEF IInv
<1>2. /\ store'.disk = RenameOn(store.disk, p, q) /\ store'.rows = store.rows
      /\ ~RelocateFails(store, p, q, x.dir)
  <2>1. RenameOnDisk(r) /\ lock # r
    BY StepLabel, AsyncAssumption
  <2>2. /\ store' = [store EXCEPT !.disk = RenameOn(store.disk, p, q)]
        /\ ~RelocateFails(store, p, q, x.dir)
    BY <2>1, Zenon DEF RenameOnDisk, RolledBack, GivesUp
  <2> QED
    BY <1>1, <2>2, SameTypes DEF IInv, FP!StoreInv, StoreType
<1>3. ~Below(p, q) /\ e.path # q /\ Takes(x, w.path)
  BY <1>1, <1>2, RenamesAway
<1>4. PICK f \in store'.disk : f.path = Rebase(p, q, e.path) /\ f.data = e.data
  <2>1. store.disk \subseteq EntryType
    BY <1>1, DiskType DEF IInv
  <2>2. [path |-> Rebase(p, q, e.path), data |-> e.data] \in store'.disk
    BY <1>2, <1>3, <2>1, Renamed
  <2> QED
    BY <2>2
<1>5. /\ y.op = x.op /\ y.path = p /\ y.dest = q /\ y.dir = x.dir
      /\ At(r, "commit")'
  <2>1. InFlight(r)' /\ Committing(y.op, y.pc)
    BY <1>1 DEF LockInv
  <2>2. y.op \in Ops /\ y.pc \in 1 .. Len(Plan(y.op))
    BY <1>1, <2>1 DEF RequestsInv, Knows, InFlight
  <2>3. Plan(y.op)[y.pc] = "commit"
    BY <2>1, <2>2, Positions DEF Committing
  <2>4. At(r, "commit")'
    BY <2>1, <2>3 DEF At
  <2> QED
    BY <1>1, <2>4, NewCommit
<1>6. MovedPath(p, q, x.dir, w.path) = Rebase(p, q, w.path)
  <2>1. /\ p \in Path /\ q \in Path /\ x.dir \in BOOLEAN /\ w.path \in Path
    BY <1>1, RequestPaths, SameTypes DEF IInv, FP!StoreInv, FP!RowsInv, RowType
  <2> QED
    BY <1>3, <2>1, TakenPath DEF Takes
<1>7. f.path = MovedPath(y.path, y.dest, y.dir, w.path)
  BY <1>4, <1>5, <1>6
<1>8. Takes(y, w.path)
  BY <1>3, <1>5 DEF Takes
<1>9. Underway(f)'
  BY <1>2, <1>5, <1>7, <1>8 DEF Underway, Takes
<1> QED
  BY <1>4, <1>9

\* The row of a file is there after the step, unless the step moves or deletes it.
LEMMA RowRemains ==
  ASSUME LikeIsExact, IInv, NEW r \in Requests, Step(r), NEW w \in store.rows,
         At(r, "commit") => ~FP!AtOrBelow(req[r].path, w.path)
  PROVE  \/ \E t \in store'.rows : t.path = w.path /\ t.dir = w.dir
         \/ At(r, "delete_row") /\ FP!AtOrBelow(req[r].path, w.path)
<1> DEFINE x == req[r]
           Goal == \E t \in store'.rows : t.path = w.path /\ t.dir = w.dir
<1>1. /\ InFlight(r) /\ RequestsInv /\ RowsChange(r) /\ w \in RowType /\ w.path \in Path
      /\ x.path \in Path /\ x.dest \in Path
  BY StepLabel, StepTables, RequestPaths, SameTypes DEF IInv, FP!StoreInv, FP!RowsInv, RowType
<1>2. CASE At(r, "commit")
  <2>1. PICK t \in store'.rows : t.path = MovedPath(x.path, x.dest, x.dir, w.path) /\ t.dir = w.dir
    BY <1>2, CommitMoves
  <2>2. w.path # x.path /\ ~Below(x.path, w.path)
    BY <1>2, SamePaths DEF FP!AtOrBelow
  <2>3. MovedPath(x.path, x.dest, x.dir, w.path) = w.path
    BY <1>1, <2>2, MovedAt
  <2> QED
    BY <2>1, <2>3
<1>3. ASSUME NEW sum, store'.rows = Rehashed(store.rows, x.path, sum) PROVE Goal
  <2> DEFINE t == IF w.path = x.path THEN [w EXCEPT !.sum = sum] ELSE w
  <2>1. t \in store'.rows
    BY <1>3 DEF Rehashed
  <2>2. t.path = w.path /\ t.dir = w.dir
    BY <1>1 DEF RowType
  <2> HIDE DEF t
  <2> QED
    BY <2>1, <2>2
<1>4. CASE At(r, "delete_row") /\ store'.rows = {v \in store.rows : ~Covers(x.path, v.path)}
  <2>1. Covers(x.path, w.path) <=> FP!AtOrBelow(x.path, w.path)
    <3>1. x.path \in FP!Path /\ w.path \in FP!Path /\ FP!LikeIsExact
      BY <1>1, SameTypes, SamePaths
    <3> QED
      BY <3>1, Assumed, SamePaths, FP!ExactCovers
  <2> QED
    BY <1>4, <2>1
<1> QED
  BY <1>1, <1>2, <1>3, <1>4 DEF RowsChange

\* When the bytes of a row go, a copy of them is in the version store.
LEMMA RowedLost ==
  ASSUME LikeIsExact, Calm, ~Forfeited, NEW r \in Requests, Step(r),
         NEW e \in store.disk, e.data # DIR, e \notin store'.disk, Rowed(e),
         ~(At(r, "rename_on_disk") /\ FP!AtOrBelow(req[r].path, e.path))
  PROVE  Backs(req[r]) /\ e.path = req[r].path
<1> DEFINE x == req[r]
           p == x.path
           L == Plan(x.op)[x.pc]
<1>1. /\ InFlight(r) /\ IInv /\ RequestsInv /\ SidesInv /\ Sided(r, x) /\ Named
      /\ x.op \in Ops /\ x.pc \in 1 .. Len(Plan(x.op)) /\ Prepared(store, r, x)
  BY StepLabel
     DEF Calm, MarksIInv, IInv, InFlight, RequestsInv, Knows, SidesInv, Ready
<1>2. PICK w \in store.rows : w.path = e.path /\ w.dir = FALSE
  BY DEF Rowed
<1>3. /\ RowNamed(e.path) /\ Spared(e.path) /\ e.path \in Path /\ Len(e.path) >= 1
      /\ p \in Path /\ Len(p) >= 1
  BY <1>1, <1>2, RequestPaths, SameTypes
     DEF Rowed, Named, IInv, FP!StoreInv, FP!RowsInv, RowType
<1>4. \A label : At(r, label) <=> label = L
  BY <1>1 DEF At
<1>5. /\ L = "remove_blobs" => x.op = "purge"
      /\ L = "remove_tree" => x.op = "purge"
      /\ L = "replace" => x.op = "upload" /\ Clears(x)
      /\ L = "remove_bytes" => Backs(x) \/ Clears(x)
      /\ L = "insert_row" => Clears(x)
      /\ L = "adopt" => Clears(x)
      /\ L = "write_bytes" => Backs(x)
      /\ L = "copy_back" => Backs(x) /\ HasFile(x)
  BY <1>1, Positions DEF Clears, Backs, HasFile
<1> HIDE DEF L
<1>6. \/ L = "remove_blobs" /\ \E v \in x.found : e.path = Blob(v.ref)
      \/ L = "replace" /\ e.path = Part(r)
      \/ /\ L \in {"remove_bytes", "replace", "insert_row", "adopt", "write_bytes", "copy_back", "remove_tree"}
         /\ e.path = p
      \/ L \in {"copy_back", "remove_tree"} /\ Below(p, e.path)
      \/ /\ L = "rename_on_disk" /\ ~RelocateFails(store, p, x.dest, x.dir)
         /\ e.path = x.dest
  BY <1>1, <1>4, DiskLost
<1>7. CASE L = "remove_blobs" /\ \E v \in x.found : e.path = Blob(v.ref)
  BY <1>3, <1>7 DEF Blob, RowNamed
<1>8. CASE L = "replace" /\ e.path = Part(r)
  <2>1. /\ Len(Part(r)) = Len(p) /\ Len(p) \in Nat /\ Part(r)[Len(p)] = r
        /\ Len(p) > 1 => Part(r)[1] = p[1]
    BY <1>1, PartPath
  <2>2. p[1] # TRASH
    BY <1>1, <1>5, <1>8 DEF Sided
  <2>3. PICK k \in Nat : k = Len(p)
    BY <2>1
  <2>4. k \in 1 .. Len(e.path) /\ e.path[k] \in Requests
    BY <1>3, <1>8, <2>1, <2>3
  <2>5. e.path[1] = TRASH /\ k = 2
    BY <1>3, <2>4 DEF RowNamed
  <2>6. Part(r)[1] = p[1]
    BY <2>1, <2>3, <2>5
  <2> QED
    BY <1>8, <2>2, <2>5, <2>6
<1>9. CASE /\ L \in {"remove_bytes", "replace", "insert_row", "adopt", "write_bytes", "copy_back", "remove_tree"}
           /\ e.path = p
  <2>1. ~Clears(x)
    BY <1>1, <1>2, <1>9 DEF Prepared
  <2>2. L # "remove_tree"
    <3> SUFFICES ASSUME L = "remove_tree" PROVE FALSE
      OBVIOUS
    <3>1. FP!AtOrBelow(p, e.path)
      BY <1>9 DEF FP!AtOrBelow
    <3> QED
      BY <1>1, <1>3, <1>5, <3>1, NotPurged
  <2> QED
    BY <1>5, <1>9, <2>1, <2>2
<1>10. CASE L \in {"copy_back", "remove_tree"} /\ Below(p, e.path)
  <2>1. L # "remove_tree"
    <3> SUFFICES ASSUME L = "remove_tree" PROVE FALSE
      OBVIOUS
    <3>1. FP!AtOrBelow(p, e.path)
      BY <1>10, SamePaths DEF FP!AtOrBelow
    <3> QED
      BY <1>1, <1>3, <1>5, <3>1, NotPurged
  <2>2. PICK g \in store.rows : g.path = p /\ g.dir = FALSE
    BY <1>1, <1>5, <1>10, <2>1 DEF Prepared, FileAt
  <2>3. ~Below(g.path, w.path)
    BY <1>1, <2>2, FilesAreLeaves DEF Calm, MarksIInv
  <2> QED
    BY <1>2, <1>10, <2>2, <2>3
<1>11. CASE /\ L = "rename_on_disk" /\ ~RelocateFails(store, p, x.dest, x.dir)
            /\ e.path = x.dest
  BY <1>1, <1>2, <1>4, <1>11, RenamesAway
<1> QED
  BY <1>6, <1>7, <1>8, <1>9, <1>10, <1>11

\* The bytes a row leads to are kept: in place, where they moved, or as a version.
LEMMA RowedStays ==
  ASSUME LikeIsExact, Calm, ~Forfeited, NEW r \in Requests, Step(r),
         NEW e \in store.disk, e.data # DIR, Rowed(e)
  PROVE  \E f \in store'.disk : f.data = e.data /\ (Rowed(f)' \/ Blobbed(f)' \/ Underway(f)')
<1> DEFINE x == req[r]
           p == x.path
<1>1. /\ InFlight(r) /\ IInv /\ RequestsInv /\ SidesInv
      /\ x.op \in Ops /\ x.pc \in 1 .. Len(Plan(x.op)) /\ Prepared(store, r, x)
  BY StepLabel
     DEF Calm, MarksIInv, IInv, InFlight, RequestsInv, Knows, SidesInv, Ready
<1>2. PICK w \in store.rows : w.path = e.path /\ w.dir = FALSE
  BY DEF Rowed
<1>3. /\ Spared(e.path) /\ e.path \in Path /\ Len(e.path) >= 1
  BY <1>1, <1>2, SameTypes DEF Rowed, IInv, FP!StoreInv, FP!RowsInv, RowType
<1>4. CASE Backs(x) /\ e.path = p
  BY <1>4, BackedCopy
<1>5. CASE At(r, "rename_on_disk") /\ lock = NoOne /\ lock' = r /\ FP!AtOrBelow(p, e.path)
  BY <1>2, <1>5, RowedMoves
<1>6. CASE At(r, "delete_row") /\ FP!AtOrBelow(p, w.path) /\ ~(Backs(x) /\ e.path = p)
  <2>1. x.op = "purge" \/ (Backs(x) /\ HasFile(x))
    BY <1>1, <1>6, Positions DEF At, Backs, HasFile
  <2>2. CASE x.op = "purge"
    BY <1>1, <1>2, <1>3, <1>6, <2>2, NotPurged
  <2>3. CASE Backs(x) /\ HasFile(x)
    <3>1. PICK g \in store.rows : g.path = p /\ g.dir = FALSE
      BY <1>1, <2>3 DEF Prepared, FileAt
    <3>2. ~Below(g.path, w.path)
      BY <1>1, <3>1, FilesAreLeaves DEF Calm, MarksIInv
    <3> QED
      BY <1>2, <1>6, <2>3, <3>1, <3>2, SamePaths DEF FP!AtOrBelow
  <2> QED
    BY <2>1, <2>2, <2>3
<1>7. CASE /\ ~(Backs(x) /\ e.path = p)
           /\ ~(At(r, "rename_on_disk") /\ lock = NoOne /\ lock' = r /\ FP!AtOrBelow(p, e.path))
           /\ ~(At(r, "delete_row") /\ FP!AtOrBelow(p, w.path))
  <2>1. e \in store'.disk
    <3> SUFFICES ASSUME e \notin store'.disk PROVE FALSE
      OBVIOUS
    <3>1. At(r, "rename_on_disk") /\ FP!AtOrBelow(p, e.path)
      BY <1>7, RowedLost
    <3>2. lock = NoOne /\ lock' = r
      <4>1. \A label : At(r, label) => label = "rename_on_disk"
        BY <3>1 DEF At
      <4> QED
        BY <1>1, <4>1, DiskLost
    <3> QED
      BY <1>7, <3>1, <3>2
  <2>2. PICK t \in store'.rows : t.path = e.path /\ t.dir = FALSE
    <3>1. At(r, "commit") => ~FP!AtOrBelow(p, w.path)
      BY <1>2 DEF Rowed
    <3> QED
      BY <1>1, <1>2, <1>7, <3>1, RowRemains
  <2>3. Spared(e.path)'
    BY <1>1, <1>3, SparedStays
  <2>4. ASSUME NEW o \in Requests, At(o, "commit")'
        PROVE  ~FP!AtOrBelow(req'[o].path, e.path)
    <3>1. /\ req'[o].path = req[o].path
          /\ \/ At(o, "commit")
             \/ o = r /\ At(r, "rename_on_disk") /\ lock = NoOne /\ lock' = r
      BY <1>1, <2>4, NewCommit
    <3> QED
      BY <1>7, <3>1 DEF Rowed
  <2>5. Rowed(e)'
    BY <2>2, <2>3, <2>4 DEF Rowed, Spared
  <2> QED
    BY <2>1, <2>5
<1> QED
  BY <1>4, <1>5, <1>6, <1>7

\* Whatever kept an entry, an entry with its bytes is kept after the step.
LEMMA KeeperStays ==
  ASSUME LikeIsExact, Calm, ~Forfeited, NEW r \in Requests, Step(r),
         NEW e \in store.disk, Keeper(e)
  PROVE  \E f \in store'.disk : f.data = e.data /\ Keeper(f)'
<1>1. e.data # DIR
  BY DEF Keeper
<1>2. \E f \in store'.disk : f.data = e.data /\ (Rowed(f)' \/ Blobbed(f)' \/ Underway(f)' \/ Stranded(f)')
  <2>1. CASE Rowed(e)
    BY <1>1, <2>1, RowedStays
  <2>2. CASE Blobbed(e)
    BY <1>1, <2>2, BlobbedStays
  <2>3. CASE Stranded(e)
    BY <1>1, <2>3, StrandedStays
  <2>4. CASE Underway(e)
    <3>1. PICK o \in Requests :
            /\ At(o, "commit")
            /\ \E w \in store.rows : /\ w.dir = FALSE /\ Takes(req[o], w.path)
                                     /\ e.path = MovedPath(req[o].path, req[o].dest, req[o].dir, w.path)
      BY <2>4 DEF Underway
    <3>2. PICK w \in store.rows : /\ w.dir = FALSE /\ Takes(req[o], w.path)
                                  /\ e.path = MovedPath(req[o].path, req[o].dest, req[o].dir, w.path)
      BY <3>1
    <3>3. CASE o = r
      BY <1>1, <3>1, <3>2, <3>3, UnderwayLands
    <3>4. CASE o # r
      BY <1>1, <3>1, <3>2, <3>4, UnderwayStays
    <3> QED
      BY <3>3, <3>4
  <2> QED
    BY <2>1, <2>2, <2>3, <2>4 DEF Keeper
<1>3. PICK f \in store'.disk : f.data = e.data /\ (Rowed(f)' \/ Blobbed(f)' \/ Underway(f)' \/ Stranded(f)')
  BY <1>2
<1>4. Keeper(f)'
  BY <1>1, <1>3 DEF Keeper
<1> QED
  BY <1>3, <1>4

\* The bytes of a writer that answers have a row.
LEMMA WriterDone ==
  ASSUME LikeIsExact, Calm, NEW r \in Requests, Step(r),
         req'[r].status = "ok", req[r].op \in Writers
  PROVE  \E e \in store'.disk : e.data = r /\ Keeper(e)'
<1> DEFINE x == req[r]
           p == x.path
<1>1. /\ InFlight(r) /\ IInv /\ RequestsInv /\ Sided(r, x) /\ Apart
      /\ x.op \in Ops /\ x.pc \in 1 .. Len(Plan(x.op)) /\ Prepared(store, r, x)
  BY StepLabel
     DEF Calm, MarksIInv, IInv, InFlight, RequestsInv, Knows, SidesInv, Ready
<1>2. PICK n \in {1, 3, 4, 7} : Skips(r, n) /\ req'[r].pc = x.pc + n /\ req'[r].pc > Len(Plan(x.op))
  BY <1>1, StepFields
<1>3. Did(r)
  BY <1>1, Outcome
<1>4. /\ x.op = "save" => At(r, "write_bytes") /\ HasFile(x)
      /\ x.op # "save" => At(r, "insert_row") /\ Wrote(x)
  <2>1. /\ n = 7 => x.pc = 2 /\ x.op \in {"upload", "chunked"}
        /\ n = 4 => x.pc < 4
        /\ n = 3 => x.pc < 5 /\ (x.op = "save" => x.pc < 4)
        /\ n = 4 /\ x.op = "save" => x.pc < 3
    BY <1>1, <1>2, Positions DEF Skips, At
  <2>2. /\ x.op = "upload" => x.pc = 12
        /\ x.op = "chunked" => x.pc = 10
        /\ x.op = "save" => x.pc = 9
    <3>1. /\ x.op = "upload" => Len(Plan(x.op)) = 12
          /\ x.op = "chunked" => Len(Plan(x.op)) = 10
          /\ x.op = "save" => Len(Plan(x.op)) = 9
      BY <1>1, Positions
    <3>2. \A l : l = Len(Plan(x.op)) => x.pc \in 1 .. l /\ x.pc + n > l
      BY <1>1, <1>2
    <3>3. /\ x.op = "upload" => x.pc \in 1 .. 12 /\ x.pc + n > 12
          /\ x.op = "chunked" => x.pc \in 1 .. 10 /\ x.pc + n > 10
          /\ x.op = "save" => x.pc \in 1 .. 9 /\ x.pc + n > 9
      BY <3>1, <3>2, Zenon
    <3> HIDE DEF x
    <3> QED
      BY <2>1, <3>3
  <2>3. /\ x.op = "upload" => Plan(x.op)[x.pc] = "insert_row"
        /\ x.op = "chunked" => Plan(x.op)[x.pc] = "insert_row"
        /\ x.op = "save" => Plan(x.op)[x.pc] = "write_bytes"
    BY <1>1, <2>2, Positions
  <2> QED
    BY <1>1, <2>2, <2>3 DEF At, HasFile, Wrote, Writers
<1>5. PICK e \in store'.disk : e.path = p /\ e.data = r
  <2>1. [path |-> p, data |-> r] \in store'.disk
    <3>1. CASE x.op = "save"
      <4>1. store'.disk = WriteFile(store.disk, p, r)
        BY <1>3, <1>4, <3>1 DEF Did
      <4> QED
        BY <4>1 DEF WriteFile
    <3>2. CASE x.op # "save"
      <4>1. store'.disk = store.disk
        BY <1>3, <1>4, <3>2 DEF Did
      <4> QED
        BY <1>1, <1>4, <3>2, <4>1 DEF Prepared
    <3> QED
      BY <3>1, <3>2
  <2> QED
    BY <2>1
<1>6. \E w \in store'.rows : w.path = p /\ w.dir = FALSE
  <2>1. CASE x.op = "save"
    <3>1. store'.rows = store.rows
      <4>1. At(r, "write_bytes")
        BY <1>4, <2>1
      <4> QED
        BY <1>1, <4>1, TablesSteady
    <3> QED
      BY <1>1, <1>4, <2>1, <3>1 DEF Prepared, FileAt
  <2>2. CASE x.op # "save"
    <3>1. NewRow(p, FALSE, r, x.node) \in store'.rows
      BY <1>3, <1>4, <2>2 DEF Did
    <3>2. NewRow(p, FALSE, r, x.node).path = p /\ NewRow(p, FALSE, r, x.node).dir = FALSE
      BY DEF NewRow
    <3> QED
      BY <3>1, <3>2
  <2> QED
    BY <2>1, <2>2
<1>7. Spared(e.path)'
  BY <1>1, <1>5 DEF Sided, Spared, Writers
<1>8. ASSUME NEW o \in Requests, At(o, "commit")'
      PROVE  ~FP!AtOrBelow(req'[o].path, e.path)
  <2>1. ~At(r, "rename_on_disk")
    BY <1>4 DEF At
  <2>2. req'[o].path = req[o].path /\ At(o, "commit") /\ o # r
    BY <1>1, <1>8, <2>1, NewCommit
  <2>3. InFlight(o)
    BY <2>2 DEF At
  <2>4. ~FP!AtOrBelow(req[o].path, p)
    BY <1>1, <2>2, <2>3, Distant
  <2> QED
    BY <1>5, <2>2, <2>4
<1>9. Rowed(e)'
  BY <1>5, <1>6, <1>7, <1>8 DEF Rowed, Spared
<1>10. r # DIR
  BY <1>1, RequestPaths, StorageAssumption
<1>11. Keeper(e)'
  BY <1>5, <1>9, <1>10 DEF Keeper
<1> QED
  BY <1>5, <1>11

\* All the bytes that are stored are kept: those that were, and the new ones.
LEMMA KeptStep ==
  ASSUME LikeIsExact, Calm, ~Forfeited, \A c \in Stored : Kept(c),
         NEW r \in Requests, Step(r), NEW c \in Stored'
  PROVE  Kept(c)'
<1>1. CASE c \in Stored
  <2>1. PICK e \in store.disk : e.data = c /\ Keeper(e)
    BY <1>1 DEF Kept
  <2>2. PICK f \in store'.disk : f.data = c /\ Keeper(f)'
    BY <2>1, KeeperStays
  <2> QED
    BY <2>2 DEF Kept
<1>2. CASE c \notin Stored
  <2>1. c \in Requests /\ req'[c].status = "ok" /\ req'[c].op \in Writers
    BY <1>2 DEF Stored
  <2>2. ~(req[c].status = "ok" /\ req[c].op \in Writers)
    BY <1>2, <2>1 DEF Stored
  <2>3. c = r /\ req[r].op \in Writers
    <3>1. IInv
      BY DEF Calm, MarksIInv
    <3>2. /\ \A o \in Requests \ {r} : req'[o] = req[o]
          /\ req'[r].op = req[r].op
      BY <3>1, StepFields
    <3> QED
      BY <2>1, <2>2, <3>2
  <2>4. PICK f \in store'.disk : f.data = r /\ Keeper(f)'
    BY <2>1, <2>3, WriterDone
  <2> QED
    BY <2>3, <2>4 DEF Kept
<1> QED
  BY <1>1, <1>2

\* A step keeps the inductive invariant of the bytes.
LEMMA BytesStep ==
  ASSUME LikeIsExact, OnlyUserPaths, BytesIInv, NEW r \in Requests, Step(r)
  PROVE  BytesIInv'
<1>1. QuietIInv' /\ IInv
  BY QuietStep DEF BytesIInv, QuietIInv, MarksIInv
<1>2. ASSUME ~overlap'
      PROVE  Calm /\ Named' /\ Ready' /\ (~Forfeited' => \A c \in Stored' : Kept(c)')
  <2>1. ~overlap
    BY <1>1, <1>2, HistoryStep
  <2>2. Calm
    BY <2>1 DEF BytesIInv, QuietIInv, Calm
  <2>3. Named' /\ Ready'
    BY <2>2, NamedStep, ReadyStep DEF Calm
  <2>4. ASSUME ~Forfeited', NEW c \in Stored' PROVE Kept(c)'
    <3>1. ~Forfeited
      BY <1>1, <2>2, <2>4, ForfeitedStep DEF Calm
    <3> QED
      BY <2>1, <2>2, <2>4, <3>1, KeptStep DEF BytesIInv
  <2> QED
    BY <2>2, <2>3, <2>4
<1> QED
  BY <1>1, <1>2 DEF BytesIInv

----------------------------------------------------------------------------
(* A request begins, a process dies, the server starts.                    *)

\* What a client may ask for is named as a request is.
LEMMA BeginNamed ==
  ASSUME OnlyUserPaths, NEW r \in Requests, NEW in \in Inputs
  PROVE  RequestNamed(Started(r, in))
<1> DEFINE x == Started(r, in)
           d == Destination(r, in)
<1>1. /\ in.path # Root /\ in.op \in Ops
      /\ in.op \in {"restore", "purge"} => in.path[1] = TRASH
      /\ in.op \notin {"restore", "purge"} => Fresh(in.path)
      /\ in.op \in {"rename", "move"} => Fresh(in.dest)
  BY InputAssumption
<1>2. /\ in.op \notin {"restore", "purge"} => UserPath(in.path)
      /\ in.op \in {"rename", "move"} => UserPath(in.dest)
  BY DEF OnlyUserPaths
<1>3. /\ x.op = in.op /\ x.path = in.path /\ x.dest = d
      /\ x \in RequestType /\ x.dest # Root
  BY NewRequest DEF Knows
<1>4. x.dest \in Path /\ Len(x.dest) >= 1
  BY <1>3, LongPath DEF RequestType
<1>5. d[1] # VERSIONS /\ (d[1] = TRASH \/ Fresh(d)) /\ (in.op = "restore" => d = in.path)
  <2>1. CASE in.op = "delete"
    <3>1. d = TrashPath(r, NameOf(in.path))
      BY <2>1 DEF Destination
    <3>2. d[1] = TRASH
      BY <3>1 DEF TrashPath
    <3> QED
      BY <2>1, <3>2, StorageAssumption
  <2>2. CASE in.op \in {"rename", "move"}
    <3>1. d = in.dest
      BY <2>2 DEF Destination
    <3> QED
      BY <1>1, <1>2, <2>2, <3>1 DEF UserPath
  <2>3. CASE in.op \notin {"delete", "rename", "move"}
    <3>1. d = in.path
      BY <2>3 DEF Destination
    <3> QED
      BY <1>1, <1>2, <2>3, <3>1, StorageAssumption DEF UserPath
  <2> QED
    BY <2>1, <2>2, <2>3
<1> HIDE DEF x, d
<1> QED
  BY <1>1, <1>3, <1>4, <1>5 DEF RequestNamed, x

\* A request that begins takes nothing from the disk and from what keeps it.
LEMMA BytesBegin ==
  ASSUME OnlyUserPaths, BytesIInv, NEW r \in Requests, NEW in \in Inputs, Begin(r, in)
  PROVE  BytesIInv'
<1> DEFINE y == Started(r, in)
<1>1. QuietIInv' /\ IInv /\ overlap \in BOOLEAN
  BY QuietBegin DEF BytesIInv, QuietIInv, MarksIInv, IInv
<1>2. /\ req[r].status = "idle" /\ req'[r] = y
      /\ \A o \in Requests \ {r} : req'[o] = req[o]
      /\ store' = store
  BY <1>1, BeginRequests
<1>3. y.pc = 1 /\ y.status = "run" /\ RequestNamed(y) /\ y.op \in Ops
  BY NewRequest, BeginNamed DEF Knows
<1> HIDE DEF y
<1>4. ASSUME ~overlap'
      PROVE  Named' /\ Ready' /\ (~Forfeited' => \A c \in Stored' : Kept(c)')
  <2>1. ~overlap
    BY <1>1, <1>4 DEF Begin
  <2>2. Named /\ Ready /\ req[r].op = "none"
    <3>1. Named /\ Ready
      BY <2>1 DEF BytesIInv
    <3>2. req[r] = Idle
      BY <1>2, <3>1 DEF Named
    <3>3. Idle.op = "none"
      BY DEF Idle
    <3> QED
      BY <3>1, <3>2, <3>3
  <2>3. Named'
    BY <1>2, <1>3, <2>2 DEF Named
  <2>4. Ready'
    <3> SUFFICES ASSUME NEW o \in Requests, InFlight(o)' PROVE Prepared(store', o, req'[o])
      BY DEF Ready
    <3>1. CASE o = r
      BY <1>2, <1>3, <3>1 DEF Prepared, HasFile, Copies, Backs, Clears, Wrote, Leaves
    <3>2. CASE o # r
      BY <1>2, <2>2, <3>2 DEF Ready, InFlight
    <3> QED
      BY <3>1, <3>2
  <2>5. Forfeited => Forfeited'
    <3> SUFFICES ASSUME Forfeited PROVE Forfeited'
      OBVIOUS
    <3>1. PICK a, o \in Requests :
            /\ a # o /\ Touches(o, req[a].dest)
            /\ CutShort(a) \/ (req[a].op = "delete" /\ req[o].op = "purge")
      BY DEF Forfeited
    <3>2. a # r /\ o # r
      BY <1>2, <2>2, <3>1 DEF Touches, CutShort
    <3>3. req'[a] = req[a] /\ req'[o] = req[o]
      BY <1>2, <3>2
    <3>4. Touches(o, req[a].dest)' /\ (CutShort(a) => CutShort(a)')
      BY <3>1, <3>3 DEF Touches, CutShort, Related, Below
    <3> QED
      BY <3>1, <3>3, <3>4 DEF Forfeited
  <2>6. \A p : Spared(p) => Spared(p)'
    <3> SUFFICES ASSUME NEW p, Spared(p) PROVE Spared(p)'
      OBVIOUS
    <3>1. CASE p[1] # TRASH
      BY <3>1 DEF Spared
    <3>2. ASSUME NEW o \in Requests, req[o].op = "delete", FP!AtOrBelow(req[o].dest, p)
          PROVE  Spared(p)'
      <4>1. o # r
        BY <2>2, <3>2
      <4>2. req'[o] = req[o]
        BY <1>2, <4>1
      <4> QED
        BY <3>2, <4>2 DEF Spared
    <3> QED
      BY <3>1, <3>2 DEF Spared
  <2>7. \A o \in Requests : At(o, "commit")' => o # r /\ At(o, "commit") /\ req'[o] = req[o]
    <3> SUFFICES ASSUME NEW o \in Requests, At(o, "commit")'
                 PROVE  o # r /\ At(o, "commit") /\ req'[o] = req[o]
      OBVIOUS
    <3>1. o # r
      <4> SUFFICES ASSUME o = r PROVE FALSE
        OBVIOUS
      <4>1. Plan(y.op)[y.pc] = "commit"
        BY <1>2 DEF At
      <4>2. y.pc \in 1 .. Len(Plan(y.op))
        BY <1>1, <1>2, <1>3 DEF QuietIInv, MarksIInv, IInv, RequestsInv, InFlight
      <4> QED
        BY <1>3, <4>1, <4>2, Positions
    <3> QED
      BY <1>2, <3>1 DEF At, InFlight
  <2>8. \A o \in Requests : At(o, "commit") => At(o, "commit")' /\ req'[o] = req[o]
    BY <1>2 DEF At, InFlight
  <2>9. \A e \in store.disk : Keeper(e) => Keeper(e)'
    <3> SUFFICES ASSUME NEW e \in store.disk, Keeper(e) PROVE Keeper(e)'
      OBVIOUS
    <3>1. CASE Rowed(e)
      <4>1. Spared(e.path)'
        BY <2>6, <3>1 DEF Rowed
      <4>2. \A o \in Requests : At(o, "commit")' => ~FP!AtOrBelow(req'[o].path, e.path)
        BY <2>7, <3>1 DEF Rowed
      <4>3. Rowed(e)'
        BY <1>2, <3>1, <4>1, <4>2 DEF Rowed, Spared
      <4> QED
        BY <4>3 DEF Keeper
    <3>2. CASE Blobbed(e)
      <4>1. PICK v \in store.versions : e.path = Blob(v.ref) /\ Spared(v.path)
        BY <3>2 DEF Blobbed
      <4>2. Spared(v.path)'
        BY <2>6, <4>1
      <4>3. Blobbed(e)'
        BY <1>2, <4>1, <4>2 DEF Blobbed, Spared
      <4> QED
        BY <3>2, <4>3 DEF Keeper
    <3>3. CASE Underway(e)
      <4>1. PICK o \in Requests :
              /\ At(o, "commit")
              /\ \E w \in store.rows : /\ w.dir = FALSE /\ Takes(req[o], w.path)
                                       /\ e.path = MovedPath(req[o].path, req[o].dest, req[o].dir, w.path)
        BY <3>3 DEF Underway
      <4>2. At(o, "commit")' /\ req'[o] = req[o]
        BY <2>8, <4>1
      <4>3. Underway(e)'
        BY <1>2, <4>1, <4>2 DEF Underway
      <4> QED
        BY <4>3 DEF Keeper
    <3>4. CASE Stranded(e)
      <4>1. PICK o \in Requests : CutShort(o) /\ FP!AtOrBelow(req[o].dest, e.path)
        BY <3>4 DEF Stranded
      <4>2. req'[o] = req[o]
        BY <1>2, <4>1 DEF CutShort
      <4>3. Stranded(e)'
        BY <4>1, <4>2 DEF Stranded, CutShort
      <4> QED
        BY <4>3 DEF Keeper
    <3> QED
      BY <3>1, <3>2, <3>3, <3>4 DEF Keeper
  <2>10. Stored' \subseteq Stored
    BY <1>2, <1>3 DEF Stored
  <2>11. ASSUME ~Forfeited', NEW c \in Stored' PROVE Kept(c)'
    <3>1. PICK e \in store.disk : e.data = c /\ Keeper(e)
      BY <2>1, <2>5, <2>10, <2>11 DEF BytesIInv, Kept
    <3>2. e \in store'.disk /\ Keeper(e)'
      BY <1>2, <2>9, <3>1
    <3> QED
      BY <3>1, <3>2 DEF Kept
  <2> QED
    BY <2>3, <2>4, <2>11
<1> QED
  BY <1>1, <1>4 DEF BytesIInv

\* What was on its way when the process died is left where it was moved to.
LEMMA BytesCrash ==
  ASSUME LikeIsExact, BytesIInv, Crash
  PROVE  BytesIInv'
<1>1. QuietIInv' /\ IInv
  BY QuietCrash DEF BytesIInv, QuietIInv, MarksIInv
<1>2. /\ store' = store /\ overlap' = overlap
      /\ \A o \in Requests :
           /\ ~InFlight(o)'
           /\ req'[o].op = req[o].op /\ req'[o].pc = req[o].pc
           /\ req'[o].path = req[o].path /\ req'[o].dest = req[o].dest
           /\ req[o].status = "idle" <=> req'[o].status = "idle"
           /\ InFlight(o) => req'[o].status = "failed"
           /\ ~InFlight(o) => req'[o] = req[o]
  BY <1>1, CrashRequests
<1>3. \A o \in Requests : ~At(o, "commit")'
  BY <1>2 DEF At
<1>4. ASSUME ~overlap'
      PROVE  Named' /\ Ready' /\ (~Forfeited' => \A c \in Stored' : Kept(c)')
  <2>1. ~overlap /\ Named
    BY <1>2, <1>4 DEF BytesIInv
  <2>2. Ready'
    BY <1>2 DEF Ready
  <2>3. Named'
    <3>1. \A o \in Requests : req'[o].status # "idle" => RequestNamed(req'[o])
      <4> SUFFICES ASSUME NEW o \in Requests, req'[o].status # "idle" PROVE RequestNamed(req'[o])
        OBVIOUS
      <4>1. req[o].status # "idle"
        BY <1>2
      <4>2. RequestNamed(req[o])
        BY <2>1, <4>1 DEF Named
      <4> QED
        BY <1>2, <4>2 DEF RequestNamed
    <3>2. \A o \in Requests : req'[o].status = "idle" => req'[o] = Idle
      <4> SUFFICES ASSUME NEW o \in Requests, req'[o].status = "idle" PROVE req'[o] = Idle
        OBVIOUS
      <4>1. req[o].status = "idle"
        BY <1>2
      <4>2. req[o] = Idle
        BY <2>1, <4>1 DEF Named
      <4>3. req'[o] = req[o]
        BY <1>2, <4>1 DEF InFlight
      <4> QED
        BY <4>2, <4>3
    <3> QED
      BY <1>2, <2>1, <3>1, <3>2 DEF Named
  <2>4. \A o \in Requests : CutShort(o) => CutShort(o)'
    BY <1>2 DEF CutShort, InFlight
  <2>5. Forfeited => Forfeited'
    <3> SUFFICES ASSUME Forfeited PROVE Forfeited'
      OBVIOUS
    <3>1. PICK a, o \in Requests :
            /\ a # o /\ Touches(o, req[a].dest)
            /\ CutShort(a) \/ (req[a].op = "delete" /\ req[o].op = "purge")
      BY DEF Forfeited
    <3>2. Touches(o, req[a].dest)'
      BY <1>2, <3>1 DEF Touches, Related, Below
    <3> QED
      BY <1>2, <2>4, <3>1, <3>2 DEF Forfeited
  <2>6. \A p : Spared(p) => Spared(p)'
    BY <1>2 DEF Spared
  <2>7. \A e \in store.disk : Keeper(e) => Keeper(e)'
    <3> SUFFICES ASSUME NEW e \in store.disk, Keeper(e) PROVE Keeper(e)'
      OBVIOUS
    <3>1. CASE Rowed(e)
      <4>1. Spared(e.path)'
        BY <2>6, <3>1 DEF Rowed
      <4>2. Rowed(e)'
        BY <1>2, <1>3, <3>1, <4>1 DEF Rowed, Spared
      <4> QED
        BY <4>2 DEF Keeper
    <3>2. CASE Blobbed(e)
      <4>1. PICK v \in store.versions : e.path = Blob(v.ref) /\ Spared(v.path)
        BY <3>2 DEF Blobbed
      <4>2. Spared(v.path)'
        BY <2>6, <4>1
      <4>3. Blobbed(e)'
        BY <1>2, <4>1, <4>2 DEF Blobbed, Spared
      <4> QED
        BY <3>2, <4>3 DEF Keeper
    <3>3. CASE Underway(e)
      <4>1. PICK o \in Requests :
              /\ At(o, "commit")
              /\ \E w \in store.rows : /\ w.dir = FALSE /\ Takes(req[o], w.path)
                                       /\ e.path = MovedPath(req[o].path, req[o].dest, req[o].dir, w.path)
        BY <3>3 DEF Underway
      <4>2. PICK w \in store.rows : /\ w.dir = FALSE /\ Takes(req[o], w.path)
                                    /\ e.path = MovedPath(req[o].path, req[o].dest, req[o].dir, w.path)
        BY <4>1
      <4>3. InFlight(o) /\ Plan(req[o].op)[req[o].pc] = "commit"
        BY <4>1 DEF At
      <4>4. CutShort(o)'
        BY <1>2, <4>3 DEF CutShort
      <4>5. /\ req[o].path \in Path /\ req[o].dest \in Path /\ req[o].dir \in BOOLEAN
            /\ w.path \in Path
        <5>1. RequestsInv
          BY <1>1 DEF IInv
        <5>2. store.rows \subseteq RowType
          BY <1>1, SameTypes DEF IInv, FP!StoreInv, FP!RowsInv
        <5>3. w.path \in Path
          BY <4>2, <5>2 DEF RowType
        <5> QED
          BY <4>3, <5>1, <5>3, RequestPaths
      <4>6. FP!AtOrBelow(req[o].dest, e.path)
        <5>1. w.path = req[o].path \/ (req[o].dir /\ Below(req[o].path, w.path))
          BY <4>2 DEF Takes
        <5>2. FP!AtOrBelow(req[o].dest, MovedPath(req[o].path, req[o].dest, req[o].dir, w.path))
          BY <4>5, <5>1, TakenPath
        <5> QED
          BY <4>2, <5>2
      <4>7. Stranded(e)'
        BY <1>2, <4>4, <4>6 DEF Stranded
      <4> QED
        BY <3>3, <4>7 DEF Keeper
    <3>4. CASE Stranded(e)
      <4>1. PICK o \in Requests : CutShort(o) /\ FP!AtOrBelow(req[o].dest, e.path)
        BY <3>4 DEF Stranded
      <4>2. Stranded(e)'
        BY <1>2, <2>4, <4>1 DEF Stranded
      <4> QED
        BY <4>2 DEF Keeper
    <3> QED
      BY <3>1, <3>2, <3>3, <3>4 DEF Keeper
  <2>8. Stored' \subseteq Stored
    BY <1>2 DEF Stored, InFlight
  <2>9. ASSUME ~Forfeited', NEW c \in Stored' PROVE Kept(c)'
    <3>1. PICK e \in store.disk : e.data = c /\ Keeper(e)
      BY <2>1, <2>5, <2>8, <2>9 DEF BytesIInv, Kept
    <3>2. e \in store'.disk /\ Keeper(e)'
      BY <1>2, <2>7, <3>1
    <3> QED
      BY <3>1, <3>2 DEF Kept
  <2> QED
    BY <2>2, <2>3, <2>9
<1> QED
  BY <1>1, <1>4 DEF BytesIInv

\* A consistent store keeps the bytes of its live files and of their versions.
LEMMA BytesInit ==
  ASSUME OnlyUserPaths, Init
  PROVE  BytesIInv
<1>1. /\ QuietIInv /\ store = Initial /\ req = [r \in Requests |-> Idle]
      /\ Files!TrashConsistent /\ Files!DiskMatches /\ Files!HistoryAttached
  BY QuietInit DEF Init
<1>2. /\ Idle.status = "idle" /\ Idle.op = "none"
      /\ \A r \in Requests : req[r] = Idle
  BY <1>1 DEF Idle
<1>3. \A r \in Requests : ~InFlight(r)
  BY <1>2 DEF InFlight
<1>4. /\ \A w \in store.rows : /\ w.path \in Path /\ Fresh(w.path) /\ w.path[1] # VERSIONS
                               /\ w.dir \in BOOLEAN /\ w.deleted \in BOOLEAN
                               /\ w.dir = FALSE => w.sum \in Contents
                               /\ w.orig # NoPath => Fresh(w.orig)
  <2>1. /\ \A w \in store.rows : Fresh(w.path) /\ (w.orig # NoPath => Fresh(w.orig))
        /\ \A w \in store.rows : ~w.dir => w.sum \in Contents
    BY <1>1, StartAssumption
  <2>2. \A w \in store.rows : w.path[1] # VERSIONS
    BY <1>1 DEF OnlyUserPaths
  <2>3. \A w \in store.rows : w.path \in Path /\ w.dir \in BOOLEAN /\ w.deleted \in BOOLEAN
    BY <1>1, StartAssumption DEF StoreType, RowType
  <2> QED
    BY <2>1, <2>2, <2>3
<1>5. Named
  BY <1>2, <1>4 DEF Named, RowNamed, Fresh
<1>6. Ready
  BY <1>3 DEF Ready
<1>7. ASSUME NEW c \in Stored PROVE Kept(c)
  <2>1. PICK x \in store.disk :
          /\ x.data = c
          /\ \/ \E w \in store.rows : w.path = x.path /\ ~w.dir /\ ~w.deleted
             \/ \E v \in store.versions : Blob(v.ref) = x.path /\ v.path[1] # TRASH
    BY <1>1, <1>2, <1>7 DEF Stored
  <2>2. \A w, g \in store.rows : w.path = g.path => w = g
    BY <1>1 DEF QuietIInv, MarksIInv, IInv, FP!StoreInv, FP!RowsInv, FP!KeysUnique
  <2>3. CASE \E w \in store.rows : w.path = x.path /\ ~w.dir /\ ~w.deleted
    <3>1. PICK w \in store.rows : w.path = x.path /\ w.dir = FALSE /\ w.deleted = FALSE
      BY <1>4, <2>3
    <3>2. PICK g \in store.rows : x = [path |-> g.path, data |-> IF g.dir THEN DIR ELSE g.sum]
      BY <1>1, <1>4, <3>1 DEF Files!DiskMatches
    <3>3. g = w
      BY <2>2, <3>1, <3>2
    <3>4. x.data # DIR
      BY <1>4, <3>1, <3>2, <3>3, StorageAssumption
    <3>5. x.path[1] # TRASH
      BY <1>1, <3>1 DEF Files!TrashConsistent
    <3>6. Rowed(x)
      BY <1>3, <3>1, <3>5 DEF Rowed, Spared, At
    <3> QED
      BY <2>1, <3>4, <3>6 DEF Kept, Keeper
  <2>4. CASE \E v \in store.versions : Blob(v.ref) = x.path /\ v.path[1] # TRASH
    <3>1. PICK v \in store.versions : Blob(v.ref) = x.path /\ v.path[1] # TRASH
      BY <2>4
    <3>2. x.path[1] = VERSIONS
      BY <3>1 DEF Blob
    <3>3. PICK u \in store.versions : x = [path |-> Files!Blob(u.ref), data |-> u.sum]
      BY <1>1, <3>2 DEF Files!HistoryAttached
    <3>4. u.sum \in Contents
      BY <1>1, StartAssumption DEF StoreType, VersionType
    <3>5. x.data # DIR
      BY <3>3, <3>4, StorageAssumption
    <3>6. Blobbed(x)
      BY <3>1 DEF Blobbed, Spared
    <3> QED
      BY <2>1, <3>5, <3>6 DEF Kept, Keeper
  <2> QED
    BY <2>1, <2>3, <2>4
<1> QED
  BY <1>1, <1>5, <1>6, <1>7 DEF BytesIInv

\* Stuttering keeps the invariant.
LEMMA BytesSame ==
  ASSUME LikeIsExact, OnlyUserPaths, BytesIInv, UNCHANGED vars
  PROVE  BytesIInv'
<1>1. QuietIInv'
  <2>1. MarksIInv'
    BY MarksNext DEF BytesIInv, QuietIInv
  <2> QED
    BY <2>1 DEF vars, BytesIInv, QuietIInv, Apart, BlobsThere, Situated, InFlight
<1> QED
  BY <1>1 DEF vars, BytesIInv, Named, Ready, InFlight, Forfeited, Touches, CutShort, Stored,
     Kept, Keeper, Rowed, Blobbed, Underway, Stranded, Spared, At

\* The inductive invariant of the bytes holds always.
LEMMA BytesAlways ==
  ASSUME LikeIsExact, OnlyUserPaths
  PROVE  Spec => []BytesIInv
<1>1. Init => BytesIInv
  BY BytesInit
<1>2. BytesIInv /\ [Next]_vars => BytesIInv'
  BY BytesSame, BytesStep, BytesBegin, BytesCrash DEF Next
<1> QED
  BY <1>1, <1>2, PTL DEF Spec

(* BytesSurvive in every reachable state, however requests interleave,     *)
(* whoever gives up and whenever the process dies: the bytes a success     *)
(* said are stored, and the ones the live files and their versions had     *)
(* from the start, are on the disk as long as no two requests in flight    *)
(* had related paths and nobody forfeited them.                            *)
THEOREM BytesAlwaysSurvive ==
  ASSUME LikeIsExact, OnlyUserPaths
  PROVE  Spec => []BytesSurvive
<1>1. BytesIInv => BytesSurvive
  BY DEF BytesIInv, BytesSurvive, Kept
<1> QED
  BY <1>1, BytesAlways, PTL

----------------------------------------------------------------------------
(* The invariant of SettleProofs, and what its parts are made of.          *)

\* What a row says of its place, what the disk holds there.
Data(w) == IF w.dir THEN DIR ELSE w.sum
Holds(d, p, c) == [path |-> p, data |-> c] \in d
Says(rows, p, c) == \E w \in rows : w.path = p /\ Data(w) = c

\* The places a step of r may touch.
Zone(r, p) == \/ FP!AtOrBelow(req[r].path, p) \/ FP!AtOrBelow(req[r].dest, p)
              \/ req[r].op = "upload" /\ p = Part(r)

\* The places where the rows and the disk differ while r is in between two steps.
Pends(r, p) ==
  \/ /\ \/ At(r, "remove_bytes") \/ At(r, "insert_row") \/ At(r, "write_bytes")
        \/ At(r, "make_directory") \/ At(r, "update_checksum")
     /\ p = req[r].path
  \/ At(r, "replace") /\ p = Part(r)
  \/ At(r, "commit") /\ (FP!AtOrBelow(req[r].path, p) \/ FP!AtOrBelow(req[r].dest, p))
  \/ At(r, "remove_tree") /\ FP!AtOrBelow(req[r].path, p)

\* Everywhere else they agree.
Agree(p) == \A c : Holds(store.disk, p, c) <=> Says(store.rows, p, c)
Mirrors == \A p \in Path : (p = Root \/ p[1] # VERSIONS) =>
             ((\A r \in Requests : ~Pends(r, p)) => Agree(p))

\* Between the removal of the old row and the insertion of the new one.
Rowless(r) == InFlight(r) /\ (Clears(req[r]) \/ (req[r].op = "save" /\ req[r].pc \in 7 .. 8))

\* What the handler is about to write, and where a commit takes an entry.
NewData(r) == IF req[r].op = "folder" THEN DIR ELSE r
Moving(r, p) == MovedPath(req[r].path, req[r].dest, req[r].dir, p)

\* How they differ there.
Owes(r) ==
  LET p == req[r].path
      d == store.disk
      rows == store.rows
  IN  /\ Rowless(r) => \A c : ~Says(rows, p, c)
      /\ At(r, "remove_bytes") => ~Holds(d, p, DIR)
      /\ At(r, "insert_row") => \A c : Holds(d, p, c) <=> c = r
      /\ At(r, "write_bytes") \/ At(r, "make_directory") =>
           \A c : ~Holds(d, p, c) /\ (Says(rows, p, c) <=> c = NewData(r))
      /\ At(r, "update_checksum") => /\ FileAt(store, p)
                                     /\ \A c : Holds(d, p, c) <=> \E v \in req[r].found : c = v.sum
      /\ At(r, "replace") => \A c : Holds(d, Part(r), c) <=> c = r
      /\ At(r, "commit") => \A q \in Path : \A c :
           FP!AtOrBelow(p, q) \/ FP!AtOrBelow(req[r].dest, q) =>
             (Holds(d, q, c) <=> \E u \in Path : Moving(r, u) = q /\ Says(rows, u, c))
      /\ At(r, "remove_tree") => \A q \in Path : \A c : FP!AtOrBelow(p, q) =>
           ~Says(rows, q, c) /\ (req[r].dir = FALSE /\ Holds(d, q, c) => q = p /\ c # DIR)

\* What a handler has read is still so.
Recalls(r) ==
  LET x == req[r]
      p == x.path
      n == x.pc
  IN  /\ Snapping(x.op, n) => Says(store.rows, p, x.sum)
      /\ At(r, "insert_version") => x.max = NextNo(store, p) - 1
      /\ x.op = "version" /\ n >= 3 => \E v \in store.versions : x.found = {v} /\ v.path = p
      /\ x.op = "purge" /\ n >= 2 => ~(Len(p) > 3)
      /\ x.op = "purge" /\ n \in 2 .. 5 => \E w \in store.rows : w.path = p /\ w.dir = x.dir
      /\ x.op = "purge" /\ n = 3 => x.found = {v \in store.versions : FP!AtOrBelow(p, v.path)}
      /\ x.op = "purge" /\ n >= 4 => \A v \in store.versions : ~FP!AtOrBelow(p, v.path)

\* The version store: the blobs of the versions, copies whose version is not inserted yet,
\* and the blobs that a purge is about to remove.
CopyMade(r) == [path |-> Blob(r), data |-> req[r].sum]
Forgets(r, e) == At(r, "remove_blobs") /\ \E v \in req[r].found : e = FP!BlobOf(v)
BlobsAgree ==
  /\ \A v \in store.versions : FP!BlobOf(v) \in store.disk
  /\ \A r \in Requests : InFlight(r) /\ Copies(req[r]) => CopyMade(r) \in store.disk
  /\ \A e \in store.disk : e.path # Root /\ e.path[1] = VERSIONS =>
       \/ \E v \in store.versions : e = FP!BlobOf(v)
       \/ \E r \in Requests : InFlight(r) /\ Copies(req[r]) /\ e = CopyMade(r)
       \/ \E r \in Requests : Forgets(r, e)

\* A version has its file, or a handler is about to insert it.
Owned(p) == \/ \E w \in store.rows : w.path = p /\ w.dir = FALSE
            \/ \E r \in Requests : Rowless(r) /\ req[r].path = p

(* The invariant.  Only a handler between two of its steps may leave a     *)
(* difference, at its own place, and it owes what removes the difference.  *)
Settled ==
  /\ Calm /\ Mirrors /\ BlobsAgree /\ FP!Numbered(store.versions)
  /\ \A v \in store.versions : Owned(v.path)
  /\ \A r \in Requests : InFlight(r) => Owes(r) /\ Recalls(r)

\* Rows and disk of an invariant store, in those terms.
LEMMA Readable ==
  ASSUME IInv
  PROVE  /\ \A w \in store.rows : /\ w.path \in Path /\ w.path # Root /\ w.dir \in BOOLEAN
                                  /\ Data(w) = DIR <=> w.dir = TRUE
                                  /\ w.dir = FALSE => Data(w) = w.sum /\ w.sum \in Contents
         /\ \A p, b, c : Says(store.rows, p, b) /\ Says(store.rows, p, c) => b = c
         /\ \A p, c : Says(store.rows, p, c) => p \in Path /\ p # Root
         /\ \A e \in store.disk : e.path \in Path /\ Holds(store.disk, e.path, e.data)
                                  /\ e = [path |-> e.path, data |-> e.data]
         /\ \A p, c : Holds(store.disk, p, c) => p \in Path /\ c \in Contents \cup {DIR}
<1>1. /\ store.rows \subseteq RowType /\ FP!KeysUnique(store.rows) /\ store.disk \subseteq EntryType
      /\ \A w \in store.rows : Len(w.path) >= 1 /\ (~w.dir => w.sum \in Contents)
  BY SameTypes, DiskType DEF IInv, FP!StoreInv, FP!RowsInv
<1>2. DIR \notin Contents
  BY StorageAssumption
<1>3. ASSUME NEW w \in store.rows
      PROVE  /\ w.path \in Path /\ w.path # Root /\ w.dir \in BOOLEAN
             /\ Data(w) = DIR <=> w.dir = TRUE
             /\ w.dir = FALSE => Data(w) = w.sum /\ w.sum \in Contents
  <2>1. w.path \in Path /\ w.dir \in BOOLEAN
    BY <1>1 DEF RowType
  <2>2. w.path # Root
    BY <1>1, <2>1, LongPath
  <2> QED
    BY <1>1, <1>2, <2>1, <2>2 DEF Data
<1>4. \A p, b, c : Says(store.rows, p, b) /\ Says(store.rows, p, c) => b = c
  BY <1>1 DEF Says, FP!KeysUnique
<1>5. \A p, c : Says(store.rows, p, c) => p \in Path /\ p # Root
  BY <1>3 DEF Says
<1>6. ASSUME NEW e \in store.disk
      PROVE  /\ e.path \in Path /\ Holds(store.disk, e.path, e.data)
             /\ e = [path |-> e.path, data |-> e.data]
  <2>1. e.path \in Path /\ e = [path |-> e.path, data |-> e.data]
    BY <1>1 DEF EntryType
  <2> QED
    BY <2>1 DEF Holds
<1>7. \A p, c : Holds(store.disk, p, c) => p \in Path /\ c \in Contents \cup {DIR}
  <2> SUFFICES ASSUME NEW p, NEW c, Holds(store.disk, p, c)
               PROVE  p \in Path /\ c \in Contents \cup {DIR}
    OBVIOUS
  <2>1. [path |-> p, data |-> c] \in EntryType
    BY <1>1 DEF Holds
  <2> QED
    BY <2>1 DEF EntryType
<1> QED
  BY <1>3, <1>4, <1>5, <1>6, <1>7

\* The two places of a request in flight.
LEMMA Places ==
  ASSUME Calm, NEW r \in Requests, InFlight(r), NEW z \in {req[r].path, req[r].dest}
  PROVE  z \in Path /\ Len(z) >= 1 /\ z[1] # VERSIONS /\ (z[1] = TRASH \/ Fresh(z))
<1>1. RequestsInv /\ Sided(r, req[r]) /\ RequestNamed(req[r]) /\ Named
  BY DEF Calm, MarksIInv, IInv, SidesInv, Named, InFlight
<1>2. CASE z = req[r].dest
  BY <1>1, <1>2, RequestPlace DEF InFlight
<1>3. CASE z = req[r].path
  <2>1. z \in Path /\ Len(z) >= 1
    BY <1>1, <1>3, RequestPaths
  <2>2. z[1] # VERSIONS /\ (z[1] = TRASH \/ Fresh(z))
    BY <1>1, <1>3 DEF Sided, RequestNamed
  <2> QED
    BY <2>1, <2>2
<1> QED
  BY <1>2, <1>3

\* Nobody else's step touches a place that a step of r may touch, nor one above it.
LEMMA ZonesApart ==
  ASSUME Calm, NEW r \in Requests, NEW o \in Requests \ {r}, InFlight(r), InFlight(o),
         NEW p \in Path, Zone(r, p)
  PROVE  ~Zone(o, p)
<1>1. RequestsInv /\ IInv /\ SidesInv /\ Apart
  BY DEF Calm, MarksIInv, IInv
<1>2. ASSUME NEW z \in {req[r].path, req[r].dest}, NEW y \in {req[o].path, req[o].dest}
      PROVE  ~(FP!AtOrBelow(z, p) /\ FP!AtOrBelow(y, p))
  <2>1. z \in Path /\ y \in Path
    BY Places
  <2> QED
    BY <1>1, <2>1, PathOrder, Distant
<1>3. ASSUME NEW a \in Requests, NEW b \in Requests \ {a}, InFlight(a), InFlight(b),
             NEW z \in {req[a].path, req[a].dest}, req[b].op = "upload"
      PROVE  ~FP!AtOrBelow(z, Part(b))
  <2> SUFFICES ASSUME FP!AtOrBelow(z, Part(b)) PROVE FALSE
    OBVIOUS
  <2>1. z \in Path /\ Len(z) >= 1 /\ (z[1] = TRASH \/ Fresh(z))
    BY <1>3, Places
  <2>2. FP!AtOrBelow(z, req[b].path)
    BY <1>1, <1>3, <2>1, PartApart
  <2> QED
    BY <1>1, <1>3, <2>2, Distant
<1>4. Part(r) # Part(o)
  BY <1>1, PartPath
<1> QED
  BY <1>2, <1>3, <1>4 DEF Zone

\* Nor does it touch a place above, and no part file lies there.
LEMMA AboveZone ==
  ASSUME Calm, NEW r \in Requests, NEW o \in Requests, InFlight(r), InFlight(o),
         NEW z \in {req[r].path, req[r].dest}, NEW q \in Path, Below(q, z)
  PROVE  /\ o # r => ~Zone(o, q)
         /\ req[o].op = "upload" => q # Part(o)
<1>1. RequestsInv /\ IInv /\ SidesInv /\ Apart /\ FP!AtOrBelow(q, z)
  BY SamePaths DEF Calm, MarksIInv, IInv, FP!AtOrBelow
<1>2. z \in Path /\ Len(z) >= 1 /\ (z[1] = TRASH \/ Fresh(z))
  BY Places
<1>3. ASSUME o # r, NEW y \in {req[o].path, req[o].dest}
      PROVE  ~FP!AtOrBelow(y, q)
  <2>1. y \in Path
    BY Places
  <2>2. FP!AtOrBelow(y, q) => FP!AtOrBelow(y, z)
    BY <1>1, <1>2, <2>1, PathOrder
  <2> QED
    BY <1>1, <1>3, <2>2, Distant
<1>4. ASSUME req[o].op = "upload" PROVE q # Part(o)
  <2> SUFFICES ASSUME q = Part(o) PROVE FALSE
    OBVIOUS
  <2> DEFINE p == req[o].path
  <2>1. /\ Len(q) = Len(p) /\ Len(p) >= 1 /\ Len(p) \in Nat /\ q[Len(p)] = o
        /\ Len(p) > 1 => q[1] = p[1]
        /\ Len(p) = 1 => q[1] = o
    BY <1>1, PartPath
  <2>2. Len(q) <= Len(z) /\ \A i \in 1 .. Len(q) : z[i] = q[i]
    BY <1>1, <1>2, PathOrder
  <2>3. p[1] # TRASH /\ o # TRASH
    BY <1>1, <1>4, AsyncAssumption DEF SidesInv, Sided
  <2> HIDE DEF p
  <2>4. z[1] = q[1] /\ q[1] # TRASH
    BY <2>1, <2>2, <2>3
  <2>5. Len(z) \in Nat
    BY <1>2, LongPath
  <2> QED
    BY <1>2, <2>1, <2>2, <2>4, <2>5 DEF Fresh
<1> QED
  BY <1>3, <1>4 DEF Zone

----------------------------------------------------------------------------
(* The disk operators, place by place.                                     *)

\* What the disk operators do to an entry, when the directories above it are there.
Room(d, z) == \A q \in Path : q # Root /\ Below(q, z) =>
  \A c : Holds(d, q, c) <=> (c = DIR /\ (q[1] = TRASH => ~(Len(q) < 3)))

\* Where there is room, making the parents changes nothing.
LEMMA RoomThere ==
  ASSUME NEW d \in SUBSET EntryType, NEW z \in Path, z # Root, Room(d, z)
  PROVE  MakeParents(d, z) = d /\ ~ParentIsFile(d, z)
<1>1. MakeParents(d, z) = d
  <2>1. ASSUME NEW q \in FP!Path, FP!IsPlace(q), FP!Below(q, z) PROVE FP!Dir(q) \in d
    <3>1. q \in Path /\ q # Root /\ Below(q, z) /\ (q[1] = TRASH => Len(q) >= 3) /\ Len(q) \in Nat
      BY <2>1, SameTypes, SamePaths, LongPath DEF FP!IsPlace
    <3>2. q[1] = TRASH => ~(Len(q) < 3)
      BY <3>1
    <3> QED
      BY <3>1, <3>2 DEF Room, Holds, FP!Dir
  <2>2. FP!RoomAt(d, z)
    BY <2>1 DEF FP!RoomAt
  <2>3. z \in FP!Path
    BY SameTypes
  <2>4. FP!MakeParents(d, z) = d
    BY <2>2, <2>3, Assumed, FP!ParentsThere
  <2> QED
    BY <2>4, SameDisk
<1>2. ASSUME NEW i \in 1 .. Len(z) - 1, FileOn(d, SubSeq(z, 1, i)) # {} PROVE FALSE
  <2> DEFINE q == SubSeq(z, 1, i)
  <2>1. z \in FP!Path /\ i \in Int /\ i <= Len(z) /\ Len(z) \in Nat /\ i >= 1
    BY SameTypes, LongPath
  <2>2. q \in FP!Path /\ Len(q) = i
    BY <2>1, Assumed, FP!PrefixPath
  <2>3. q \in Path /\ q # Root /\ Below(q, z)
    <3>1. q \in Path
      BY <2>2, SameTypes
    <3>2. Len(q) < Len(z) /\ SubSeq(z, 1, Len(q)) = q /\ Len(q) >= 1
      BY <2>1, <2>2
    <3> HIDE DEF q
    <3> QED
      BY <3>1, <3>2, LongPath DEF Below
  <2>4. PICK e \in d : e.path = q /\ e.data # DIR
    BY <1>2 DEF FileOn
  <2>5. Holds(d, q, e.data)
    BY <2>4 DEF Holds, EntryType
  <2> QED
    BY <2>3, <2>4, <2>5 DEF Room
<1> QED
  BY <1>1, <1>2 DEF ParentIsFile

\* Nothing lies below a place that has no row.
LEMMA NothingBelow ==
  ASSUME NEW d \in SUBSET EntryType, NEW p \in Path,
         \A q \in Path : \A c : Below(p, q) => ~Holds(d, q, c)
  PROVE  /\ OnDisk(d, p) => \E c : Holds(d, p, c)
         /\ FileOn(d, p) = {} => \A c : Holds(d, p, c) => c = DIR
         /\ ~Holds(d, p, DIR) => ~IsDirOn(d, p)
<1>1. \A e \in d : Holds(d, e.path, e.data) /\ e.path \in Path
  BY DEF Holds, EntryType
<1>2. OnDisk(d, p) => \E c : Holds(d, p, c)
  BY <1>1 DEF OnDisk
<1>3. ASSUME NEW c, Holds(d, p, c), c # DIR PROVE FileOn(d, p) # {}
  BY <1>3 DEF Holds, FileOn
<1> QED
  BY <1>2, <1>3 DEF IsDirOn

\* What writing, removing and replacing leave at a place.
LEMMA DiskForms ==
  ASSUME NEW d \in SUBSET EntryType, NEW p \in Path, NEW q \in Path, NEW b
  PROVE  /\ \A c : MakeParents(d, p) = d =>
                (Holds(WriteFile(d, p, c), q, b) <=> IF q = p THEN b = c ELSE Holds(d, q, b))
         /\ Holds(RemoveFileOn(d, p), q, b) <=> Holds(d, q, b) /\ ~(q = p /\ b # DIR)
         /\ Holds(RemoveTreeOn(d, p), q, b) <=> Holds(d, q, b) /\ ~FP!AtOrBelow(p, q)
<1>1. ASSUME NEW c, MakeParents(d, p) = d
      PROVE  Holds(WriteFile(d, p, c), q, b) <=> IF q = p THEN b = c ELSE Holds(d, q, b)
  <2>1. WriteFile(d, p, c) = {e \in d : e.path # p} \cup {[path |-> p, data |-> c]}
    BY <1>1 DEF WriteFile
  <2> QED
    BY <2>1 DEF Holds
<1>2. Holds(RemoveFileOn(d, p), q, b) <=> Holds(d, q, b) /\ ~(q = p /\ b # DIR)
  BY DEF Holds, RemoveFileOn, FileOn
<1>3. Holds(RemoveTreeOn(d, p), q, b) <=> Holds(d, q, b) /\ ~FP!AtOrBelow(p, q)
  BY SamePaths DEF Holds, RemoveTreeOn, FP!AtOrBelow
<1> QED
  BY <1>1, <1>2, <1>3

\* What a rename leaves at a place.
LEMMA RenameForm ==
  ASSUME NEW d \in SUBSET EntryType, NEW old \in Path, NEW new \in Path, NEW q \in Path, NEW b,
         MakeParents(d, new) = d, OnDisk(d, old)
  PROVE  Holds(RenameOn(d, old, new), q, b) <=>
           \/ Holds(d, q, b) /\ q # new /\ ~FP!AtOrBelow(old, q)
           \/ \E u \in Path : /\ FP!AtOrBelow(old, u) /\ u # new /\ q = Rebase(old, new, u)
                              /\ Holds(d, u, b)
<1> DEFINE f(e) == IF e.path = old \/ Below(old, e.path)
                   THEN [e EXCEPT !.path = Rebase(old, new, @)] ELSE e
           g(e) == [path |-> IF FP!AtOrBelow(old, e.path) THEN Rebase(old, new, e.path) ELSE e.path,
                    data |-> e.data]
<1>1. RenameOn(d, old, new) = {f(e) : e \in {x \in d : x.path # new}}
  BY DEF RenameOn
<1>2. ASSUME NEW e \in d PROVE f(e) = g(e)
  <2>1. e.path = old \/ Below(old, e.path) <=> FP!AtOrBelow(old, e.path)
    BY SamePaths DEF FP!AtOrBelow
  <2>2. e = [path |-> e.path, data |-> e.data]
    BY DEF EntryType
  <2> QED
    BY <2>1, <2>2
<1> HIDE DEF f
<1>3. \A x, y, u, v : [path |-> x, data |-> y] = [path |-> u, data |-> v] <=> x = u /\ y = v
  OBVIOUS
<1>4. Holds(RenameOn(d, old, new), q, b) <=> \E e \in d : e.path # new /\ g(e) = [path |-> q, data |-> b]
  BY <1>1, <1>2 DEF Holds
<1>5. ASSUME NEW e \in d
      PROVE  g(e) = [path |-> q, data |-> b] <=>
               /\ e.data = b
               /\ q = IF FP!AtOrBelow(old, e.path) THEN Rebase(old, new, e.path) ELSE e.path
  BY <1>3 DEF g
<1> HIDE DEF g
<1>6. \A e \in d : e.path \in Path /\ Holds(d, e.path, e.data)
  BY DEF Holds, EntryType
<1>7. \A u, c : Holds(d, u, c) => \E e \in d : e.path = u /\ e.data = c
  BY DEF Holds
<1> QED
  BY <1>4, <1>5, <1>6, <1>7

----------------------------------------------------------------------------
(* Who differs where.                                                      *)

\* A handler differs at its own places only.
LEMMA PendsZone ==
  ASSUME RequestsInv, NEW r \in Requests, NEW p, Pends(r, p)
  PROVE  InFlight(r) /\ Zone(r, p)
<1>1. InFlight(r) /\ (At(r, "replace") => req[r].op = "upload")
  <2>1. InFlight(r)
    BY DEF Pends, At
  <2> QED
    BY <2>1, Where, Positions DEF At
<1> QED
  BY <1>1 DEF Pends, Zone, FP!AtOrBelow

\* What a request may touch is no blob.
LEMMA ZonePlace ==
  ASSUME Calm, NEW r \in Requests, InFlight(r), NEW q \in Path, Zone(r, q)
  PROVE  q # Root /\ q[1] # VERSIONS
<1>1. RequestsInv /\ SidesInv /\ r # VERSIONS
  BY AsyncAssumption DEF Calm, MarksIInv, IInv
<1>2. ASSUME NEW z \in {req[r].path, req[r].dest}, FP!AtOrBelow(z, q)
      PROVE  q # Root /\ q[1] # VERSIONS
  <2>1. z \in Path /\ Len(z) >= 1 /\ z[1] # VERSIONS /\ Len(z) \in Nat
    BY Places, LongPath
  <2>2. Len(z) <= Len(q) /\ q[1] = z[1]
    BY <1>2, <2>1, PathOrder
  <2>3. Len(q) \in Nat /\ Len(q) >= 1
    BY <2>1, <2>2, LongPath
  <2> QED
    BY <2>1, <2>2, <2>3, LongPath
<1>3. ASSUME q = Part(r) PROVE q # Root /\ q[1] # VERSIONS
  <2> DEFINE p == req[r].path
  <2>1. /\ Len(q) = Len(p) /\ Len(p) >= 1 /\ Len(p) \in Nat
        /\ Len(p) > 1 => q[1] = p[1]
        /\ Len(p) = 1 => q[1] = r
    BY <1>1, <1>3, PartPath
  <2>2. p[1] # VERSIONS
    BY Places
  <2> HIDE DEF p
  <2>3. q[1] # VERSIONS
    BY <1>1, <2>1, <2>2
  <2> QED
    BY <2>1, <2>3, LongPath
<1> QED
  BY <1>2, <1>3 DEF Zone

\* At its own places only the request itself can be in between.
LEMMA OwnAgree ==
  ASSUME Settled, NEW r \in Requests, InFlight(r), NEW q \in Path, Zone(r, q), ~Pends(r, q)
  PROVE  Agree(q)
<1>1. Calm /\ RequestsInv /\ Mirrors
  BY DEF Settled, Calm, MarksIInv, IInv
<1>2. ASSUME NEW o \in Requests PROVE ~Pends(o, q)
  BY <1>1, PendsZone, ZonesApart
<1> QED
  BY <1>1, <1>2, ZonePlace DEF Mirrors

\* Where nobody else is at work and the label is not one that differs, they agree.
LEMMA NotPending ==
  ASSUME RequestsInv, NEW r \in Requests, InFlight(r), ~At(r, "commit"), ~At(r, "remove_tree"),
         NEW z \in {req[r].path, req[r].dest}, z = req[r].path \/ At(r, "rename_on_disk"),
         NEW q \in Path, Below(z, q) \/ Below(q, z)
  PROVE  ~Pends(r, q)
<1>1. CASE At(r, "rename_on_disk")
  BY <1>1 DEF Pends, At
<1>2. CASE z = req[r].path
  <2>1. Len(q) # Len(z) /\ Len(Part(r)) = Len(z)
    BY <1>2, PartPath, LongPath DEF Below
  <2> QED
    BY <1>2, <2>1 DEF Pends
<1> QED
  BY <1>1, <1>2

\* Above a place that a row has, or may get, there are directories; the two levels above the
\* roots of the trash are left implicit.
LEMMA RoomAbove ==
  ASSUME Settled, NEW r \in Requests, InFlight(r), ~At(r, "commit"), ~At(r, "remove_tree"),
         NEW z \in {req[r].path, req[r].dest}, z = req[r].path \/ At(r, "rename_on_disk"),
         \/ FP!FolderAt(store.rows, ParentOf(z))
         \/ \E w \in store.rows : w.path = z
         \/ z[1] = TRASH /\ ~(Len(z) > 3)
  PROVE  Room(store.disk, z)
<1>1. /\ Calm /\ IInv /\ RequestsInv /\ Mirrors
      /\ MarksInv(store.rows) /\ FP!TreeInv(store.rows)
  BY DEF Settled, Calm, MarksIInv, IInv
<1>2. z \in Path /\ Len(z) >= 1 /\ Len(z) \in Nat /\ z[1] # VERSIONS
  BY <1>1, Places, LongPath
<1> SUFFICES ASSUME NEW q \in Path, q # Root, Below(q, z), NEW c
             PROVE  Holds(store.disk, q, c) <=> (c = DIR /\ (q[1] = TRASH => ~(Len(q) < 3)))
  BY DEF Room
<1>3. /\ Len(q) \in Nat /\ Len(q) >= 1 /\ Len(q) < Len(z) /\ q[1] = z[1]
      /\ FP!AtOrBelow(q, z) /\ FP!AtOrBelow(q, ParentOf(z))
  <2>1. Len(q) \in Nat /\ Len(q) >= 1
    BY LongPath
  <2>2. FP!AtOrBelow(q, z) /\ FP!AtOrBelow(q, ParentOf(z)) /\ Len(q) < Len(z)
    BY <1>2, PathOrder
  <2> QED
    BY <1>2, <2>1, <2>2, PathOrder
<1>4. ASSUME NEW o \in Requests, Pends(o, q) PROVE FALSE
  <2>1. InFlight(o) /\ Zone(o, q)
    BY <1>1, <1>4, PendsZone
  <2> QED
    BY <1>1, <1>4, <2>1, AboveZone, NotPending
<1>5. Holds(store.disk, q, c) <=> Says(store.rows, q, c)
  BY <1>1, <1>2, <1>3, <1>4 DEF Mirrors, Agree
<1>6. CASE q[1] = TRASH /\ Len(q) < 3
  <2>1. \A w \in store.rows : w.path # q
    <3> SUFFICES ASSUME NEW w \in store.rows, w.path = q PROVE FALSE
      OBVIOUS
    <3>1. w.deleted = TRUE
      BY <1>1, <1>6, RowsPlaced
    <3>2. Len(w.path) >= 3
      BY <1>1, <3>1, RowsPlaced
    <3> QED
      BY <1>3, <1>6, <3>2
  <2> QED
    BY <1>5, <1>6, <2>1 DEF Says
<1>7. CASE q[1] = TRASH => ~(Len(q) < 3)
  <2>1. \E g \in store.rows : g.path = q /\ g.dir = TRUE
    <3>1. ASSUME NEW w \in store.rows, Below(q, w.path)
          PROVE  \E g \in store.rows : g.path = q /\ g.dir = TRUE
      <4>1. \A g \in store.rows : g.dir \in BOOLEAN
        BY <1>1, Readable
      <4> QED
        BY <1>1, <1>3, <1>7, <3>1, <4>1, FoldersAbove
    <3>2. CASE \E w \in store.rows : w.path = z
      BY <3>1, <3>2
    <3>3. CASE FP!FolderAt(store.rows, ParentOf(z))
      <4>1. ParentOf(z) # Root
        <5>1. ParentOf(z) \in Path /\ Len(q) <= Len(ParentOf(z)) /\ Len(ParentOf(z)) \in Nat
          BY <1>2, <1>3, LongPath, PathOrder
        <5> QED
          BY <1>3, <5>1, LongPath
      <4>2. PICK w \in store.rows : w.path = ParentOf(z) /\ w.dir
        BY <3>3, <4>1, SameTypes DEF FP!FolderAt
      <4>3. w.dir = TRUE
        BY <1>1, <4>2, Readable
      <4>4. q = w.path \/ Below(q, w.path)
        BY <1>3, <4>2, SamePaths DEF FP!AtOrBelow
      <4> QED
        BY <3>1, <4>2, <4>3, <4>4
    <3>4. CASE z[1] = TRASH /\ ~(Len(z) > 3)
      BY <1>2, <1>3, <1>7, <3>4
    <3> QED
      BY <3>2, <3>3, <3>4
  <2>2. Says(store.rows, q, DIR)
    BY <1>1, <2>1, Readable DEF Says
  <2>3. Says(store.rows, q, c) <=> c = DIR
    BY <1>1, <2>2, Readable
  <2> QED
    BY <1>5, <1>7, <2>3
<1> QED
  BY <1>6, <1>7

\* Below a place that is no folder there is nothing.
LEMMA LeafBelow ==
  ASSUME Settled, NEW r \in Requests, InFlight(r), ~At(r, "commit"), ~At(r, "remove_tree"),
         NEW z \in {req[r].path, req[r].dest}, z = req[r].path \/ At(r, "rename_on_disk"),
         z[1] = TRASH => ~(Len(z) < 3), \A w \in store.rows : w.path = z => w.dir = FALSE,
         NEW q \in Path, Below(z, q), NEW c
  PROVE  ~Holds(store.disk, q, c) /\ ~Says(store.rows, q, c)
<1>1. /\ Calm /\ IInv /\ RequestsInv
      /\ MarksInv(store.rows) /\ FP!TreeInv(store.rows)
  BY DEF Settled, Calm, MarksIInv, IInv
<1>2. z \in Path /\ Len(z) >= 1
  BY <1>1, Places
<1>3. ~Says(store.rows, q, c)
  BY <1>1, <1>2, FoldersAbove DEF Says
<1>4. Zone(r, q)
  BY SamePaths DEF Zone, FP!AtOrBelow
<1>5. Agree(q)
  BY <1>1, <1>4, NotPending, OwnAgree
<1> QED
  BY <1>3, <1>5 DEF Agree

\* The place of a request that adds or changes a file.
LEMMA OwnPlace ==
  ASSUME Calm, NEW r \in Requests, InFlight(r),
         req[r].op \in {"upload", "chunked", "save", "folder", "version"}
  PROVE  LET p == req[r].path
         IN  /\ p \in Path /\ p # Root /\ Len(p) >= 1 /\ p[1] \notin {TRASH, VERSIONS}
             /\ req[r].dest = p /\ Zone(r, p)
             /\ r \in Contents /\ r # DIR
             /\ \A q \in Path : Below(q, p) => q # Part(r)
             /\ Part(r) \in Path /\ p # Part(r) /\ ~FP!AtOrBelow(p, Part(r))
<1> DEFINE p == req[r].path
           part == Part(r)
<1>1. RequestsInv /\ Sided(r, req[r]) /\ RequestNamed(req[r])
  BY DEF Calm, MarksIInv, IInv, SidesInv, Named, InFlight
<1>2. p \in Path /\ Len(p) >= 1 /\ r \in Contents /\ Len(p) \in Nat
  BY <1>1, RequestPaths, LongPath
<1>3. p[1] \notin {TRASH, VERSIONS} /\ req[r].dest = p /\ Fresh(p)
  BY <1>1 DEF Sided, RequestNamed
<1>4. part \in Path /\ Len(part) = Len(p) /\ part[Len(p)] = r
  BY <1>1, PartPath
<1>5. p # part
  BY <1>2, <1>3, <1>4 DEF Fresh
<1>6. ~Below(p, part) /\ \A q \in Path : Below(q, p) => q # part
  BY <1>2, <1>4 DEF Below
<1>7. p # Root /\ r # DIR
  BY <1>2, LongPath, StorageAssumption
<1>8. ~FP!AtOrBelow(p, part) /\ Zone(r, p)
  BY <1>5, <1>6, SamePaths DEF FP!AtOrBelow, Zone
<1> QED
  BY <1>2, <1>3, <1>4, <1>5, <1>6, <1>7, <1>8

\* The labels that change the disk at the place of a file to be stored.
Touchers == {"remove_bytes", "make_parents", "stream", "replace", "adopt", "insert_row",
             "write_bytes", "make_directory", "copy_back"}

\* Before they touch the disk: the directories above are there, and nothing is below.
LEMMA Cleared ==
  ASSUME Settled, NEW r \in Requests, NEW label \in Touchers, At(r, label)
  PROVE  LET p == req[r].path
             d == store.disk
         IN  /\ req[r].op \in {"upload", "chunked", "save", "folder", "version"}
             /\ Room(d, p)
             /\ label \notin {"write_bytes", "make_directory", "copy_back"} =>
                  Rowless(r) /\ FP!FolderAt(store.rows, ParentOf(p))
             /\ label \in {"write_bytes", "make_directory"} =>
                 req[r].op = IF label = "write_bytes" THEN "save" ELSE "folder"
             /\ label \in {"make_parents", "stream", "replace"} => req[r].op = "upload"
             /\ label = "copy_back" => FileAt(store, p) /\ req[r].op = "version"
             /\ label # "make_directory" => /\ label # "insert_row" => ~Holds(d, p, DIR)
                                            /\ \A q \in Path : \A c : Below(p, q) => ~Holds(d, q, c)
<1> DEFINE x == req[r]
           p == x.path
<1>1. /\ Calm /\ IInv /\ RequestsInv /\ Owes(r) /\ InFlight(r) /\ HasParent(store.rows, x)
      /\ Prepared(store, r, x) /\ x.op \in Ops /\ x.pc \in 1 .. Len(Plan(x.op))
      /\ Plan(x.op)[x.pc] = label
  BY Where DEF Settled, Calm, MarksIInv, IInv, Situated, Ready
<1>2. /\ label \in {"write_bytes", "make_directory"} =>
           x.op = IF label = "write_bytes" THEN "save" ELSE "folder"
      /\ label \in {"make_parents", "stream", "replace"} => x.op = "upload"
      /\ label = "copy_back" => x.op = "version" /\ x.pc = 7
  BY <1>1, Positions DEF Touchers
<1>3. label \notin {"write_bytes", "make_directory", "copy_back"} =>
        Rowless(r) /\ Lands(x) /\ x.op \in {"upload", "chunked", "save"}
  <2> SUFFICES ASSUME label \notin {"write_bytes", "make_directory", "copy_back"}
               PROVE  Rowless(r) /\ Lands(x) /\ x.op \in {"upload", "chunked", "save"}
    OBVIOUS
  <2>1. \/ x.op = "save" /\ x.pc = 7
        \/ x.op = "upload" /\ x.pc \in 8 .. 12
        \/ x.op = "chunked" /\ x.pc \in 8 .. 10
    BY <1>1, Positions DEF Touchers
  <2> QED
    BY <1>1, <2>1 DEF Rowless, Clears, Lands
<1>4. x.op \in {"upload", "chunked", "save", "folder", "version"}
  BY <1>2, <1>3 DEF Touchers
<1>5. /\ p \in Path /\ Len(p) >= 1 /\ p[1] \notin {TRASH, VERSIONS}
      /\ x.dest = p /\ Zone(r, p) /\ r # DIR
  BY <1>1, <1>4, OwnPlace
<1>6. label = "copy_back" => FileAt(store, p)
  BY <1>1, <1>2 DEF Prepared, HasFile
<1>7. label \notin {"write_bytes", "make_directory", "copy_back"} =>
        FP!FolderAt(store.rows, ParentOf(p))
  BY <1>1, <1>3, <1>5 DEF HasParent
<1>8. label \in {"write_bytes", "make_directory"} => Says(store.rows, p, NewData(r))
  BY <1>1 DEF Owes
<1>9. Room(store.disk, p)
  <2>1. \/ FP!FolderAt(store.rows, ParentOf(p))
        \/ \E w \in store.rows : w.path = p
    BY <1>6, <1>7, <1>8 DEF FileAt, Says
  <2>2. ~At(r, "commit") /\ ~At(r, "remove_tree")
    BY <1>1 DEF At, Touchers
  <2> QED
    BY <1>1, <2>1, <2>2, RoomAbove
<1>10. label # "make_directory" => \A w \in store.rows : w.path = p => w.dir = FALSE
  <2>0. SUFFICES ASSUME label # "make_directory", NEW w \in store.rows, w.path = p PROVE w.dir = FALSE
    OBVIOUS
  <2>1. Says(store.rows, p, Data(w)) /\ (Data(w) = DIR <=> w.dir = TRUE) /\ w.dir \in BOOLEAN
    BY <1>1, <2>0, Readable DEF Says
  <2>2. Data(w) # DIR
    <3>1. CASE Rowless(r)
      BY <1>1, <2>1, <3>1 DEF Owes
    <3>2. CASE label = "write_bytes"
      <4>1. NewData(r) = r
        BY <1>2, <3>2 DEF NewData
      <4> QED
        BY <1>1, <1>5, <1>8, <2>1, <3>2, <4>1, Readable
    <3>3. CASE label = "copy_back"
      <4>1. PICK f \in store.rows : f.path = p /\ f.dir = FALSE
        BY <1>6, <3>3 DEF FileAt
      <4>2. Says(store.rows, p, Data(f)) /\ Data(f) # DIR
        BY <1>1, <4>1, Readable DEF Says
      <4> QED
        BY <1>1, <2>1, <4>2, Readable
    <3> QED
      BY <1>3, <2>0, <3>1, <3>2, <3>3
  <2> QED
    BY <2>1, <2>2
<1>11. label # "make_directory" => \A q \in Path : \A c : Below(p, q) => ~Holds(store.disk, q, c)
  <2>1. ~At(r, "commit") /\ ~At(r, "remove_tree")
    BY <1>1 DEF At, Touchers
  <2> QED
    BY <1>1, <1>5, <1>10, <2>1, LeafBelow
<1>12. label \notin {"make_directory", "insert_row"} => ~Holds(store.disk, p, DIR)
  <2>1. CASE label \in {"remove_bytes", "write_bytes"}
    BY <1>1, <2>1 DEF Owes
  <2>2. CASE label \in {"make_parents", "stream", "replace", "adopt", "copy_back"}
    <3>1. ~Pends(r, p)
      BY <1>1, <1>2, <1>5, <2>2, OwnPlace DEF Pends, At
    <3>2. Agree(p)
      BY <1>1, <1>5, <3>1, OwnAgree
    <3>3. ~Says(store.rows, p, DIR)
      <4> SUFFICES ASSUME NEW w \in store.rows, w.path = p, Data(w) = DIR PROVE FALSE
        BY DEF Says
      <4> QED
        BY <1>1, <1>10, <2>2, Readable
    <3> QED
      BY <3>2, <3>3 DEF Agree
  <2> QED
    BY <2>1, <2>2 DEF Touchers
<1> QED
  BY <1>2, <1>3, <1>4, <1>6, <1>7, <1>9, <1>11, <1>12

----------------------------------------------------------------------------
(* What each label does to the disk and to the rows, place by place.       *)

\* A step that is not cut short and does not fail goes on.
LEMMA GoesOn ==
  ASSUME IInv, NEW r \in Requests, InFlight(r), Goes(r)
  PROVE  req'[r].status # "failed" /\ req'[r].pc = req[r].pc + 1
<1>1. req[r] \in RequestType /\ req \in [Requests -> RequestType]
  BY DEF IInv, RequestsInv
<1> QED
  BY <1>1, Resumed DEF Goes

\* What a step that changes the disk leaves.
LEMMA DiskBecomes ==
  ASSUME IInv, NEW d, Becomes([store EXCEPT !.disk = d])
  PROVE  store'.disk = d /\ store'.rows = store.rows /\ store'.versions = store.versions
<1>1. store \in StoreType
  BY SameTypes DEF IInv, FP!StoreInv
<1> QED
  BY <1>1, StoreParts DEF Becomes

\* No row has the name of a .part file.
LEMMA PartFree ==
  ASSUME Calm, NEW r \in Requests, InFlight(r), req[r].op = "upload"
  PROVE  Zone(r, Part(r)) /\ \A c : ~Says(store.rows, Part(r), c)
<1> DEFINE p == req[r].path
           part == Part(r)
<1>1. /\ Len(part) = Len(p) /\ Len(p) >= 1 /\ Len(p) \in Nat /\ part[Len(p)] = r
      /\ Len(p) > 1 => part[1] = p[1]
      /\ Len(p) = 1 => part[1] = r
  BY PartPath DEF Calm, MarksIInv, IInv
<1>2. p[1] # TRASH /\ r # TRASH
  BY OwnPlace, AsyncAssumption
<1>3. ASSUME NEW w \in store.rows, w.path = part PROVE FALSE
  <2>1. RowNamed(part)
    BY <1>3 DEF Calm, Named
  <2> HIDE DEF p, part
  <2>2. part[1] = TRASH
    BY <1>1, <2>1 DEF RowNamed
  <2> QED
    BY <1>1, <1>2, <2>2
<1> QED
  BY <1>3 DEF Says, Zone

\* What is written can be written.
LEMMA FreeToWrite ==
  ASSUME Settled, NEW r \in Requests, NEW label \in Touchers, At(r, label),
         label \notin {"make_directory", "insert_row"},
         NEW rest, rest = store.disk \/ (label = "replace" /\ rest = store.disk \ FileOn(store.disk, Part(r)))
  PROVE  /\ rest \in SUBSET EntryType /\ MakeParents(rest, req[r].path) = rest
         /\ ~ParentIsFile(rest, req[r].path)
         /\ ~WriteFails(rest, req[r].path) /\ ~IsDirOn(rest, req[r].path)
<1> DEFINE p == req[r].path
           d == store.disk
<1>1. /\ Calm /\ IInv /\ InFlight(r)
      /\ req[r].op \in {"upload", "chunked", "save", "folder", "version"}
      /\ Room(d, p) /\ ~Holds(d, p, DIR)
      /\ \A q \in Path : \A c : Below(p, q) => ~Holds(d, q, c)
  BY Cleared, Where DEF Settled, Calm, MarksIInv, IInv
<1>2. p \in Path /\ p # Root /\ \A q \in Path : Below(q, p) => q # Part(r)
  BY <1>1, OwnPlace
<1>3. rest \in SUBSET EntryType
  BY <1>1, DiskType DEF IInv
<1>4. ASSUME NEW q \in Path, NEW c
      PROVE  /\ Holds(rest, q, c) => Holds(d, q, c)
             /\ q # Part(r) /\ Holds(d, q, c) => Holds(rest, q, c)
  BY DEF Holds, FileOn
<1>5. Room(rest, p)
  BY <1>1, <1>2, <1>4 DEF Room
<1>6. ~Holds(rest, p, DIR) /\ \A q \in Path : \A c : Below(p, q) => ~Holds(rest, q, c)
  BY <1>1, <1>2, <1>4
<1> HIDE DEF p, d
<1>7. MakeParents(rest, p) = rest /\ ~ParentIsFile(rest, p)
  BY <1>2, <1>3, <1>5, RoomThere
<1>8. ~IsDirOn(rest, p)
  BY <1>2, <1>3, <1>6, NothingBelow
<1> QED
  BY <1>3, <1>7, <1>8 DEF WriteFails, p

\* What the steps that put one entry on the disk, or take one, do to it.
LEMMA TouchForms ==
  ASSUME Settled, NEW r \in Requests, Step(r), ~faults', NEW label \in Touchers, At(r, label),
         NEW q \in Path, NEW b
  PROVE  LET p == req[r].path
             H == Holds(store.disk, q, b)
             N == Holds(store'.disk, q, b)
         IN  /\ label = "remove_bytes" => (N <=> H /\ q # p)
             /\ label \in {"make_parents", "insert_row"} => (N <=> H)
             /\ label = "stream" => (N <=> IF q = Part(r) THEN b = r ELSE H)
             /\ label = "replace" => (N <=> IF q = p THEN b = r ELSE H /\ q # Part(r))
             /\ label \in {"adopt", "write_bytes"} => (N <=> IF q = p THEN b = r ELSE H)
             /\ label = "make_directory" => (N <=> IF q = p THEN b = DIR ELSE H)
             /\ label # "copy_back" => req'[r].status # "failed"
<1> DEFINE p == req[r].path
           d == store.disk
           part == FileOn(d, Part(r))
<1>1. /\ Calm /\ IInv /\ RequestsInv /\ InFlight(r) /\ Owes(r) /\ d \in SUBSET EntryType
  BY Where, DiskType DEF Settled, Calm, MarksIInv, IInv
<1>2. /\ req[r].op \in {"upload", "chunked", "save", "folder", "version"}
      /\ Room(d, p) /\ (label \in {"stream", "replace", "make_parents"} => req[r].op = "upload")
      /\ label # "make_directory" /\ label # "insert_row" => ~Holds(d, p, DIR)
  BY Cleared
<1>3. /\ p \in Path /\ p # Root /\ Part(r) \in Path /\ p # Part(r) /\ r # DIR /\ Zone(r, p)
      /\ \A u \in Path : Below(u, p) => u # Part(r)
  BY <1>1, <1>2, OwnPlace
<1>4. CASE label = "remove_bytes"
  <2>1. ~WriteFails(d, p) /\ RemoveBytes(r)
    BY <1>4, FreeToWrite, StepLabel
  <2>2. store'.disk = RemoveFileOn(d, p) /\ Goes(r)
    BY <1>1, <2>1, DiskBecomes DEF RemoveBytes
  <2>3. ~Holds(d, p, DIR)
    BY <1>2, <1>4
  <2>7. d \in SUBSET EntryType /\ p \in Path
    BY <1>1, <1>3
  <2> HIDE DEF p, d
  <2>4. Holds(RemoveFileOn(d, p), q, b) <=> Holds(d, q, b) /\ ~(q = p /\ b # DIR)
    BY <2>7, DiskForms
  <2>5. Holds(store'.disk, q, b) <=> Holds(d, q, b) /\ q # p
    BY <2>2, <2>3, <2>4
  <2>6. req'[r].status # "failed"
    BY <1>1, <2>2, GoesOn
  <2> QED
    BY <1>4, <2>5, <2>6 DEF p, d
<1>5. CASE label = "make_parents"
  <2>1. ~ParentIsFile(d, p) /\ MakeParents(d, p) = d /\ MakeUploadParents(r)
    BY <1>4, <1>5, FreeToWrite, StepLabel
  <2>2. store'.disk = d /\ Goes(r)
    BY <1>1, <2>1, DiskBecomes DEF MakeUploadParents
  <2> QED
    BY <1>1, <1>5, <2>2, GoesOn
<1>6. CASE label = "stream"
  <2>1. Stream(r)
    BY <1>6, StepLabel
  <2>2. ParentOf(p) = Root \/ IsDirOn(d, ParentOf(p))
    <3> SUFFICES ASSUME ParentOf(p) # Root PROVE IsDirOn(d, ParentOf(p))
      OBVIOUS
    <3> DEFINE h == ParentOf(p)
    <3>1. h \in Path /\ Below(h, p) /\ Len(p) >= 1 /\ Len(h) \in Nat /\ Len(h) >= 1
      <4>1. p \in FP!Path /\ p # FP!Root /\ Len(p) >= 1
        BY <1>3, SameTypes, LongPath
      <4>2. h \in FP!Path /\ Len(h) = Len(p) - 1
        BY <4>1, Assumed, SamePaths, FP!ParentPath
      <4>3. h \in Path
        BY <4>2, SameTypes
      <4>4. FP!AtOrBelow(h, h)
        BY <4>3, PathOrder
      <4>5. Below(h, p)
        BY <1>3, <4>1, <4>3, <4>4, PathOrder
      <4> QED
        BY <4>1, <4>3, <4>5, LongPath
    <3>2. h[1] # TRASH
      <4>1. FP!AtOrBelow(h, p) /\ p[1] = h[1]
        BY <1>3, <3>1, PathOrder
      <4> QED
        BY <1>1, <1>2, <4>1, OwnPlace
    <3> HIDE DEF h
    <3>3. \A c : Holds(d, h, c) <=> c = DIR
      BY <1>2, <3>1, <3>2, LongPath DEF Room, h
    <3>4. FileOn(d, h) = {} /\ OnDisk(d, h)
      <4>1. \A e \in d : Holds(d, e.path, e.data)
        BY <1>1, Readable
      <4>2. [path |-> h, data |-> DIR] \in d
        BY <3>3 DEF Holds
      <4> QED
        BY <3>3, <4>1, <4>2 DEF FileOn, OnDisk
    <3> QED
      BY <3>4 DEF IsDirOn, h
  <2>3. store'.disk = d \cup {[path |-> Part(r), data |-> r]} /\ Goes(r)
    BY <1>1, <2>1, <2>2, DiskBecomes DEF Stream
  <2>4. ~Holds(d, Part(r), b)
    <3>1. Zone(r, Part(r)) /\ ~Says(store.rows, Part(r), b)
      BY <1>1, <1>2, <1>6, PartFree
    <3>2. ~Pends(r, Part(r))
      BY <1>6 DEF Pends, At
    <3> QED
      BY <1>1, <1>3, <3>1, <3>2, OwnAgree DEF Agree
  <2>5. Holds(store'.disk, q, b) <=> IF q = Part(r) THEN b = r ELSE Holds(d, q, b)
    BY <2>3, <2>4 DEF Holds
  <2> QED
    BY <1>1, <1>6, <2>3, <2>5, GoesOn
<1>7. CASE label = "replace"
  <2>1. ~WriteFails(d \ part, p) /\ MakeParents(d \ part, p) = d \ part /\ Replace(r)
    BY <1>7, FreeToWrite, StepLabel
  <2>2. part # {}
    <3>1. Holds(d, Part(r), r)
      BY <1>1, <1>7 DEF Owes
    <3> QED
      BY <1>3, <3>1 DEF Holds, FileOn
  <2>3. store'.disk = WriteFile(d \ part, p, r) /\ Goes(r)
    BY <1>1, <2>1, <2>2, DiskBecomes DEF Replace
  <2>4. Holds(d \ part, q, b) <=> Holds(d, q, b) /\ q # Part(r)
    <3>1. Holds(d, Part(r), b) => b # DIR
      BY <1>1, <1>3, <1>7 DEF Owes
    <3> QED
      BY <3>1 DEF Holds, FileOn
  <2>5. d \ part \in SUBSET EntryType
    BY <1>1
  <2> HIDE DEF p, d, part
  <2>6. Holds(WriteFile(d \ part, p, r), q, b) <=> IF q = p THEN b = r ELSE Holds(d \ part, q, b)
    BY <1>3, <2>1, <2>5, DiskForms
  <2> QED
    BY <1>1, <1>7, <2>3, <2>4, <2>6, GoesOn DEF p, d
<1>8. CASE label = "adopt"
  <2>1. ~WriteFails(d, p) /\ MakeParents(d, p) = d /\ Adopt(r)
    BY <1>8, FreeToWrite, StepLabel
  <2>2. store'.disk = WriteFile(d, p, r) /\ Goes(r)
    BY <1>1, <2>1, DiskBecomes DEF Adopt
  <2> QED
    BY <1>1, <1>3, <1>8, <2>1, <2>2, DiskForms, GoesOn
<1>9. CASE label = "write_bytes"
  <2>1. ~WriteFails(d, p) /\ MakeParents(d, p) = d /\ WriteBytes(r)
    BY <1>9, FreeToWrite, StepLabel
  <2>2. store'.disk = WriteFile(d, p, r) /\ Goes(r)
    BY <1>1, <2>1, DiskBecomes DEF WriteBytes
  <2> QED
    BY <1>1, <1>3, <1>9, <2>1, <2>2, DiskForms, GoesOn
<1>10. CASE label = "make_directory"
  <2>1. MakeDirectory(r) /\ MakeParents(d, p) = d /\ ~ParentIsFile(d, p)
    BY <1>1, <1>2, <1>3, <1>10, StepLabel, RoomThere
  <2>2. \A c : ~Holds(d, p, c)
    BY <1>1, <1>10 DEF Owes
  <2>3. FileOn(d, p) = {}
    <3>1. \A e \in d : Holds(d, e.path, e.data)
      BY <1>1, Readable
    <3> QED
      BY <2>2, <3>1 DEF FileOn
  <2>4. store'.disk = d \cup {[path |-> p, data |-> DIR]} /\ Goes(r)
    BY <1>1, <2>1, <2>3, DiskBecomes DEF MakeDirectory
  <2>5. Holds(store'.disk, q, b) <=> IF q = p THEN b = DIR ELSE Holds(d, q, b)
    BY <2>2, <2>4 DEF Holds
  <2> QED
    BY <1>1, <1>10, <2>4, <2>5, GoesOn
<1>11. CASE label = "insert_row"
  <2>1. InsertRow(r)
    BY <1>11, StepLabel
  <2>2. ~HasKey(store, p)
    <3>1. Rowless(r)
      BY <1>11, Cleared
    <3>2. \A c : ~Says(store.rows, p, c)
      BY <1>1, <3>1 DEF Owes
    <3> QED
      BY <3>2 DEF HasKey, Says
  <2>3. \A s : ~GivesUp(r, s)
    BY DEF GivesUp
  <2>4. /\ store' = [store EXCEPT !.rows = @ \cup {NewRow(p, FALSE, r, req[r].node)}]
        /\ Goes(r)
    BY <2>1, <2>2, <2>3 DEF InsertRow, Commits, Becomes
  <2>5. store'.disk = d
    <3>1. store \in StoreType
      BY <1>1, SameTypes DEF IInv, FP!StoreInv
    <3> QED
      BY <2>4, <3>1, StoreParts
  <2> QED
    BY <1>1, <1>11, <2>4, <2>5, GoesOn
<1>12. CASE label = "copy_back"
  BY <1>12
<1> QED
  BY <1>4, <1>5, <1>6, <1>7, <1>8, <1>9, <1>10, <1>11, <1>12 DEF Touchers

\* The blob of a version holds the bytes its row says, and nothing else.
LEMMA BlobIs ==
  ASSUME Settled, NEW v \in store.versions, NEW c
  PROVE  Holds(store.disk, Blob(v.ref), c) <=> c = v.sum
<1>1. /\ Calm /\ IInv /\ RequestsInv /\ DrawsInv /\ RefsUnique(store.versions) /\ BlobsAgree
      /\ Situated /\ store.versions \subseteq VersionType
  BY SameTypes DEF Settled, Calm, MarksIInv, IInv, FP!StoreInv, FP!VersionsInv
<1>2. v.ref \in Refs /\ \A u \in store.versions : FP!BlobOf(u) = [path |-> Blob(u.ref), data |-> u.sum]
  BY <1>1, SameDisk DEF VersionType, FP!BlobOf
<1>3. Holds(store.disk, Blob(v.ref), v.sum)
  BY <1>1, <1>2 DEF BlobsAgree, Holds
<1>4. ASSUME Holds(store.disk, Blob(v.ref), c) PROVE c = v.sum
  <2> DEFINE e == [path |-> Blob(v.ref), data |-> c]
  <2>1. e \in store.disk /\ e.path = Blob(v.ref) /\ e.data = c /\ e.path # Root /\ e.path[1] = VERSIONS
    BY <1>4 DEF Holds, Blob, Root
  <2> HIDE DEF e
  <2>2. \A a, b : Blob(a) = Blob(b) => a = b
    BY DEF Blob
  <2>3. CASE \E u \in store.versions : e = FP!BlobOf(u)
    <3>1. PICK u \in store.versions : e = [path |-> Blob(u.ref), data |-> u.sum]
      BY <1>2, <2>3
    <3>2. u.ref = v.ref /\ c = u.sum
      BY <2>1, <2>2, <3>1
    <3> QED
      BY <1>1, <3>2 DEF RefsUnique
  <2>4. ASSUME NEW r \in Requests, InFlight(r), Copies(req[r]), e = CopyMade(r) PROVE FALSE
    <3>1. v.ref = r
      BY <2>1, <2>2, <2>4 DEF CopyMade
    <3>2. Spent(req[r])
      BY <1>1, <3>1 DEF DrawsInv
    <3> QED
      BY <2>4, <3>2 DEF Spent, PastInsert, Copies
  <2>5. ASSUME NEW r \in Requests, Forgets(r, e) PROVE FALSE
    <3>1. PICK u \in req[r].found : e = FP!BlobOf(u)
      BY <2>5 DEF Forgets
    <3>2. u.ref = v.ref
      BY <2>1, <2>2, <3>1, SameDisk DEF FP!BlobOf
    <3>3. InFlight(r) /\ req[r].op = "purge" /\ req[r].pc = 4
      <4>1. At(r, "remove_blobs")
        BY <2>5 DEF Forgets
      <4> QED
        BY <1>1, <4>1, Where, Positions
    <3> QED
      BY <1>1, <3>2, <3>3 DEF Situated, HasRefs
  <2> QED
    BY <1>1, <2>1, <2>3, <2>4, <2>5 DEF BlobsAgree
<1> QED
  BY <1>3, <1>4

\* Copying a blob back over the file.
LEMMA CopyBackForm ==
  ASSUME Settled, NEW r \in Requests, Step(r), At(r, "copy_back"), NEW q \in Path, NEW b
  PROVE  /\ Holds(store'.disk, q, b) <=> IF q = req[r].path THEN \E v \in req[r].found : b = v.sum
                                         ELSE Holds(store.disk, q, b)
         /\ req'[r].status # "failed"
<1> DEFINE p == req[r].path
           d == store.disk
<1>1. /\ Calm /\ IInv /\ RequestsInv /\ InFlight(r) /\ Recalls(r) /\ d \in SUBSET EntryType
      /\ req[r].op = "version" /\ req[r].pc = 7
  BY Where, DiskType, Positions DEF Settled, Calm, MarksIInv, IInv
<1>2. PICK v \in store.versions : req[r].found = {v}
  BY <1>1 DEF Recalls
<1>3. MakeParents(d, p) = d /\ ~ParentIsFile(d, p) /\ ~IsDirOn(d, p)
  BY FreeToWrite DEF Touchers
<1>4. p \in Path
  BY <1>1, OwnPlace
<1>5. (CHOOSE u \in req[r].found : TRUE) = v
  BY <1>2
<1>6. FileOn(d, Blob(v.ref)) = {[path |-> Blob(v.ref), data |-> v.sum]}
  <2>1. \A e \in d : e = [path |-> e.path, data |-> e.data] /\ Holds(d, e.path, e.data)
    BY <1>1, Readable
  <2>2. v.sum # DIR
    BY <1>1, SameTypes, StorageAssumption DEF IInv, FP!StoreInv, FP!VersionsInv, VersionType
  <2>3. \A c : Holds(d, Blob(v.ref), c) <=> c = v.sum
    BY BlobIs
  <2>4. [path |-> Blob(v.ref), data |-> v.sum] \in d
    BY <2>3 DEF Holds
  <2> QED
    BY <2>1, <2>2, <2>3, <2>4 DEF FileOn
<1>7. store'.disk = WriteFile(d, p, v.sum) /\ Goes(r)
  <2>1. CopyBack(r)
    BY StepLabel
  <2> DEFINE blob == FileOn(d, Blob(v.ref))
  <2>2. Goes(r) /\ \E e \in blob : Becomes([store EXCEPT !.disk = WriteFile(d, p, e.data)])
    BY <1>3, <1>5, <1>6, <2>1 DEF CopyBack
  <2>3. Becomes([store EXCEPT !.disk = WriteFile(d, p, v.sum)])
    BY <1>6, <2>2
  <2> QED
    BY <1>1, <2>2, <2>3, DiskBecomes
<1>8. req'[r].status # "failed"
  BY <1>1, <1>7, GoesOn
<1> HIDE DEF p, d
<1>9. Holds(WriteFile(d, p, v.sum), q, b) <=> IF q = p THEN b = v.sum ELSE Holds(d, q, b)
  BY <1>1, <1>3, <1>4, DiskForms
<1> QED
  BY <1>2, <1>7, <1>8, <1>9 DEF p, d

\* Removing a purged entry with all below it.
LEMMA RemoveTreeForm ==
  ASSUME Settled, NEW r \in Requests, Step(r), At(r, "remove_tree"), NEW q \in Path, NEW b
  PROVE  /\ Holds(store'.disk, q, b) <=> Holds(store.disk, q, b) /\ ~FP!AtOrBelow(req[r].path, q)
         /\ req'[r].status # "failed"
<1> DEFINE p == req[r].path
           d == store.disk
<1>1. /\ Calm /\ IInv /\ RequestsInv /\ InFlight(r) /\ Recalls(r) /\ Owes(r) /\ d \in SUBSET EntryType
      /\ req[r].op = "purge" /\ req[r].pc = 6 /\ Mirrors /\ req[r].dir \in BOOLEAN
  BY Where, DiskType, Positions, RequestPaths DEF Settled, Calm, MarksIInv, IInv
<1>2. /\ p \in Path /\ p # Root /\ Len(p) \in Nat /\ Len(p) >= 1 /\ p[1] = TRASH /\ ~(Len(p) > 3)
  BY <1>1, Places, LongPath DEF Recalls, Calm, MarksIInv, SidesInv, Sided
<1>3. Room(d, p)
  <2> SUFFICES ASSUME NEW u \in Path, u # Root, Below(u, p), NEW c
               PROVE  Holds(d, u, c) <=> (c = DIR /\ (u[1] = TRASH => ~(Len(u) < 3)))
    BY DEF Room
  <2>1. Len(u) \in Nat /\ Len(u) < 3 /\ u[1] = TRASH /\ Len(u) >= 1
    <3>1. Len(u) \in Nat /\ Len(u) >= 1
      BY LongPath
    <3>2. Len(u) < Len(p) /\ FP!AtOrBelow(u, p)
      BY <1>2, PathOrder
    <3>3. p[1] = u[1]
      BY <1>2, <3>1, <3>2, PathOrder
    <3> QED
      BY <1>2, <3>1, <3>2, <3>3
  <2>2. ASSUME NEW o \in Requests, Pends(o, u) PROVE FALSE
    <3>1. InFlight(o) /\ Zone(o, u)
      BY <1>1, <2>2, PendsZone
    <3>2. o = r
      BY <1>1, <3>1, AboveZone
    <3>3. FP!AtOrBelow(p, u)
      BY <2>2, <3>2 DEF Pends, At
    <3> QED
      BY <1>2, <3>3, PathOrder
  <2>3. ~Says(store.rows, u, c)
    <3> SUFFICES ASSUME NEW w \in store.rows, w.path = u PROVE FALSE
      BY DEF Says
    <3>1. w.deleted = TRUE /\ Len(w.path) >= 3
      BY <1>1, <2>1, RowsPlaced DEF Calm, MarksIInv
    <3> QED
      BY <2>1, <3>1
  <2>4. ~Holds(d, u, c)
    BY <1>1, <2>1, <2>2, <2>3, StorageAssumption DEF Mirrors, Agree
  <2> QED
    BY <2>1, <2>4
<1>4. ~ParentIsFile(d, p)
  BY <1>1, <1>2, <1>3, RoomThere
<1>5. ASSUME req[r].dir = FALSE
      PROVE  /\ ~WriteFails(d, p)
             /\ FP!AtOrBelow(p, q) /\ Holds(d, q, b) => q = p /\ b # DIR
  <2>1. \A u \in Path : \A c : FP!AtOrBelow(p, u) /\ Holds(d, u, c) => u = p /\ c # DIR
    BY <1>1, <1>5 DEF Owes
  <2>2. \A u \in Path : Below(p, u) => u # p /\ FP!AtOrBelow(p, u)
    BY <1>2, PathOrder
  <2>3. \A u \in Path : \A c : Below(p, u) => ~Holds(d, u, c)
    BY <2>1, <2>2
  <2>4. ~Holds(d, p, DIR)
    BY <1>2, <2>1, PathOrder
  <2> HIDE DEF p, d
  <2>5. ~IsDirOn(d, p)
    BY <1>1, <1>2, <2>3, <2>4, NothingBelow
  <2> QED
    BY <1>4, <2>1, <2>5 DEF WriteFails
<1>6. /\ store'.disk = IF req[r].dir THEN RemoveTreeOn(d, p) ELSE RemoveFileOn(d, p)
      /\ Goes(r)
  <2>1. RemoveTree(r)
    BY StepLabel
  <2>2. Goes(r)
    BY <1>1, <1>5, <2>1 DEF RemoveTree
  <2>3. Becomes([store EXCEPT !.disk = IF req[r].dir THEN RemoveTreeOn(d, p) ELSE RemoveFileOn(d, p)])
    BY <2>1 DEF RemoveTree
  <2> QED
    BY <1>1, <2>2, <2>3, DiskBecomes
<1>7. req'[r].status # "failed"
  BY <1>1, <1>6, GoesOn
<1>8. FP!AtOrBelow(p, p)
  BY <1>2, PathOrder
<1>9. d \in SUBSET EntryType /\ p \in Path
  BY <1>1, <1>2
<1> HIDE DEF p, d
<1>10. Holds(RemoveFileOn(d, p), q, b) <=> Holds(d, q, b) /\ ~(q = p /\ b # DIR)
  BY <1>9, DiskForms
<1>11. Holds(RemoveTreeOn(d, p), q, b) <=> Holds(d, q, b) /\ ~FP!AtOrBelow(p, q)
  BY <1>9, DiskForms
<1> QED
  BY <1>1, <1>5, <1>6, <1>7, <1>8, <1>10, <1>11 DEF p, d

\* The two steps that touch the version store.
LEMMA BlobForms ==
  ASSUME IInv, NEW r \in Requests, Step(r), NEW q \in Path, NEW b
  PROVE  /\ At(r, "copy_blob") =>
              (Holds(store'.disk, q, b) <=>
                 \/ Holds(store.disk, q, b)
                 \/ q = Blob(r) /\ b # DIR /\ Holds(store.disk, req[r].path, b))
         /\ At(r, "remove_blobs") =>
              (Holds(store'.disk, q, b) <=>
                 Holds(store.disk, q, b) /\ \A v \in req[r].found : q # Blob(v.ref))
         /\ At(r, "copy_blob") \/ At(r, "remove_blobs") => req'[r].status # "failed"
<1> DEFINE p == req[r].path
           d == store.disk
<1>1. /\ RequestsInv /\ InFlight(r) /\ d \in SUBSET EntryType
      /\ \A e \in d : e = [path |-> e.path, data |-> e.data] /\ Holds(d, e.path, e.data)
  BY StepLabel, DiskType, Readable DEF IInv
<1>2. ASSUME At(r, "copy_blob")
      PROVE  /\ Holds(store'.disk, q, b) <=> \/ Holds(d, q, b)
                                             \/ q = Blob(r) /\ b # DIR /\ Holds(d, p, b)
             /\ req'[r].status # "failed"
  <2>1. CopyBlob(r) /\ req[r] \in RequestType /\ req[r].pc \in Nat
    BY <1>1, <1>2, StepLabel DEF RequestsInv, RequestType
  <2>2. store'.disk = d \cup {[e EXCEPT !.path = Blob(r)] : e \in FileOn(d, p)}
    BY <2>1, DiskBecomes DEF CopyBlob
  <2>3. req'[r].status # "failed"
    <3>1. Resume(r, req[r], 3) \/ Resume(r, req[r], 1)
      BY <2>1 DEF CopyBlob, Goes
    <3> QED
      BY <1>1, <2>1, <3>1, Resumed DEF RequestsInv
  <2>4. \A e \in FileOn(d, p) :
          [e EXCEPT !.path = Blob(r)] = [path |-> Blob(r), data |-> e.data]
    BY <1>1 DEF FileOn, EntryType
  <2>5. Holds(store'.disk, q, b) <=>
          Holds(d, q, b) \/ \E e \in FileOn(d, p) : q = Blob(r) /\ b = e.data
    BY <2>2, <2>4 DEF Holds
  <2>6. (\E e \in FileOn(d, p) : b = e.data) <=> b # DIR /\ Holds(d, p, b)
    BY <1>1 DEF FileOn, Holds
  <2> QED
    BY <2>3, <2>5, <2>6
<1>3. ASSUME At(r, "remove_blobs")
      PROVE  /\ Holds(store'.disk, q, b) <=>
                  Holds(d, q, b) /\ \A v \in req[r].found : q # Blob(v.ref)
             /\ req'[r].status # "failed"
  <2>1. RemoveBlobs(r)
    BY <1>3, StepLabel
  <2>2. store'.disk = {e \in d : \A v \in req[r].found : e.path # Blob(v.ref)} /\ Goes(r)
    BY <2>1, DiskBecomes DEF RemoveBlobs
  <2>3. req'[r].status # "failed"
    BY <1>1, <2>2, GoesOn
  <2> QED
    BY <2>2, <2>3 DEF Holds
<1> QED
  BY <1>2, <1>3

\* Where a rename may run, nothing is at the new place, nor below it.
LEMMA MovesAway ==
  ASSUME LikeIsExact, Settled, NEW r \in Requests, InFlight(r), At(r, "rename_on_disk"),
         ~RelocateFails(store, req[r].path, req[r].dest, req[r].dir)
  PROVE  LET p == req[r].path
             z == req[r].dest
         IN  /\ p \in Path /\ z \in Path /\ req[r].dir \in BOOLEAN
             /\ ~FP!AtOrBelow(p, z) /\ ~FP!AtOrBelow(z, p)
             /\ OnDisk(store.disk, p) /\ MakeParents(store.disk, z) = store.disk
             /\ \A q \in Path : \A c : FP!AtOrBelow(z, q) =>
                  ~Holds(store.disk, q, c) /\ ~Says(store.rows, q, c)
             /\ \A q \in Path : FP!AtOrBelow(p, q) => Agree(q)
             /\ req[r].dir = FALSE => \A q \in Path : \A c : Below(p, q) => ~Says(store.rows, q, c)
<1> DEFINE x == req[r]
           p == x.path
           z == x.dest
           d == store.disk
<1>1. /\ Calm /\ IInv /\ RequestsInv
      /\ Sided(r, x) /\ HasSource(store.rows, x) /\ HasParent(store.rows, x)
      /\ x.op \in Ops /\ x.pc \in 1 .. Len(Plan(x.op)) /\ Prepared(store, r, x)
      /\ MarksInv(store.rows) /\ FP!TreeInv(store.rows)
  BY DEF Settled, Calm, MarksIInv, IInv, InFlight, RequestsInv, Knows, SidesInv, Situated, Ready
<1>2. /\ p \in Path /\ z \in Path /\ Len(z) >= 1 /\ x.dir \in BOOLEAN /\ Len(p) >= 1
  BY <1>1, RequestPaths
<1>3. \/ x.op = "delete" /\ x.pc = 2
      \/ x.op = "rename" /\ x.pc = 3
      \/ x.op \in {"move", "restore"} /\ x.pc = 4
  BY <1>1, Positions DEF At
<1>4. PICK g \in store.rows : /\ g.path = p /\ g.dir = x.dir
                              /\ x.op \in {"rename", "move", "delete"} => g.deleted = FALSE
  BY <1>1, <1>3 DEF HasSource, MovesLive, MovesBack
<1>5. p # z
  <2>1. CASE x.op \in {"rename", "move"}
    BY <1>1, <1>3, <2>1 DEF Prepared, Leaves
  <2>2. CASE x.op = "delete"
    <3>1. p[1] # TRASH /\ z = TrashPath(r, NameOf(p))
      BY <1>1, <2>2 DEF Sided
    <3>2. z[1] = TRASH
      BY <3>1 DEF TrashPath
    <3> QED
      BY <3>1, <3>2
  <2>3. CASE x.op = "restore"
    <3>1. p[1] = TRASH /\ z[1] # TRASH
      BY <1>1, <1>3, <2>3 DEF Sided, UserPath
    <3> QED
      BY <3>1
  <2> QED
    BY <1>3, <2>1, <2>2, <2>3
<1>6. /\ ~Pends(r, p)
      /\ \A q \in Path : FP!AtOrBelow(p, q) \/ FP!AtOrBelow(z, q) => ~Pends(r, q) /\ Zone(r, q)
  BY DEF Pends, At, Zone
<1>7. \A q \in Path : FP!AtOrBelow(p, q) \/ FP!AtOrBelow(z, q) => Agree(q)
  BY <1>6, OwnAgree
<1>8. Says(store.rows, p, Data(g))
  BY <1>4 DEF Says
<1>9. OnDisk(d, p)
  <2>1. Holds(d, p, Data(g))
    BY <1>2, <1>7, <1>8, PathOrder DEF Agree
  <2> QED
    BY <2>1 DEF Holds, OnDisk
<1>10. ~Below(p, z) /\ ~KeyClash(store.rows, p, z, x.dir)
  BY <1>9 DEF RelocateFails, RenameFails
<1>11. z[1] = TRASH => ~(Len(z) < 3) /\ ~(Len(z) > 3)
  <2>1. CASE x.op = "delete"
    <3>1. z = <<TRASH, r, NameOf(p)>>
      BY <1>1, <2>1 DEF Sided, TrashPath
    <3> HIDE DEF z
    <3>2. Len(z) = 3
      BY <3>1
    <3> QED
      BY <3>2
  <2>2. CASE x.op = "restore"
    BY <1>1, <1>3, <2>2 DEF Sided, UserPath
  <2>3. CASE x.op \in {"rename", "move"}
    BY <1>1, <2>3 DEF Sided, UserPath
  <2> QED
    BY <1>3, <2>1, <2>2, <2>3
<1>12. \A w \in store.rows : w.path # z
  <2> SUFFICES ASSUME NEW w \in store.rows, w.path = z PROVE FALSE
    OBVIOUS
  <2>1. MovedPath(p, z, x.dir, g.path) = z
    <3>1. p \in Path /\ z \in Path /\ ~Below(p, z) /\ x.dir \in BOOLEAN
      BY <1>2, <1>10
    <3> HIDE DEF p, z, x
    <3>2. MovedPath(p, z, x.dir, p) = Rebase(p, z, p)
      BY <3>1, TakenPath
    <3>3. Rebase(p, z, p) = z
      BY <3>1, RebasedAt
    <3> QED
      BY <1>4, <3>2, <3>3
  <2>2. MovedPath(p, z, x.dir, w.path) = z
    <3>1. MovedPath(p, z, x.dir, z) = z
      <4>1. p \in Path /\ z \in Path /\ z # p /\ ~Below(p, z)
        BY <1>2, <1>5, <1>10
      <4> HIDE DEF p, z
      <4> QED
        BY <4>1, MovedAt
    <3> QED
      BY <1>5, <1>10, <3>1
  <2> QED
    BY <1>4, <1>5, <1>10, <2>1, <2>2 DEF KeyClash
<1>13. ~At(r, "commit") /\ ~At(r, "remove_tree")
  BY DEF At
<1>14. \A q \in Path : \A c : Below(z, q) => ~Holds(d, q, c) /\ ~Says(store.rows, q, c)
  BY <1>1, <1>11, <1>12, <1>13, LeafBelow
<1>15. \A c : ~Holds(d, z, c) /\ ~Says(store.rows, z, c)
  BY <1>2, <1>7, <1>12, PathOrder DEF Agree, Says
<1>16. ~Below(z, p)
  BY <1>2, <1>8, <1>14
<1>17. Room(d, z)
  <2>1. x.op # "delete" => FP!FolderAt(store.rows, ParentOf(z))
    <3>1. CASE x.op = "rename"
      <4>1. ParentOf(z) = ParentOf(p)
        BY <1>1, <3>1 DEF Sided
      <4>2. FP!FolderAt(store.rows, ParentOf(g.path))
        BY <1>1, <1>4, <3>1, LiveFolder
      <4> QED
        BY <1>4, <4>1, <4>2
    <3>2. CASE x.op \in {"move", "restore"}
      BY <1>1, <1>3, <3>2 DEF HasParent, Lands
    <3> QED
      BY <1>3, <3>1, <3>2
  <2>2. x.op = "delete" => z[1] = TRASH
    BY <1>1 DEF Sided, TrashPath
  <2> QED
    BY <1>1, <1>11, <1>13, <2>1, <2>2, RoomAbove
<1>18. MakeParents(d, z) = d
  <2>1. d \in SUBSET EntryType /\ z # Root
    BY <1>1, <1>2, DiskType, LongPath DEF IInv
  <2> QED
    BY <1>2, <1>17, <2>1, RoomThere
<1>19. x.dir = FALSE => \A q \in Path : \A c : Below(p, q) => ~Says(store.rows, q, c)
  <2>1. \A w \in store.rows : x.dir = FALSE => ~Below(g.path, w.path)
    BY <1>1, <1>4, FilesAreLeaves
  <2> QED
    BY <1>4, <2>1 DEF Says
<1>20. \A q \in Path : FP!AtOrBelow(z, q) <=> q = z \/ Below(z, q)
  BY SamePaths DEF FP!AtOrBelow
<1>21. ~FP!AtOrBelow(p, z) /\ ~FP!AtOrBelow(z, p)
  BY <1>5, <1>10, <1>16, SamePaths DEF FP!AtOrBelow
<1> QED
  BY <1>2, <1>7, <1>9, <1>14, <1>15, <1>18, <1>19, <1>20, <1>21

\* A rename takes everything along: afterwards it is where the rows will say.
LEMMA RenameMoves ==
  ASSUME LikeIsExact, Settled, NEW r \in Requests, Step(r), At(r, "rename_on_disk"),
         req'[r].status # "failed", NEW q \in Path, NEW b
  PROVE  LET p == req[r].path
             z == req[r].dest
         IN  Holds(store'.disk, q, b) <=>
               IF FP!AtOrBelow(p, q) \/ FP!AtOrBelow(z, q)
               THEN \E u \in Path : Moving(r, u) = q /\ Says(store.rows, u, b)
               ELSE Holds(store.disk, q, b)
<1> DEFINE x == req[r]
           p == x.path
           z == x.dest
           d == store.disk
           rows == store.rows
<1>1. /\ IInv /\ InFlight(r) /\ store'.disk = RenameOn(d, p, z)
      /\ ~RelocateFails(store, p, z, x.dir) /\ d \in SUBSET EntryType
  BY StepLabel, Outcome, DiskType DEF Settled, Calm, MarksIInv, IInv, Did
<1>2. /\ p \in Path /\ z \in Path /\ x.dir \in BOOLEAN
      /\ ~FP!AtOrBelow(p, z) /\ ~FP!AtOrBelow(z, p)
      /\ OnDisk(d, p) /\ MakeParents(d, z) = d
  BY <1>1, MovesAway
<1>3. \A u \in Path : \A c : FP!AtOrBelow(z, u) => ~Holds(d, u, c) /\ ~Says(rows, u, c)
  BY <1>1, MovesAway
<1>4. \A u \in Path : FP!AtOrBelow(p, u) => Agree(u)
  BY <1>1, MovesAway
<1>5. x.dir = FALSE => \A u \in Path : \A c : Below(p, u) => ~Says(rows, u, c)
  BY <1>1, MovesAway
<1>6. \A u \in Path : \A c : FP!AtOrBelow(p, u) => (Holds(d, u, c) <=> Says(rows, u, c))
  BY <1>4 DEF Agree
<1>7. \A u : FP!AtOrBelow(p, u) <=> u = p \/ Below(p, u)
  BY SamePaths DEF FP!AtOrBelow
<1>8. \A u \in Path : Moving(r, u) = MovedPath(p, z, x.dir, u)
  BY DEF Moving
<1> HIDE DEF p, z, d, rows
<1>9. Holds(RenameOn(d, p, z), q, b) <=>
        \/ Holds(d, q, b) /\ q # z /\ ~FP!AtOrBelow(p, q)
        \/ \E u \in Path : /\ FP!AtOrBelow(p, u) /\ u # z /\ q = Rebase(p, z, u) /\ Holds(d, u, b)
  <2>1. d \in SUBSET EntryType
    BY <1>1
  <2> QED
    BY <1>2, <2>1, RenameForm
<1>10. FP!AtOrBelow(p, p) /\ FP!AtOrBelow(z, z)
  BY <1>2, PathOrder
<1>11. ~(FP!AtOrBelow(p, q) /\ FP!AtOrBelow(z, q))
  BY <1>2, PathOrder
<1>12. \A u \in Path : FP!AtOrBelow(z, Rebase(p, z, u))
  BY <1>2, RebasedAt
<1>13. ASSUME NEW u \in Path, ~FP!AtOrBelow(p, u) PROVE Moving(r, u) = u
  <2>1. p \in Path /\ z \in Path /\ u # p /\ ~Below(p, u)
    BY <1>2, <1>7, <1>13
  <2>2. MovedPath(p, z, x.dir, u) = u
    BY <2>1, MovedAt
  <2> QED
    BY <1>8, <2>2
<1>14. ASSUME NEW u \in Path, FP!AtOrBelow(p, u), Says(rows, u, b)
       PROVE  Moving(r, u) = Rebase(p, z, u)
  <2>1. u = p \/ (x.dir /\ Below(p, u))
    BY <1>2, <1>5, <1>7, <1>14
  <2>2. ~Below(p, z)
    BY <1>2, <1>7
  <2>3. x.dir \in BOOLEAN
    BY <1>2
  <2> QED
    BY <1>2, <1>8, <2>1, <2>2, <2>3, TakenPath
<1>15. ASSUME NEW u \in Path, Moving(r, u) = q, Says(rows, u, b),
              FP!AtOrBelow(p, q) \/ FP!AtOrBelow(z, q)
       PROVE  FP!AtOrBelow(p, u) /\ q = Rebase(p, z, u) /\ Holds(d, u, b)
  <2>1. FP!AtOrBelow(p, u)
    BY <1>3, <1>13, <1>15
  <2> QED
    BY <1>6, <1>14, <1>15, <2>1
<1>16. ASSUME NEW u \in Path, FP!AtOrBelow(p, u), q = Rebase(p, z, u), Holds(d, u, b)
       PROVE  FP!AtOrBelow(z, q) /\ Moving(r, u) = q /\ Says(rows, u, b)
  BY <1>6, <1>12, <1>14, <1>16
<1>17. CASE FP!AtOrBelow(p, q)
  <2>1. ~Holds(RenameOn(d, p, z), q, b)
    BY <1>9, <1>11, <1>12, <1>17
  <2>2. ASSUME NEW u \in Path, Moving(r, u) = q, Says(rows, u, b) PROVE FALSE
    BY <1>11, <1>12, <1>15, <1>17, <2>2
  <2> QED
    BY <1>1, <1>17, <2>1, <2>2 DEF p, z, d, rows
<1>18. CASE FP!AtOrBelow(z, q)
  <2>1. ~Holds(d, q, b)
    BY <1>3, <1>18
  <2>2. Holds(RenameOn(d, p, z), q, b) <=>
          \E u \in Path : FP!AtOrBelow(p, u) /\ q = Rebase(p, z, u) /\ Holds(d, u, b)
    BY <1>2, <1>9, <2>1
  <2>3. Holds(RenameOn(d, p, z), q, b) <=> \E u \in Path : Moving(r, u) = q /\ Says(rows, u, b)
    BY <1>15, <1>16, <1>18, <2>2
  <2> QED
    BY <1>1, <1>18, <2>3 DEF p, z, d, rows
<1>19. CASE ~FP!AtOrBelow(p, q) /\ ~FP!AtOrBelow(z, q)
  <2>1. Holds(RenameOn(d, p, z), q, b) <=> Holds(d, q, b)
    BY <1>9, <1>10, <1>12, <1>19
  <2> QED
    BY <1>1, <1>19, <2>1 DEF p, z, d, rows
<1> QED
  BY <1>17, <1>18, <1>19 DEF p, z

----------------------------------------------------------------------------
(* What each label does to what the rows say.                              *)

\* What the steps that change rows make them say.
LEMMA MarkedSays ==
  ASSUME NEW rows \in SUBSET RowType, NEW p, NEW x, NEW q, NEW c
  PROVE  /\ Says(Stamped(rows, p, x), q, c) <=> Says(rows, q, c)
         /\ Says(Unstamped(rows, p), q, c) <=> Says(rows, q, c)
<1> DEFINE a(w) == IF Covers(p, w.path)
                   THEN [w EXCEPT !.deleted = TRUE, !.orig = IF w.path = p THEN x ELSE @] ELSE w
           b(w) == IF Covers(p, w.path) THEN [w EXCEPT !.deleted = FALSE, !.orig = NoPath] ELSE w
<1>1. \A w \in rows : /\ a(w).path = w.path /\ Data(a(w)) = Data(w)
                      /\ b(w).path = w.path /\ Data(b(w)) = Data(w)
  BY DEF RowType, Data
<1>2. Stamped(rows, p, x) = {a(w) : w \in rows} /\ Unstamped(rows, p) = {b(w) : w \in rows}
  BY DEF Stamped, Unstamped
<1> HIDE DEF a, b
<1> QED
  BY <1>1, <1>2 DEF Says

\* The rows of a moved subtree say at the new places what they said at the old ones.
LEMMA MovedSays ==
  ASSUME NEW rows \in SUBSET RowType, \A w \in rows : Len(w.path) >= 1,
         NEW old \in Path, NEW new \in Path, Len(new) >= 1, NEW dir \in BOOLEAN, NEW q, NEW c
  PROVE  Says(RelocateRows(rows, old, new, dir), q, c) <=>
           \E u \in Path : MovedPath(old, new, dir, u) = q /\ Says(rows, u, c)
<1> DEFINE m(w) == FP!MovedRow(old, new, dir, w)
<1>1. ASSUME NEW w \in rows
      PROVE  m(w).path = MovedPath(old, new, dir, w.path) /\ Data(m(w)) = Data(w) /\ w.path \in Path
  <2>1. w \in RowType /\ w.path \in Path /\ Len(w.path) >= 1
    BY DEF RowType
  <2>2. m(w).path = FP!MovedPath(old, new, dir, w.path) /\ m(w).dir = w.dir /\ m(w).sum = w.sum
    BY <2>1, Assumed, SameTypes, FP!MovedRowFields
  <2>3. FP!MovedPath(old, new, dir, w.path) = MovedPath(old, new, dir, w.path)
    BY SamePaths
  <2> HIDE DEF m
  <2> QED
    BY <2>1, <2>2, <2>3 DEF Data
<1>2. RelocateRows(rows, old, new, dir) = {m(w) : w \in rows}
  BY SameRows DEF FP!RelocateRows
<1> HIDE DEF m
<1> QED
  BY <1>1, <1>2 DEF Says

\* So does a commit.
LEMMA CommitSays ==
  ASSUME IInv, NEW r \in Requests, Step(r), At(r, "commit"), NEW q, NEW c
  PROVE  /\ Says(store'.rows, q, c) <=> \E u \in Path : Moving(r, u) = q /\ Says(store.rows, u, c)
         /\ req'[r].status # "failed"
<1> DEFINE x == req[r]
           rows == RelocateRows(store.rows, x.path, x.dest, x.dir)
<1>1. /\ RequestsInv /\ InFlight(r) /\ store \in StoreType /\ store.rows \in SUBSET RowType
      /\ \A w \in store.rows : Len(w.path) >= 1
  BY StepLabel, SameTypes DEF IInv, FP!StoreInv, FP!RowsInv
<1>2. x.path \in Path /\ x.dest \in Path /\ Len(x.dest) >= 1 /\ x.dir \in BOOLEAN
  BY <1>1, RequestPaths
<1>3. Commit(r)
  BY StepLabel
<1>4. req'[r].status # "failed"
  BY <1>1, <1>3, GoesOn DEF Commit
<1>5. store'.rows \in {rows, Stamped(rows, x.dest, x.path), Unstamped(rows, x.dest)}
  BY <1>1, <1>3 DEF Commit, StoreType
<1>6. rows \in SUBSET RowType
  <2>1. FP!RowsInv(store.rows) /\ ~KeyClash(store.rows, x.path, x.dest, x.dir)
    <3>1. lock = r
      BY CommitHolds
    <3> QED
      BY <3>1 DEF IInv, FP!StoreInv, LockInv
  <2>2. ASSUME NEW w \in store.rows PROVE FP!MovedRow(x.path, x.dest, x.dir, w) \in RowType
    <3>1. w \in RowType /\ Len(w.path) >= 1
      BY <1>1
    <3> HIDE DEF x
    <3> QED
      BY <1>2, <3>1, Assumed, SameTypes, FP!MovedRowFields
  <2>3. rows = {FP!MovedRow(x.path, x.dest, x.dir, w) : w \in store.rows}
    BY SameRows DEF FP!RelocateRows
  <2> HIDE DEF x, rows
  <2> QED
    BY <2>2, <2>3
<1>7. Says(rows, q, c) <=>
        \E u \in Path : MovedPath(x.path, x.dest, x.dir, u) = q /\ Says(store.rows, u, c)
  <2> HIDE DEF x
  <2> QED
    BY <1>1, <1>2, MovedSays
<1>8. Says(store'.rows, q, c) <=> Says(rows, q, c)
  <2> HIDE DEF x, rows
  <2> QED
    BY <1>5, <1>6, MarkedSays
<1> HIDE DEF rows
<1> QED
  BY <1>4, <1>7, <1>8 DEF Moving

\* And the statements of the other handlers.
LEMMA RowForms ==
  ASSUME LikeIsExact, Settled, NEW r \in Requests, Step(r), ~faults', NEW q \in Path, NEW c
  PROVE  LET p == req[r].path
             S == Says(store.rows, q, c)
             N == Says(store'.rows, q, c)
         IN  /\ At(r, "delete_row") => (N <=> S /\ ~FP!AtOrBelow(p, q))
             /\ At(r, "insert_row") => (N <=> S \/ (q = p /\ c = r))
             /\ At(r, "insert_first") =>
                  \/ req'[r].status = "failed" /\ store' = store
                  \/ (N <=> S \/ (q = p /\ c = NewData(r))) /\ \A b : ~Says(store.rows, p, b)
             /\ At(r, "update_checksum") =>
                  (N <=> IF q = p THEN \E v \in req[r].found : c = v.sum ELSE S)
             /\ \/ At(r, "delete_row") \/ At(r, "insert_row") \/ At(r, "update_checksum")
                \/ At(r, "insert_version") \/ At(r, "delete_versions")
                => req'[r].status # "failed"
<1> DEFINE p == req[r].path
           rows == store.rows
<1>1. /\ Calm /\ IInv /\ RequestsInv /\ InFlight(r) /\ Owes(r) /\ Recalls(r)
      /\ store \in StoreType /\ rows \in SUBSET RowType
      /\ req[r].op \in Ops /\ req[r].pc \in 1 .. Len(Plan(req[r].op))
  BY StepLabel, SameTypes DEF Settled, Calm, MarksIInv, IInv, FP!StoreInv, FP!RowsInv, RequestsInv, Knows
<1>2. /\ p \in Path /\ p # Root /\ \A w \in rows : w.path \in Path
      /\ \A s : ~GivesUp(r, s)
  BY <1>1, RequestPaths, LongPath DEF RowType, GivesUp
<1>9. \A a : [store EXCEPT !.rows = a].rows = a
  BY <1>1 DEF StoreType
<1>3. ASSUME NEW s, Commits(r, s) PROVE store' = s /\ req'[r].status # "failed"
  BY <1>1, <1>3, GoesOn DEF Commits, Becomes
<1>10. \A a : Commits(r, [store EXCEPT !.rows = a]) => store'.rows = a /\ req'[r].status # "failed"
  <2> SUFFICES ASSUME NEW a, Commits(r, [store EXCEPT !.rows = a])
               PROVE  store'.rows = a /\ req'[r].status # "failed"
    OBVIOUS
  <2> DEFINE s == [store EXCEPT !.rows = a]
  <2>1. s.rows = a /\ Commits(r, s)
    BY <1>9
  <2> HIDE DEF s
  <2> QED
    BY <1>3, <2>1
<1>4. ASSUME At(r, "delete_row")
      PROVE  /\ Says(store'.rows, q, c) <=> Says(rows, q, c) /\ ~FP!AtOrBelow(p, q)
             /\ req'[r].status # "failed"
  <2>1. DeleteRow(r)
    BY <1>4, StepLabel
  <2>2. Commits(r, [store EXCEPT !.rows = {w \in rows : ~Covers(p, w.path)}])
    BY <1>2, <2>1 DEF DeleteRow
  <2>3. store'.rows = {w \in rows : ~Covers(p, w.path)} /\ req'[r].status # "failed"
    BY <1>10, <2>2
  <2>4. Covers(p, q) <=> FP!AtOrBelow(p, q)
    <3>1. p \in FP!Path /\ q \in FP!Path
      BY <1>2, SameTypes
    <3>2. LikeBelow(p, q) <=> Below(p, q)
      BY <3>1, Assumed, SamePaths, FP!ExactLikeBelow
    <3> QED
      BY <3>2, SamePaths DEF Covers, FP!AtOrBelow
  <2> QED
    BY <2>3, <2>4 DEF Says
<1>5. ASSUME At(r, "insert_row")
      PROVE  /\ Says(store'.rows, q, c) <=> Says(rows, q, c) \/ (q = p /\ c = r)
             /\ req'[r].status # "failed"
  <2>1. InsertRow(r) /\ Rowless(r)
    BY <1>5, StepLabel, Cleared DEF Touchers
  <2>2. ~HasKey(store, p)
    BY <1>1, <2>1 DEF Owes, HasKey, Says
  <2>3. Commits(r, [store EXCEPT !.rows = rows \cup {NewRow(p, FALSE, r, req[r].node)}])
    BY <1>2, <2>1, <2>2 DEF InsertRow
  <2>4. store'.rows = rows \cup {NewRow(p, FALSE, r, req[r].node)} /\ req'[r].status # "failed"
    BY <1>10, <2>3
  <2>5. NewRow(p, FALSE, r, req[r].node).path = p /\ Data(NewRow(p, FALSE, r, req[r].node)) = r
    BY DEF NewRow, Data
  <2> QED
    BY <2>4, <2>5 DEF Says
<1>6. ASSUME At(r, "insert_first")
      PROVE  \/ req'[r].status = "failed" /\ store' = store
             \/ /\ Says(store'.rows, q, c) <=> Says(rows, q, c) \/ (q = p /\ c = NewData(r))
                /\ \A b : ~Says(store.rows, p, b)
  <2> DEFINE dir == req[r].op = "folder"
             w == NewRow(p, dir, IF dir THEN NoSum ELSE r, req[r].node)
  <2>1. \/ ~HasKey(store, p) /\ Commits(r, [store EXCEPT !.rows = rows \cup {w}])
        \/ Fails(r) /\ NoWrite
    BY <1>2, <1>6, StepLabel DEF InsertFirst
  <2>2. w.path = p /\ Data(w) = NewData(r)
    BY DEF NewRow, Data, NewData
  <2> HIDE DEF w, dir
  <2>3. CASE Fails(r) /\ NoWrite
    BY <1>1, <2>3, Failed DEF NoWrite, RequestsInv
  <2>4. CASE ~HasKey(store, p) /\ Commits(r, [store EXCEPT !.rows = rows \cup {w}])
    <3>1. store'.rows = rows \cup {w}
      BY <1>10, <2>4
    <3>2. \A b : ~Says(store.rows, p, b)
      BY <2>4 DEF HasKey, Says
    <3> QED
      BY <2>2, <3>1, <3>2 DEF Says
  <2> QED
    BY <2>1, <2>3, <2>4
<1>7. ASSUME At(r, "update_checksum")
      PROVE  /\ Says(store'.rows, q, c) <=> IF q = p THEN \E v \in req[r].found : c = v.sum
                                             ELSE Says(rows, q, c)
             /\ req'[r].status # "failed"
  <2>1. UpdateChecksum(r) /\ req[r].op = "version" /\ req[r].pc = 8
    BY <1>1, <1>7, StepLabel, Positions DEF At
  <2>2. PICK v \in store.versions : req[r].found = {v}
    BY <1>1, <2>1 DEF Recalls
  <2>3. Commits(r, [store EXCEPT !.rows = Rehashed(rows, p, v.sum)])
    BY <1>2, <2>1, <2>2 DEF UpdateChecksum
  <2>4. store'.rows = Rehashed(rows, p, v.sum) /\ req'[r].status # "failed"
    BY <1>10, <2>3
  <2>5. PICK f \in rows : f.path = p /\ f.dir = FALSE
    BY <1>1, <1>7 DEF Owes, FileAt
  <2>6. \A w \in rows : w.path = p => w = f
    BY <1>1, <2>5 DEF IInv, FP!StoreInv, FP!RowsInv, FP!KeysUnique
  <2> DEFINE h(w) == IF w.path = p THEN [w EXCEPT !.sum = v.sum] ELSE w
  <2>7. \A w \in rows : /\ h(w).path = w.path
                        /\ Data(h(w)) = IF w.path = p THEN v.sum ELSE Data(w)
    BY <2>5, <2>6 DEF Data, RowType
  <2>8. Rehashed(rows, p, v.sum) = {h(w) : w \in rows}
    BY DEF Rehashed
  <2> HIDE DEF h, p, rows
  <2>9. Says(store'.rows, q, c) <=> IF q = p THEN c = v.sum ELSE Says(rows, q, c)
    BY <2>4, <2>5, <2>7, <2>8 DEF Says
  <2> QED
    BY <2>2, <2>4, <2>9
<1>8. ASSUME At(r, "insert_version") \/ At(r, "delete_versions")
      PROVE  req'[r].status # "failed"
  <2>1. InsertVersion(r) \/ DeleteVersions(r)
    BY <1>8, StepLabel
  <2> QED
    BY <1>2, <1>3, <2>1 DEF InsertVersion, DeleteVersions
<1> QED
  BY <1>4, <1>5, <1>6, <1>7, <1>8

============================================================================
