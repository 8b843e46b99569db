---------------------------- MODULE SettleProofs ---------------------------
(***************************************************************************)
(* When the last handler has ended, rows and disk, versions and blobs say  *)
(* the same again: SettlesConsistently, for any requests, inputs and store *)
(* to start with.                                                          *)
(*                                                                         *)
(* While handlers are in flight the store is never consistent as a whole:  *)
(* a row is committed before or after the bytes it speaks of are in place. *)
(* The invariant (Settled) says where that may be so and what is owed:     *)
(*                                                                         *)
(*   Mirrors   the rows and the disk agree at every place at which no      *)
(*             handler stands between two of its steps;                    *)
(*   Owes      what the difference is at the place of one that does;       *)
(*   Recalls   what a handler read before an await is still so, so that    *)
(*             the step it takes from it removes the difference;           *)
(*   BlobsAgree, Owned, Numbered                                           *)
(*             versions, blobs and files belong together, but for a copy   *)
(*             not yet inserted, a file being replaced, and what a purge   *)
(*             is about to remove.                                         *)
(*                                                                         *)
(* With it an answer of success is true when it is given: AnswersAreTrue,  *)
(* from what a handler about to answer relies on (Tells).  And handlers    *)
(* served one at a time are the steps of the sequential module:            *)
(* HandlersAreAtomic.                                                      *)
(*                                                                         *)
(* Settled, its parts and what each label does to a place are in the last  *)
(* part of AsyncProofs.                                                    *)
(*                                                                         *)
(* It rests on the invariants of AsyncProofs: requests whose paths are not *)
(* related (Apart) have disjoint zones, so that each step is looked at in  *)
(* its own zone and does nothing in another's.                             *)
(***************************************************************************)
EXTENDS AsyncProofs, SerialFilesystem

----------------------------------------------------------------------------
(* What a step leaves alone, and the positions it leads from and to.       *)

\* The labels of the steps that only read.
Readers == {"find_source", "find_file", "find_none", "find_parent", "find_existing", "find_root",
            "find_version", "read_back", "read_current", "read_max", "read_refs"}

\* A refused step leaves the store as it is; it is one that reads, inserts or relocates.
LEMMA Refused ==
  ASSUME LikeIsExact, Settled, NEW r \in Requests, Step(r), ~faults', req'[r].status = "failed"
  PROVE  /\ store' = store
         /\ \E label \in Readers \cup {"insert_first", "rename_on_disk"} : At(r, label)
<1>1. /\ IInv /\ RequestsInv /\ InFlight(r) /\ \A s : ~GivesUp(r, s)
  BY StepLabel DEF Settled, Calm, MarksIInv, IInv, GivesUp
<1>2. \A label \in Touchers : ~At(r, label)
  <2> SUFFICES ASSUME NEW label \in Touchers, At(r, label) PROVE FALSE
    OBVIOUS
  <2>1. Root \in Path
    BY DEF Root, Path
  <2> QED
    BY <2>1, TouchForms, CopyBackForm
<1>3. /\ ~At(r, "remove_tree") /\ ~At(r, "copy_blob") /\ ~At(r, "remove_blobs") /\ ~At(r, "commit")
      /\ ~At(r, "delete_row") /\ ~At(r, "update_checksum")
      /\ ~At(r, "insert_version") /\ ~At(r, "delete_versions")
  <2>1. Root \in Path
    BY DEF Root, Path
  <2>2. ~At(r, "remove_tree")
    BY <2>1, RemoveTreeForm
  <2>3. ~At(r, "copy_blob") /\ ~At(r, "remove_blobs")
    BY <1>1, <2>1, BlobForms
  <2>4. ~At(r, "commit")
    BY <1>1, CommitSays
  <2>5. /\ ~At(r, "delete_row") /\ ~At(r, "update_checksum")
        /\ ~At(r, "insert_version") /\ ~At(r, "delete_versions")
    BY <2>1, RowForms
  <2> QED
    BY <2>2, <2>3, <2>4, <2>5
<1>4. \/ FindSource(r) \/ FindFile(r) \/ FindNone(r) \/ FindParent(r) \/ FindExisting(r)
      \/ FindRoot(r) \/ FindVersion(r) \/ ReadBack(r)
      \/ ReadCurrent(r) \/ ReadMax(r) \/ ReadRefs(r) \/ InsertFirst(r) \/ RenameOnDisk(r)
  BY <1>2, <1>3 DEF Step, Touchers, CopyBlob, InsertVersion, DeleteRow, RemoveBytes, RemoveTree,
     MakeUploadParents, Stream, Replace, Adopt, InsertRow, WriteBytes, MakeDirectory, Commit,
     DeleteVersions, RemoveBlobs, CopyBack, UpdateChecksum
<1>5. \E label \in Readers \cup {"insert_first", "rename_on_disk"} : At(r, label)
  BY <1>4, Zenon DEF Readers, FindSource, FindFile, FindNone, FindParent, FindExisting, FindRoot,
     FindVersion, ReadBack, ReadCurrent, ReadMax, ReadRefs, InsertFirst, RenameOnDisk
<1>6. CASE InsertFirst(r)
  <2>1. \A s : ~Commits(r, s)
    BY <1>1, GoesOn DEF Commits
  <2>2. store' = store
    BY <1>1, <1>6, <2>1 DEF InsertFirst, NoWrite
  <2> QED
    BY <1>5, <2>2
<1>7. CASE RenameOnDisk(r)
  <2>1. ~Goes(r)
    BY <1>1, GoesOn
  <2>2. store' = store
    BY <1>1, <1>7, <2>1 DEF RenameOnDisk
  <2> QED
    BY <1>5, <2>2
<1>8. CASE FindRoot(r)
  BY <1>5, <1>8 DEF FindRoot
<1>9. CASE \/ FindSource(r) \/ FindFile(r) \/ FindNone(r) \/ FindParent(r) \/ FindExisting(r)
           \/ FindVersion(r) \/ ReadBack(r) \/ ReadCurrent(r) \/ ReadMax(r) \/ ReadRefs(r)
  BY <1>5, <1>9 DEF FindSource, FindFile, FindNone, FindParent, FindExisting,
     FindVersion, ReadBack, ReadCurrent, ReadMax, ReadRefs, NoWrite
<1> QED
  BY <1>4, <1>6, <1>7, <1>8, <1>9

\* The labels that change the disk, and those that change the rows.
Shapers == Touchers \cup {"copy_blob", "remove_tree", "rename_on_disk", "remove_blobs"}

\* The other labels leave the disk alone.
LEMMA DiskSteady ==
  ASSUME IInv, NEW r \in Requests, Step(r), NEW label, At(r, label), label \notin Shapers
  PROVE  store'.disk = store.disk
<1>1. \A other \in Shapers : ~At(r, other)
  BY DEF At
<1> QED
  BY <1>1, StepDisk DEF DiskChange, Shapers, Touchers

\* What a step does at a place that is not its own: nothing.
LEMMA Outside ==
  ASSUME LikeIsExact, Settled, NEW r \in Requests, Step(r), ~faults',
         NEW q \in Path, ~Zone(r, q), NEW c,
         q = Root \/ q[1] # VERSIONS \/ (~At(r, "copy_blob") /\ ~At(r, "remove_blobs"))
  PROVE  /\ Holds(store'.disk, q, c) <=> Holds(store.disk, q, c)
         /\ Says(store'.rows, q, c) <=> Says(store.rows, q, c)
<1> DEFINE p == req[r].path
           z == req[r].dest
           label == Plan(req[r].op)[req[r].pc]
<1>1. /\ Calm /\ IInv /\ RequestsInv /\ InFlight(r) /\ At(r, label)
  BY StepLabel DEF Settled, Calm, MarksIInv, IInv, At
<1>2. /\ p \in Path /\ z \in Path /\ req[r].dir \in BOOLEAN
      /\ ~FP!AtOrBelow(p, q) /\ ~FP!AtOrBelow(z, q)
      /\ req[r].op = "upload" => q # Part(r)
  BY <1>1, RequestPaths DEF Zone
<1>3. q # p /\ ~Below(p, q)
  BY <1>2, SamePaths DEF FP!AtOrBelow
<1>4. label \in {"copy_blob", "remove_blobs"} => \A ref : q # Blob(ref)
  BY <1>1 DEF Blob, Root
<1>5. Holds(store'.disk, q, c) <=> Holds(store.disk, q, c)
  <2>1. CASE label \in Touchers \ {"copy_back"}
    <3>1. label \in {"stream", "replace"} => req[r].op = "upload"
      BY <1>1, <2>1, Cleared
    <3> QED
      BY <1>1, <1>2, <1>3, <2>1, <3>1, TouchForms DEF Touchers
  <2>2. CASE label = "copy_back"
    BY <1>1, <1>3, <2>2, CopyBackForm
  <2>3. CASE label = "remove_tree"
    BY <1>1, <1>2, <2>3, RemoveTreeForm
  <2>4. CASE label \in {"copy_blob", "remove_blobs"}
    BY <1>1, <1>4, <2>4, BlobForms
  <2>5. CASE label = "rename_on_disk"
    <3>1. CASE req'[r].status = "failed"
      BY <3>1, Refused
    <3>2. CASE req'[r].status # "failed"
      BY <1>1, <1>2, <2>5, <3>2, RenameMoves
    <3> QED
      BY <3>1, <3>2
  <2>6. CASE label \notin Shapers
    BY <1>1, <2>6, DiskSteady
  <2> QED
    BY <2>1, <2>2, <2>3, <2>4, <2>5, <2>6 DEF Shapers
<1>6. Says(store'.rows, q, c) <=> Says(store.rows, q, c)
  <2>1. CASE label \in {"delete_row", "insert_row", "insert_first", "update_checksum"}
    BY <1>1, <1>2, <1>3, <2>1, RowForms
  <2>2. CASE label = "commit"
    <3>1. Says(store'.rows, q, c) <=> \E u \in Path : Moving(r, u) = q /\ Says(store.rows, u, c)
      BY <1>1, <2>2, CommitSays
    <3>2. Moving(r, q) = q
      <4> HIDE DEF p, z
      <4>1. MovedPath(p, z, req[r].dir, q) = q
        BY <1>2, <1>3, MovedAt
      <4> QED
        BY <4>1 DEF Moving, p, z
    <3>3. ASSUME NEW u \in Path, Moving(r, u) = q PROVE u = q
      <4> HIDE DEF p, z
      <4>1. MovedPath(p, z, req[r].dir, u) = u \/ FP!AtOrBelow(z, MovedPath(p, z, req[r].dir, u))
        BY <1>2, MovedAt
      <4> QED
        BY <1>2, <3>3, <4>1 DEF Moving, p, z
    <3> QED
      BY <3>1, <3>2, <3>3
  <2>3. CASE label \notin {"delete_row", "insert_row", "insert_first", "update_checksum", "commit"}
    BY <1>1, <2>3, TablesSteady
  <2> QED
    BY <2>1, <2>2, <2>3
<1> QED
  BY <1>5, <1>6

\* Which step leads to a position where the rows and the disk differ.
LEMMA Precedes ==
  ASSUME NEW op \in Ops, NEW pc \in 1 .. Len(Plan(op)), NEW n \in {1, 3, 4, 7},
         pc + n \in 1 .. Len(Plan(op)),
         n = 7 => Plan(op)[pc] = "find_existing",
         n = 4 => Plan(op)[pc] = "read_current",
         n = 3 => Plan(op)[pc] = "copy_blob"
  PROVE  LET L == Plan(op)[pc]
             M == Plan(op)[pc + n]
         IN  /\ M = "remove_bytes" => L = "delete_row" /\ op # "purge" /\ pc > 2
             /\ M = "remove_tree" => L = "delete_row" /\ op = "purge" /\ pc > 2
             /\ M = "insert_row" => L \in {"replace", "adopt"} /\ pc > 2
             /\ M = "write_bytes" => L = "insert_first" /\ op = "save" /\ pc > 2
             /\ M = "make_directory" => L = "insert_first" /\ op = "folder" /\ pc > 2
             /\ M = "update_checksum" => L = "copy_back" /\ op = "version" /\ pc > 2
             /\ M = "replace" => L = "stream" /\ pc > 2
             /\ M = "commit" => L = "rename_on_disk" /\ pc # 1
             /\ M = "insert_version" => L = "read_max" /\ pc > 2
             /\ M = "remove_blobs" => L = "delete_versions" /\ pc > 2
             /\ n # 1 => L \in {"find_existing", "read_current", "copy_blob"}
<1> DEFINE L == Plan(op)[pc]
           M == Plan(op)[pc + n]
<1>1. pc \in Nat /\ pc >= 1 /\ pc + n \in Nat
  BY PlanLength
<1>2. /\ L = "find_existing" <=> op \in {"upload", "chunked"} /\ pc = 2
      /\ L = "read_current" <=>
           \/ op = "save" /\ pc = 2
           \/ op \in {"upload", "chunked", "version"} /\ pc = 3
      /\ L = "copy_blob" <=>
           \/ op = "save" /\ pc = 3
           \/ op \in {"upload", "chunked", "version"} /\ pc = 4
      /\ L = "read_max" <=>
           \/ op = "save" /\ pc = 4
           \/ op \in {"upload", "chunked", "version"} /\ pc = 5
      /\ L = "delete_row" <=>
           \/ op = "purge" /\ pc = 5
           \/ op = "save" /\ pc = 6
           \/ op \in {"upload", "chunked"} /\ pc = 7
      /\ L = "stream" <=> op = "upload" /\ pc = 10
      /\ L = "replace" <=> op = "upload" /\ pc = 11
      /\ L = "adopt" <=> op = "chunked" /\ pc = 9
  BY Positions
<1>3. /\ L = "insert_first" <=>
           \/ op = "folder" /\ pc = 3
           \/ op = "save" /\ pc = 8
      /\ L = "copy_back" <=> op = "version" /\ pc = 7
      /\ L = "rename_on_disk" <=>
           \/ op = "delete" /\ pc = 2
           \/ op = "rename" /\ pc = 3
           \/ op \in {"move", "restore"} /\ pc = 4
      /\ L = "delete_versions" <=> op = "purge" /\ pc = 3
  BY Positions
<1>4. /\ M = "remove_bytes" <=>
           \/ op = "save" /\ pc + n = 7
           \/ op \in {"upload", "chunked"} /\ pc + n = 8
      /\ M = "remove_tree" <=> op = "purge" /\ pc + n = 6
      /\ M = "insert_row" <=>
           \/ op = "chunked" /\ pc + n = 10
           \/ op = "upload" /\ pc + n = 12
      /\ M = "write_bytes" <=> op = "save" /\ pc + n = 9
      /\ M = "make_directory" <=> op = "folder" /\ pc + n = 4
      /\ M = "update_checksum" <=> op = "version" /\ pc + n = 8
      /\ M = "replace" <=> op = "upload" /\ pc + n = 11
  BY Positions
<1>5. /\ M = "commit" <=>
           \/ op = "delete" /\ pc + n = 3
           \/ op = "rename" /\ pc + n = 4
           \/ op \in {"move", "restore"} /\ pc + n = 5
      /\ M = "insert_version" <=>
           \/ op = "save" /\ pc + n = 5
           \/ op \in {"upload", "chunked", "version"} /\ pc + n = 6
      /\ M = "remove_blobs" <=> op = "purge" /\ pc + n = 4
  BY Positions
<1>6. n # 1 => L \in {"find_existing", "read_current", "copy_blob"}
  OBVIOUS
<1> HIDE DEF L, M
<1>7. /\ n = 7 => op \in {"upload", "chunked"} /\ pc = 2
      /\ n = 4 => \/ op = "save" /\ pc = 2
                  \/ op \in {"upload", "chunked", "version"} /\ pc = 3
      /\ n = 3 => \/ op = "save" /\ pc = 3
                  \/ op \in {"upload", "chunked", "version"} /\ pc = 4
  BY <1>2 DEF L
<1>a. /\ M = "remove_bytes" => L = "delete_row" /\ op # "purge" /\ pc > 2
      /\ M = "remove_tree" => L = "delete_row" /\ op = "purge" /\ pc > 2
      /\ M = "insert_row" => L \in {"replace", "adopt"} /\ pc > 2
  BY <1>1, <1>2, <1>4, <1>7
<1>b. /\ M = "write_bytes" => L = "insert_first" /\ op = "save" /\ pc > 2
      /\ M = "make_directory" => L = "insert_first" /\ op = "folder" /\ pc > 2
      /\ M = "update_checksum" => L = "copy_back" /\ op = "version" /\ pc > 2
      /\ M = "replace" => L = "stream" /\ pc > 2
  BY <1>1, <1>2, <1>3, <1>4, <1>7
<1>c. /\ M = "commit" => L = "rename_on_disk" /\ pc # 1
      /\ M = "insert_version" => L = "read_max" /\ pc > 2
      /\ M = "remove_blobs" => L = "delete_versions" /\ pc > 2
  BY <1>1, <1>2, <1>3, <1>5, <1>7
<1> QED
  BY <1>6, <1>a, <1>b, <1>c DEF L, M

\* Where a handler that remembers something has come from.
LEMMA Remembers ==
  ASSUME NEW op \in Ops, NEW pc \in 1 .. Len(Plan(op)), NEW n \in {1, 3, 4, 7},
         pc + n \in 1 .. Len(Plan(op)),
         n = 7 => Plan(op)[pc] = "find_existing",
         n = 4 => Plan(op)[pc] = "read_current",
         n = 3 => Plan(op)[pc] = "copy_blob"
  PROVE  LET L == Plan(op)[pc]
             m == pc + n
         IN  /\ Snapping(op, m) => \/ L = "read_current" /\ n = 1
                                   \/ Snapping(op, pc) /\ L \in {"copy_blob", "read_max"} /\ n = 1
             /\ op = "version" /\ m >= 3 => L = "find_version" \/ pc >= 3
             /\ op = "purge" /\ m >= 2 => L = "find_root" \/ pc >= 2
             /\ op = "purge" /\ m \in 2 .. 5 => \/ L = "find_root"
                                                \/ /\ pc \in 2 .. 5
                                                   /\ L \in {"read_refs", "delete_versions", "remove_blobs"}
             /\ op = "purge" /\ m = 3 => L = "read_refs"
             /\ op = "purge" /\ m >= 4 =>
                  L = "delete_versions" \/ (pc >= 4 /\ L \in {"remove_blobs", "delete_row"})
             /\ op = "save" /\ m \in 7 .. 8 => L = "delete_row" \/ (pc = 7 /\ L = "remove_bytes")
<1> DEFINE L == Plan(op)[pc]
<1>1. pc \in Nat /\ pc >= 1 /\ pc + n \in Nat
  BY PlanLength
<1>2. /\ L = "find_existing" <=> op \in {"upload", "chunked"} /\ pc = 2
      /\ L = "read_current" <=>
           \/ op = "save" /\ pc = 2
           \/ op \in {"upload", "chunked", "version"} /\ pc = 3
      /\ L = "copy_blob" <=>
           \/ op = "save" /\ pc = 3
           \/ op \in {"upload", "chunked", "version"} /\ pc = 4
      /\ L = "read_max" <=>
           \/ op = "save" /\ pc = 4
           \/ op \in {"upload", "chunked", "version"} /\ pc = 5
      /\ L = "delete_row" <=>
           \/ op = "purge" /\ pc = 5
           \/ op = "save" /\ pc = 6
           \/ op \in {"upload", "chunked"} /\ pc = 7
      /\ L = "remove_bytes" <=>
           \/ op = "save" /\ pc = 7
           \/ op \in {"upload", "chunked"} /\ pc = 8
  BY Positions
<1>3. /\ L = "find_root" <=> op \in {"restore", "purge"} /\ pc = 1
      /\ L = "read_refs" <=> op = "purge" /\ pc = 2
      /\ L = "delete_versions" <=> op = "purge" /\ pc = 3
      /\ L = "remove_blobs" <=> op = "purge" /\ pc = 4
      /\ L = "find_version" <=> op = "version" /\ pc = 2
      /\ op = "purge" => Len(Plan(op)) = 6
  BY Positions
<1>4. /\ n = 7 => op \in {"upload", "chunked"} /\ pc = 2
      /\ n = 4 => \/ op = "save" /\ pc = 2
                  \/ op \in {"upload", "chunked", "version"} /\ pc = 3
      /\ n = 3 => \/ op = "save" /\ pc = 3
                  \/ op \in {"upload", "chunked", "version"} /\ pc = 4
  BY <1>2
<1>5. op = "purge" => pc + n <= 6
  BY <1>3
<1> HIDE DEF L
<1>6. Snapping(op, pc + n) => \/ L = "read_current" /\ n = 1
                              \/ Snapping(op, pc) /\ L \in {"copy_blob", "read_max"} /\ n = 1
  BY <1>1, <1>2, <1>4 DEF Snapping
<1>7. /\ op = "version" /\ pc + n >= 3 => L = "find_version" \/ pc >= 3
      /\ op = "save" /\ pc + n \in 7 .. 8 => L = "delete_row" \/ (pc = 7 /\ L = "remove_bytes")
  BY <1>1, <1>2, <1>3, <1>4
<1>8. /\ op = "purge" /\ pc + n >= 2 => L = "find_root" \/ pc >= 2
      /\ op = "purge" /\ pc + n \in 2 .. 5 =>
           \/ L = "find_root"
           \/ pc \in 2 .. 5 /\ L \in {"read_refs", "delete_versions", "remove_blobs"}
      /\ op = "purge" /\ pc + n = 3 => L = "read_refs"
      /\ op = "purge" /\ pc + n >= 4 =>
           L = "delete_versions" \/ (pc >= 4 /\ L \in {"remove_blobs", "delete_row"})
  BY <1>1, <1>2, <1>3, <1>4, <1>5
<1> QED
  BY <1>6, <1>7, <1>8 DEF L

\* The step that a handler in flight has just taken, and what it still knows.
LEMMA Went ==
  ASSUME IInv, NEW r \in Requests, Step(r), InFlight(r)'
  PROVE  LET x == req[r]
             y == req'[r]
         IN  \E n \in {1, 3, 4, 7} :
               /\ y.pc = x.pc + n /\ Skips(r, n) /\ InFlight(r)
               /\ x.op \in Ops /\ x.pc \in 1 .. Len(Plan(x.op)) /\ y.pc \in 1 .. Len(Plan(x.op))
               /\ At(r, Plan(x.op)[x.pc])
               /\ y.op = x.op /\ y.path = x.path
               /\ x.pc # 1 => y.dir = x.dir
               /\ x.pc # 1 \/ x.op # "restore" => y.dest = x.dest
               /\ x.pc > 2 => y.found = x.found
<1>1. RequestsInv /\ RequestsInv' /\ Moved(r) /\ InFlight(r)
  BY RequestsStep, StepLabel DEF IInv
<1>2. PICK n \in {1, 3, 4, 7} :
           /\ Skips(r, n)
           /\ req'[r].op = req[r].op /\ req'[r].path = req[r].path
           /\ req'[r].pc = req[r].pc + n
           /\ req[r].pc # 1 => req'[r].dir = req[r].dir
           /\ req[r].pc # 1 \/ req[r].op # "restore" => req'[r].dest = req[r].dest
           /\ req[r].pc > 2 => req'[r].found = req[r].found
  BY <1>1, MovedFields
<1>3. /\ req[r].op \in Ops /\ req[r].pc \in 1 .. Len(Plan(req[r].op))
      /\ req'[r].op \in Ops /\ req'[r].pc \in 1 .. Len(Plan(req'[r].op))
  BY <1>1 DEF RequestsInv, Knows
<1> QED
  BY <1>1, <1>2, <1>3 DEF At

\* The step before a position at which something is owed.
LEMMA CameFrom ==
  ASSUME IInv, NEW r \in Requests, Step(r), InFlight(r)'
  PROVE  LET x == req[r]
         IN  /\ At(r, "remove_bytes")' => At(r, "delete_row") /\ x.op # "purge" /\ x.pc > 2
             /\ At(r, "remove_tree")' => At(r, "delete_row") /\ x.op = "purge" /\ x.pc > 2
             /\ At(r, "insert_row")' => (At(r, "replace") \/ At(r, "adopt")) /\ x.pc > 2
             /\ At(r, "write_bytes")' => At(r, "insert_first") /\ x.op = "save" /\ x.pc > 2
             /\ At(r, "make_directory")' => At(r, "insert_first") /\ x.op = "folder" /\ x.pc > 2
             /\ At(r, "update_checksum")' => At(r, "copy_back") /\ x.op = "version" /\ x.pc > 2
             /\ At(r, "replace")' => At(r, "stream") /\ x.pc > 2
             /\ At(r, "commit")' => At(r, "rename_on_disk") /\ x.pc # 1
             /\ At(r, "insert_version")' => At(r, "read_max") /\ x.pc > 2
             /\ At(r, "remove_blobs")' => At(r, "delete_versions") /\ x.pc > 2
<1> DEFINE op == req[r].op
           pc == req[r].pc
           L == Plan(op)[pc]
<1>1. PICK n \in {1, 3, 4, 7} :
        /\ req'[r].pc = pc + n /\ Skips(r, n) /\ InFlight(r)
        /\ op \in Ops /\ pc \in 1 .. Len(Plan(op)) /\ pc + n \in 1 .. Len(Plan(op))
        /\ At(r, L) /\ req'[r].op = op
  BY Went
<1> DEFINE M == Plan(op)[pc + n]
<1>2. /\ M = "remove_bytes" => L = "delete_row" /\ op # "purge" /\ pc > 2
      /\ M = "remove_tree" => L = "delete_row" /\ op = "purge" /\ pc > 2
      /\ M = "insert_row" => L \in {"replace", "adopt"} /\ pc > 2
      /\ M = "write_bytes" => L = "insert_first" /\ op = "save" /\ pc > 2
      /\ M = "make_directory" => L = "insert_first" /\ op = "folder" /\ pc > 2
      /\ M = "update_checksum" => L = "copy_back" /\ op = "version" /\ pc > 2
      /\ M = "replace" => L = "stream" /\ pc > 2
      /\ M = "commit" => L = "rename_on_disk" /\ pc # 1
      /\ M = "insert_version" => L = "read_max" /\ pc > 2
      /\ M = "remove_blobs" => L = "delete_versions" /\ pc > 2
  <2> HIDE DEF op, pc
  <2>1. /\ n = 7 => L = "find_existing"
        /\ n = 4 => L = "read_current"
        /\ n = 3 => L = "copy_blob"
    BY <1>1 DEF Skips, At, op, pc
  <2> QED
    BY <1>1, <2>1, Precedes
<1>3. \A label : At(r, label)' <=> InFlight(r)' /\ M = label
  BY <1>1 DEF At
<1>4. \A label : L = label => At(r, label)
  BY <1>1
<1> HIDE DEF L, M
<1> QED
  BY <1>2, <1>3, <1>4 DEF op, pc

\* Where a step leads that leaves the rows and the disk different at its place.
LEMMA Onward ==
  ASSUME IInv, NEW r \in Requests, Step(r), req'[r].status # "failed"
  PROVE  LET op == req[r].op
         IN  /\ At(r, "delete_row") => IF op = "purge" THEN At(r, "remove_tree")'
                                       ELSE At(r, "remove_bytes")'
             /\ At(r, "stream") => At(r, "replace")'
             /\ At(r, "replace") \/ At(r, "adopt") => At(r, "insert_row")'
             /\ At(r, "insert_first") => At(r, "write_bytes")' \/ At(r, "make_directory")'
             /\ At(r, "copy_back") => At(r, "update_checksum")'
             /\ At(r, "rename_on_disk") => At(r, "commit")'
             /\ req'[r].path = req[r].path
             /\ At(r, "rename_on_disk") => req'[r].dest = req[r].dest
<1> DEFINE op == req[r].op
           pc == req[r].pc
           L == Plan(op)[pc]
           M == Plan(op)[pc + 1]
           some == {"delete_row", "stream", "replace", "adopt", "insert_first", "copy_back",
                    "rename_on_disk"}
<1>0. req'[r].path = req[r].path /\ op \in Ops /\ pc \in 1 .. Len(Plan(op)) /\ InFlight(r)
  BY StepFields
<1>1. \A label : At(r, label) <=> L = label
  BY <1>0 DEF At
<1>2. SUFFICES ASSUME L \in some
      PROVE  /\ L = "delete_row" => IF op = "purge" THEN At(r, "remove_tree")'
                                    ELSE At(r, "remove_bytes")'
             /\ L = "stream" => At(r, "replace")'
             /\ L = "replace" \/ L = "adopt" => At(r, "insert_row")'
             /\ L = "insert_first" => At(r, "write_bytes")' \/ At(r, "make_directory")'
             /\ L = "copy_back" => At(r, "update_checksum")'
             /\ L = "rename_on_disk" => At(r, "commit")' /\ req'[r].dest = req[r].dest
  BY <1>0, <1>1
<1>3. PICK n \in {1, 3, 4, 7} : /\ Skips(r, n) /\ req'[r].pc = pc + n /\ req'[r].op = op
                                /\ req'[r].status = "ok" => req'[r].pc > Len(Plan(op))
                                /\ req'[r].status \in {"run", "ok"}
  BY StepFields
<1>4. n = 1
  BY <1>1, <1>2, <1>3 DEF Skips
<1>5. pc \in Nat /\ pc >= 1 /\ pc + 1 \in Nat /\ Len(Plan(op)) \in Nat
  BY <1>0, PlanLength
<1>6. /\ L = "delete_row" =>
           \/ op = "purge" /\ pc = 5
           \/ op = "save" /\ pc = 6
           \/ op \in {"upload", "chunked"} /\ pc = 7
      /\ L = "stream" => op = "upload" /\ pc = 10
      /\ L = "replace" => op = "upload" /\ pc = 11
      /\ L = "adopt" => op = "chunked" /\ pc = 9
      /\ L = "insert_first" =>
           \/ op = "folder" /\ pc = 3
           \/ op = "save" /\ pc = 8
      /\ L = "copy_back" => op = "version" /\ pc = 7
      /\ L = "rename_on_disk" =>
           \/ op = "delete" /\ pc = 2
           \/ op = "rename" /\ pc = 3
           \/ op \in {"move", "restore"} /\ pc = 4
  <2> HIDE DEF op, pc
  <2> QED
    BY <1>0, Positions
<1>7. /\ op = "upload" => Len(Plan(op)) = 12
      /\ op = "chunked" => Len(Plan(op)) = 10
      /\ op = "save" => Len(Plan(op)) = 9
      /\ op = "folder" => Len(Plan(op)) = 4
      /\ op = "rename" => Len(Plan(op)) = 5
      /\ op = "move" => Len(Plan(op)) = 6
      /\ op = "delete" => Len(Plan(op)) = 3
      /\ op = "restore" => Len(Plan(op)) = 6
      /\ op = "purge" => Len(Plan(op)) = 6
      /\ op = "version" => Len(Plan(op)) = 9
  <2> HIDE DEF op, pc
  <2> QED
    BY <1>0, Positions
<1>8. pc + 1 \in 1 .. Len(Plan(op))
  <2> HIDE DEF op, pc, L
  <2>1. \/ op = "purge" /\ pc = 5
        \/ op = "save" /\ pc \in {6, 8}
        \/ op = "upload" /\ pc \in {7, 10, 11}
        \/ op = "chunked" /\ pc \in {7, 9}
        \/ op = "folder" /\ pc = 3
        \/ op = "version" /\ pc = 7
        \/ op = "delete" /\ pc = 2
        \/ op = "rename" /\ pc = 3
        \/ op \in {"move", "restore"} /\ pc = 4
    BY <1>2, <1>6
  <2> DEFINE len == Len(Plan(op))
  <2>2. pc + 1 <= len
    <3>1. /\ op = "upload" => len = 12
          /\ op = "chunked" => len = 10
          /\ op = "save" => len = 9
          /\ op = "folder" => len = 4
          /\ op = "rename" => len = 5
          /\ op = "move" => len = 6
          /\ op = "delete" => len = 3
          /\ op = "restore" => len = 6
          /\ op = "purge" => len = 6
          /\ op = "version" => len = 9
      BY <1>7
    <3> HIDE DEF len
    <3> QED
      BY <2>1, <3>1
  <2> QED
    BY <1>5, <2>2
<1>9. InFlight(r)' /\ \A label : At(r, label)' <=> M = label
  <2>1. InFlight(r)'
    <3>1. req'[r].pc = pc + 1
      BY <1>3, <1>4
    <3>2. ~(pc + 1 > Len(Plan(op)))
      BY <1>5, <1>8
    <3>3. req'[r].status # "ok"
      BY <1>3, <3>1, <3>2
    <3> QED
      BY <1>3, <3>3 DEF InFlight
  <2> QED
    BY <1>3, <1>4, <2>1 DEF At
<1>10. /\ M = "remove_bytes" <=>
           \/ op = "save" /\ pc + 1 = 7
           \/ op \in {"upload", "chunked"} /\ pc + 1 = 8
       /\ M = "remove_tree" <=> op = "purge" /\ pc + 1 = 6
       /\ M = "insert_row" <=>
           \/ op = "chunked" /\ pc + 1 = 10
           \/ op = "upload" /\ pc + 1 = 12
       /\ M = "write_bytes" <=> op = "save" /\ pc + 1 = 9
       /\ M = "make_directory" <=> op = "folder" /\ pc + 1 = 4
       /\ M = "update_checksum" <=> op = "version" /\ pc + 1 = 8
       /\ M = "replace" <=> op = "upload" /\ pc + 1 = 11
       /\ M = "commit" <=>
           \/ op = "delete" /\ pc + 1 = 3
           \/ op = "rename" /\ pc + 1 = 4
           \/ op \in {"move", "restore"} /\ pc + 1 = 5
  <2> HIDE DEF op, pc
  <2> QED
    BY <1>0, <1>8, Positions
<1>11. L = "rename_on_disk" => req'[r].dest = req[r].dest
  <2>1. L = "rename_on_disk" => pc # 1
    BY <1>6
  <2> QED
    BY <2>1, StepFields
<1> HIDE DEF L, M, op, pc
<1>12. /\ L = "delete_row" => IF op = "purge" THEN M = "remove_tree" ELSE M = "remove_bytes"
       /\ L = "stream" => M = "replace"
       /\ L = "replace" \/ L = "adopt" => M = "insert_row"
       /\ L = "insert_first" => M = "write_bytes" \/ M = "make_directory"
       /\ L = "copy_back" => M = "update_checksum"
       /\ L = "rename_on_disk" => M = "commit"
  BY <1>5, <1>6, <1>10
<1> QED
  BY <1>9, <1>11, <1>12

----------------------------------------------------------------------------
(* The rows and the disk agree again, and what is owed is done.            *)

\* At a place of its own a step leaves the rows and the disk alike, or goes on there.
LEMMA OwnMirror ==
  ASSUME LikeIsExact, Settled, NEW r \in Requests, Step(r), ~faults',
         NEW q \in Path, Zone(r, q), ~Pends(r, q)', NEW c
  PROVE  Holds(store'.disk, q, c) <=> Says(store'.rows, q, c)
<1> DEFINE p == req[r].path
           z == req[r].dest
           label == Plan(req[r].op)[req[r].pc]
           H == Holds(store.disk, q, c)
           S == Says(store.rows, q, c)
           N == Holds(store'.disk, q, c)
           T == Says(store'.rows, q, c)
<1>1. /\ Calm /\ IInv /\ RequestsInv /\ InFlight(r) /\ At(r, label) /\ Owes(r)
      /\ \A l : At(r, l) <=> l = label
  BY StepLabel DEF Settled, Calm, MarksIInv, IInv, At
<1>2. /\ p \in Path /\ z \in Path /\ Part(r) \in Path
      /\ FP!AtOrBelow(p, q) \/ FP!AtOrBelow(z, q) \/ (req[r].op = "upload" /\ q = Part(r))
      /\ FP!AtOrBelow(p, q) <=> q = p \/ Below(p, q)
      /\ q # Root /\ q[1] # VERSIONS
  BY <1>1, RequestPaths, PartPath, ZonePlace, SamePaths DEF Zone, FP!AtOrBelow
<1>3. ~Pends(r, q) => (H <=> S)
  BY OwnAgree, <1>1 DEF Agree
<1>4. req'[r].status # "failed" => req'[r].path = p
  BY <1>1, Onward
<1>5. label \notin Shapers => (N <=> H)
  BY <1>1, DiskSteady
<1>6. label \notin {"delete_row", "insert_row", "insert_first", "update_checksum", "commit"} =>
        (T <=> S)
  BY <1>1, TablesSteady
<1>7. CASE req'[r].status = "failed"
  <2>1. store' = store
    BY <1>7, Refused
  <2>2. ~Pends(r, q)
    <3>1. /\ label \notin {"remove_bytes", "insert_row", "write_bytes", "make_directory", "replace"}
          /\ label \notin {"update_checksum", "commit", "remove_tree"}
      <4>1. \A l \in Touchers : l # "copy_back" => l # label
        BY <1>1, <1>7, TouchForms
      <4>2. label # "update_checksum"
        BY <1>1, <1>7, RowForms
      <4>3. label # "commit"
        BY <1>1, <1>7, CommitSays
      <4>4. label # "remove_tree"
        BY <1>1, <1>7, RemoveTreeForm
      <4> QED
        BY <4>1, <4>2, <4>3, <4>4 DEF Touchers
    <3> QED
      BY <1>1, <3>1 DEF Pends
  <2> QED
    BY <1>3, <2>1, <2>2
<1>8. CASE req'[r].status # "failed"
  <2>0. /\ label = "delete_row" => IF req[r].op = "purge" THEN At(r, "remove_tree")'
                                   ELSE At(r, "remove_bytes")'
        /\ label = "stream" => At(r, "replace")'
        /\ label = "replace" \/ label = "adopt" => At(r, "insert_row")'
        /\ label = "insert_first" => At(r, "write_bytes")' \/ At(r, "make_directory")'
        /\ label = "copy_back" => At(r, "update_checksum")'
        /\ label = "rename_on_disk" => At(r, "commit")' /\ req'[r].dest = z
    BY <1>1, <1>8, Onward
  <2>1. CASE label \in {"remove_bytes", "make_parents", "stream", "replace", "adopt",
                        "write_bytes", "make_directory"}
    <3>1. label \in Touchers /\ label # "insert_row" /\ label # "copy_back"
      BY <2>1 DEF Touchers
    <3>2. /\ label = "remove_bytes" => (N <=> H /\ q # p)
          /\ label = "make_parents" => (N <=> H)
          /\ label = "stream" => (N <=> IF q = Part(r) THEN c = r ELSE H)
          /\ label = "replace" => (N <=> IF q = p THEN c = r ELSE H /\ q # Part(r))
          /\ label \in {"adopt", "write_bytes"} => (N <=> IF q = p THEN c = r ELSE H)
          /\ label = "make_directory" => (N <=> IF q = p THEN c = DIR ELSE H)
      BY <1>1, <3>1, TouchForms
    <3>3. T <=> S
      BY <1>6, <2>1
    <3>4. label \in {"stream", "replace", "adopt"} => q # p \/ label = "stream"
      BY <1>4, <1>8, <2>0, <2>1 DEF Pends
    <3>5. label = "stream" => q # Part(r)
      BY <1>4, <1>8, <2>0, <2>1 DEF Pends, Part
    <3>6. label = "replace" => req[r].op = "upload"
      BY <1>1, <3>1, Cleared
    <3>7. label = "remove_bytes" => Rowless(r)
      BY <1>1, <3>1, Cleared
    <3>8. label = "replace" /\ q = Part(r) => ~S
      BY <1>1, <3>6, PartFree
    <3>9. label \in {"write_bytes", "make_directory"} /\ q = p => (S <=> c = NewData(r))
      BY <1>1 DEF Owes
    <3>10. label = "remove_bytes" /\ q = p => ~S
      BY <1>1, <3>7 DEF Owes
    <3>11. Pends(r, q) => q = p \/ (label = "replace" /\ q = Part(r))
      BY <1>1, <2>1 DEF Pends
    <3>12. label = "write_bytes" => NewData(r) = r
      BY <1>1, <3>1, Cleared DEF NewData
    <3>13. label = "make_directory" => NewData(r) = DIR
      BY <1>1, <3>1, Cleared DEF NewData
    <3>14. q # p /\ ~(label = "replace" /\ q = Part(r)) => (H <=> S)
      BY <1>3, <3>11
    <3> HIDE DEF label, p
    <3>15. CASE label \in {"write_bytes", "make_directory"}
      BY <3>2, <3>3, <3>9, <3>12, <3>13, <3>14, <3>15
    <3>16. CASE label \in {"stream", "make_parents"}
      <4>1. H <=> S
        BY <1>3, <1>1, <3>16 DEF Pends
      <4> QED
        BY <3>2, <3>3, <3>5, <3>16, <4>1
    <3>17. CASE label \in {"replace", "adopt"}
      BY <3>2, <3>3, <3>4, <3>8, <3>14, <3>17
    <3>18. CASE label = "remove_bytes"
      BY <3>2, <3>3, <3>10, <3>14, <3>18
    <3> QED
      BY <2>1, <3>15, <3>16, <3>17, <3>18
  <2>2. CASE label = "insert_row"
    <3>1. N <=> H
      BY <1>1, <2>2, TouchForms DEF Touchers
    <3>2. T <=> S \/ (q = p /\ c = r)
      BY <1>1, <2>2, RowForms
    <3>3. q = p => (H <=> c = r) /\ ~S
      <4>1. Rowless(r)
        BY <1>1, <2>2, Cleared DEF Touchers
      <4> QED
        BY <1>1, <2>2, <4>1 DEF Owes
    <3>4. Pends(r, q) => q = p
      BY <1>1, <2>2 DEF Pends
    <3> QED
      BY <1>3, <3>1, <3>2, <3>3, <3>4
  <2>3. CASE label = "copy_back"
    <3>1. N <=> IF q = p THEN \E v \in req[r].found : c = v.sum ELSE H
      BY <1>1, <2>3, CopyBackForm
    <3>2. q # p
      BY <1>4, <1>8, <2>0, <2>3 DEF Pends
    <3>3. ~Pends(r, q)
      BY <1>1, <2>3 DEF Pends
    <3> QED
      BY <1>3, <1>6, <2>3, <3>1, <3>2, <3>3
  <2>4. CASE label = "update_checksum"
    <3>1. T <=> IF q = p THEN \E v \in req[r].found : c = v.sum ELSE S
      BY <1>1, <2>4, RowForms
    <3>2. q = p => (H <=> \E v \in req[r].found : c = v.sum)
      BY <1>1, <2>4 DEF Owes
    <3>3. Pends(r, q) => q = p
      BY <1>1, <2>4 DEF Pends
    <3>4. N <=> H
      BY <1>5, <2>4 DEF Shapers, Touchers
    <3> QED
      BY <1>3, <3>1, <3>2, <3>3, <3>4
  <2>5. CASE label = "delete_row"
    <3>1. T <=> S /\ ~FP!AtOrBelow(p, q)
      BY <1>1, <2>5, RowForms
    <3>2. N <=> H
      BY <1>5, <2>5 DEF Shapers, Touchers
    <3>3. ~Pends(r, q)
      BY <1>1, <2>5 DEF Pends
    <3>4. CASE ~FP!AtOrBelow(p, q)
      BY <1>3, <3>1, <3>2, <3>3, <3>4
    <3>5. CASE FP!AtOrBelow(p, q)
      <4>1. req[r].op # "purge"
        BY <1>4, <1>8, <2>0, <2>5, <3>5 DEF Pends
      <4>2. q # p
        BY <1>4, <1>8, <2>0, <2>5, <4>1 DEF Pends
      <4>3. Below(p, q)
        BY <1>2, <3>5, <4>2
      <4>4. HasFile(req[r]) /\ req[r].op \in {"save", "upload", "chunked"}
        <5>1. /\ req[r].op \in Ops /\ req[r].pc \in 1 .. Len(Plan(req[r].op))
              /\ Plan(req[r].op)[req[r].pc] = "delete_row"
          BY <1>1, <2>5 DEF RequestsInv, Knows
        <5> DEFINE op == req[r].op
                   pc == req[r].pc
        <5>2. \/ op = "purge" /\ pc = 5
              \/ op = "save" /\ pc = 6
              \/ op \in {"upload", "chunked"} /\ pc = 7
          <6> HIDE DEF op, pc
          <6> QED
            BY <5>1, Positions DEF op, pc
        <5> QED
          BY <4>1, <5>2 DEF HasFile
      <4>5. FileAt(store, p)
        BY <1>1, <4>4 DEF Calm, Ready, Prepared
      <4>6. \A w \in store.rows : w.path = p => w.dir = FALSE
        BY <1>1, <4>5, RowsPlaced DEF FileAt, Calm, MarksIInv
      <4>7. p[1] # TRASH
        BY <1>1, <4>4, OwnPlace
      <4>8. ~Holds(store.disk, q, c) /\ ~Says(store.rows, q, c)
        BY <1>1, <2>5, <4>3, <4>6, <4>7, LeafBelow
      <4> QED
        BY <3>1, <3>2, <4>8
    <3> QED
      BY <3>4, <3>5
  <2>6. CASE label = "insert_first"
    <3>1. T <=> S \/ (q = p /\ c = NewData(r))
      BY <1>1, <1>8, <2>6, RowForms
    <3>2. N <=> H
      BY <1>5, <2>6 DEF Shapers, Touchers
    <3>3. ~Pends(r, q)
      BY <1>1, <2>6 DEF Pends
    <3>4. q # p
      BY <1>4, <1>8, <2>0, <2>6 DEF Pends
    <3> QED
      BY <1>3, <3>1, <3>2, <3>3, <3>4
  <2>7. CASE label = "remove_tree"
    <3>1. N <=> H /\ ~FP!AtOrBelow(p, q)
      BY <1>1, <2>7, RemoveTreeForm
    <3>2. FP!AtOrBelow(p, q) => ~S
      BY <1>1, <2>7 DEF Owes
    <3>3. ~FP!AtOrBelow(p, q) => ~Pends(r, q)
      BY <1>1, <2>7 DEF Pends
    <3> QED
      BY <1>3, <1>6, <2>7, <3>1, <3>2, <3>3
  <2>8. CASE label = "rename_on_disk"
    <3>1. ~FP!AtOrBelow(p, q) /\ ~FP!AtOrBelow(z, q)
      BY <1>4, <1>8, <2>0, <2>8 DEF Pends
    <3>2. N <=> H
      BY <1>1, <1>8, <2>8, <3>1, RenameMoves
    <3>3. ~Pends(r, q)
      BY <1>1, <2>8 DEF Pends
    <3> QED
      BY <1>3, <1>6, <2>8, <3>2, <3>3
  <2>9. CASE label = "commit"
    <3>1. T <=> \E u \in Path : Moving(r, u) = q /\ Says(store.rows, u, c)
      BY <1>1, <2>9, CommitSays
    <3>2. N <=> H
      BY <1>5, <2>9 DEF Shapers, Touchers
    <3>3. FP!AtOrBelow(p, q) \/ FP!AtOrBelow(z, q)
      <4>1. req[r].op # "upload"
        BY <1>1, <2>9, Positions DEF RequestsInv, Knows
      <4> QED
        BY <1>2, <4>1
    <3>4. H <=> \E u \in Path : Moving(r, u) = q /\ Says(store.rows, u, c)
      BY <1>1, <2>9, <3>3 DEF Owes
    <3> QED
      BY <3>1, <3>2, <3>4
  <2>10. CASE label \in {"copy_blob", "remove_blobs"}
    <3>1. \A ref : q # Blob(ref)
      BY <1>2 DEF Blob
    <3>2. N <=> H
      BY <1>1, <2>10, <3>1, BlobForms
    <3>3. ~Pends(r, q)
      BY <1>1, <2>10 DEF Pends
    <3> QED
      BY <1>3, <1>6, <2>10, <3>2, <3>3
  <2>11. CASE /\ label \notin Shapers
              /\ label \notin {"delete_row", "insert_row", "insert_first", "update_checksum", "commit"}
    <3>1. ~Pends(r, q)
      BY <1>1, <2>11 DEF Pends, Shapers, Touchers
    <3> QED
      BY <1>3, <1>5, <1>6, <2>11, <3>1
  <2> QED
    BY <2>1, <2>2, <2>3, <2>4, <2>5, <2>6, <2>7, <2>8, <2>9, <2>10, <2>11 DEF Shapers, Touchers
<1> QED
  BY <1>7, <1>8

\* What another handler's step leaves of a request.
LEMMA Bystander ==
  ASSUME IInv, NEW r \in Requests, Step(r), NEW o \in Requests \ {r}
  PROVE  /\ req'[o] = req[o] /\ InFlight(o)' = InFlight(o)
         /\ \A label : At(o, label)' = At(o, label)
         /\ \A p : Pends(o, p)' = Pends(o, p) /\ Zone(o, p)' = Zone(o, p)
         /\ Rowless(o)' = Rowless(o) /\ Part(o)' = Part(o)
         /\ \A p : Moving(o, p)' = Moving(o, p)
<1>1. req'[o] = req[o]
  BY StepFields
<1>2. InFlight(o)' = InFlight(o) /\ \A label : At(o, label)' = At(o, label)
  BY <1>1 DEF InFlight, At
<1>3. Part(o)' = Part(o)
  BY <1>1 DEF Part
<1>4. \A p : Pends(o, p)' = Pends(o, p)
  BY <1>1, <1>2, <1>3 DEF Pends
<1>5. \A p : Zone(o, p)' = Zone(o, p)
  BY <1>1, <1>3 DEF Zone
<1>6. Rowless(o)' = Rowless(o) /\ \A p : Moving(o, p)' = Moving(o, p)
  BY <1>1, <1>2 DEF Rowless, Clears, Moving
<1> QED
  BY <1>1, <1>2, <1>3, <1>4, <1>5, <1>6

\* The rows and the disk agree again where nobody is in between.
LEMMA MirrorsStep ==
  ASSUME LikeIsExact, Settled, NEW r \in Requests, Step(r), ~faults'
  PROVE  Mirrors'
<1>1. IInv /\ RequestsInv
  BY DEF Settled, Calm, MarksIInv, IInv
<1> SUFFICES ASSUME NEW p \in Path, p = Root \/ p[1] # VERSIONS,
                    \A o \in Requests : ~Pends(o, p)', NEW c
             PROVE  Holds(store'.disk, p, c) <=> Says(store'.rows, p, c)
  BY DEF Mirrors, Agree
<1>2. CASE Zone(r, p)
  BY <1>2, OwnMirror
<1>3. CASE ~Zone(r, p)
  <2>1. \A o \in Requests : ~Pends(o, p)
    <3> SUFFICES ASSUME NEW o \in Requests, Pends(o, p) PROVE FALSE
      OBVIOUS
    <3>1. CASE o = r
      BY <1>1, <1>3, <3>1, PendsZone
    <3>2. CASE o # r
      BY <1>1, <3>2, Bystander
    <3> QED
      BY <3>1, <3>2
  <2>2. Holds(store.disk, p, c) <=> Says(store.rows, p, c)
    BY <2>1 DEF Settled, Mirrors, Agree
  <2> QED
    BY <1>3, <2>2, Outside
<1> QED
  BY <1>2, <1>3

\* What the others owe stays as it is.
LEMMA OthersOwe ==
  ASSUME LikeIsExact, Settled, NEW r \in Requests, Step(r), ~faults',
         NEW o \in Requests \ {r}, InFlight(o)
  PROVE  Owes(o)'
<1> DEFINE p == req[o].path
           z == req[o].dest
<1>1. /\ Calm /\ IInv /\ RequestsInv /\ InFlight(r) /\ Owes(o)
  BY StepLabel DEF Settled, Calm, MarksIInv, IInv
<1>2. /\ p \in Path /\ z \in Path /\ Part(o) \in Path
      /\ FP!AtOrBelow(p, p) /\ Zone(o, p)
      /\ \A q : FP!AtOrBelow(p, q) \/ FP!AtOrBelow(z, q) => Zone(o, q)
  BY <1>1, RequestPaths, PartPath DEF Zone, FP!AtOrBelow
<1>3. ASSUME NEW q \in Path, Zone(o, q), NEW c
      PROVE  /\ Holds(store'.disk, q, c) <=> Holds(store.disk, q, c)
             /\ Says(store'.rows, q, c) <=> Says(store.rows, q, c)
  <2>1. ~Zone(r, q) /\ q[1] # VERSIONS
    BY <1>1, <1>3, ZonesApart, ZonePlace
  <2> QED
    BY <2>1, Outside
<1>4. /\ req'[o] = req[o] /\ Rowless(o)' = Rowless(o) /\ Part(o)' = Part(o)
      /\ \A label : At(o, label)' = At(o, label)
      /\ \A u : Moving(o, u)' = Moving(o, u)
  BY <1>1, Bystander
<1>5. NewData(o)' = NewData(o)
  BY <1>4 DEF NewData
<1>6. Rowless(o)' => \A c : ~Says(store'.rows, p, c)
  BY <1>1, <1>2, <1>3, <1>4 DEF Owes
<1>7. At(o, "remove_bytes")' => ~Holds(store'.disk, p, DIR)
  BY <1>1, <1>2, <1>3, <1>4 DEF Owes
<1>8. At(o, "insert_row")' => \A c : Holds(store'.disk, p, c) <=> c = o
  BY <1>1, <1>2, <1>3, <1>4 DEF Owes
<1>9. At(o, "write_bytes")' \/ At(o, "make_directory")' =>
        \A c : ~Holds(store'.disk, p, c) /\ (Says(store'.rows, p, c) <=> c = NewData(o))
  BY <1>1, <1>2, <1>3, <1>4 DEF Owes
<1>10. At(o, "update_checksum")' =>
         /\ FileAt(store', p)
         /\ \A c : Holds(store'.disk, p, c) <=> \E v \in req[o].found : c = v.sum
  <2> SUFFICES ASSUME At(o, "update_checksum")
               PROVE  /\ FileAt(store', p)
                      /\ \A c : Holds(store'.disk, p, c) <=> \E v \in req[o].found : c = v.sum
    BY <1>4
  <2>1. PICK w \in store.rows : w.path = p /\ w.dir = FALSE /\ w.deleted = FALSE
    BY <1>1 DEF Owes, FileAt
  <2>2. ~FP!AtOrBelow(req[r].path, p) /\ ~FP!AtOrBelow(req[r].dest, p)
    <3>1. ~Zone(r, p)
      BY <1>1, <1>2, ZonesApart
    <3> QED
      BY <3>1 DEF Zone
  <2>3. FileAt(store', p)
    BY <1>1, <2>1, <2>2, RowsStay DEF FileAt
  <2>4. \A c : Holds(store.disk, p, c) <=> \E v \in req[o].found : c = v.sum
    BY <1>1 DEF Owes
  <2> QED
    BY <1>2, <1>3, <2>3, <2>4
<1>11. At(o, "replace")' => \A c : Holds(store'.disk, Part(o), c) <=> c = o
  <2> SUFFICES ASSUME At(o, "replace")
               PROVE  \A c : Holds(store'.disk, Part(o), c) <=> c = o
    BY <1>4
  <2>1. req[o].op = "upload"
    BY Cleared DEF Touchers
  <2>2. Zone(o, Part(o))
    BY <2>1 DEF Zone
  <2>3. \A c : Holds(store.disk, Part(o), c) <=> c = o
    BY <1>1 DEF Owes
  <2> QED
    BY <1>2, <1>3, <2>2, <2>3
<1>12. At(o, "commit")' => \A q \in Path : \A c :
         FP!AtOrBelow(p, q) \/ FP!AtOrBelow(z, q) =>
           (Holds(store'.disk, q, c) <=> \E u \in Path : Moving(o, u) = q /\ Says(store'.rows, u, c))
  <2> SUFFICES ASSUME At(o, "commit"), NEW q \in Path, NEW c,
                      FP!AtOrBelow(p, q) \/ FP!AtOrBelow(z, q)
               PROVE  Holds(store'.disk, q, c) <=>
                        \E u \in Path : Moving(o, u) = q /\ Says(store'.rows, u, c)
    BY <1>4
  <2>1. lock = o /\ o # NoOne
    BY <1>1, CommitHolds, AsyncAssumption
  <2>2. ~At(r, "commit")
    BY <1>1, <2>1, CommitHolds
  <2>3. store'.rows = store.rows
    BY <1>1, <2>1, <2>2, StepTables DEF RowsChange
  <2>4. Holds(store.disk, q, c) <=> \E u \in Path : Moving(o, u) = q /\ Says(store.rows, u, c)
    BY <1>1 DEF Owes
  <2>5. Holds(store'.disk, q, c) <=> Holds(store.disk, q, c)
    BY <1>2, <1>3
  <2> QED
    BY <2>3, <2>4, <2>5
<1>13. At(o, "remove_tree")' => \A q \in Path : \A c : FP!AtOrBelow(p, q) =>
         /\ ~Says(store'.rows, q, c)
         /\ req[o].dir = FALSE /\ Holds(store'.disk, q, c) => q = p /\ c # DIR
  <2> SUFFICES ASSUME At(o, "remove_tree"), NEW q \in Path, NEW c, FP!AtOrBelow(p, q)
               PROVE  /\ ~Says(store'.rows, q, c)
                      /\ req[o].dir = FALSE /\ Holds(store'.disk, q, c) => q = p /\ c # DIR
    BY <1>4
  <2>1. /\ ~Says(store.rows, q, c)
        /\ req[o].dir = FALSE /\ Holds(store.disk, q, c) => q = p /\ c # DIR
    BY <1>1 DEF Owes
  <2> QED
    BY <1>2, <1>3, <2>1
<1> QED
  BY <1>4, <1>5, <1>6, <1>7, <1>8, <1>9, <1>10, <1>11, <1>12, <1>13 DEF Owes

\* What stands at the place of a handler about to delete its row.
LEMMA BeforeDelete ==
  ASSUME LikeIsExact, Settled, NEW r \in Requests, Step(r), At(r, "delete_row")
  PROVE  LET p == req[r].path
         IN  /\ req[r].op \in {"save", "upload", "chunked", "purge"}
             /\ \A q \in Path : FP!AtOrBelow(p, q) => Agree(q)
             /\ store'.disk = store.disk
             /\ req[r].op # "purge" \/ req[r].dir = FALSE =>
                  \A q \in Path : \A c : FP!AtOrBelow(p, q) /\ Holds(store.disk, q, c) => q = p /\ c # DIR
<1> DEFINE op == req[r].op
           pc == req[r].pc
           p == req[r].path
<1>1. /\ Calm /\ IInv /\ RequestsInv /\ InFlight(r) /\ Recalls(r)
      /\ op \in Ops /\ pc \in 1 .. Len(Plan(op)) /\ Plan(op)[pc] = "delete_row"
  BY Where DEF Settled, Calm, MarksIInv, IInv
<1>2. \/ op = "purge" /\ pc = 5
      \/ op = "save" /\ pc = 6
      \/ op \in {"upload", "chunked"} /\ pc = 7
  <2> HIDE DEF op, pc
  <2> QED
    BY <1>1, Positions
<1>3. ASSUME NEW q \in Path, FP!AtOrBelow(p, q) PROVE Agree(q)
  BY <1>1, <1>3, OwnAgree DEF Zone, Pends, At
<1>4. store'.disk = store.disk
  BY <1>1, DiskSteady DEF Shapers, Touchers
<1>5. ASSUME op # "purge" \/ req[r].dir = FALSE
      PROVE  \E w \in store.rows : w.path = p /\ w.dir = FALSE
  <2>1. CASE op = "purge"
    BY <1>1, <1>2, <1>5, <2>1 DEF Recalls
  <2>2. CASE op # "purge"
    <3>1. HasFile(req[r])
      BY <1>2, <2>2 DEF HasFile
    <3> QED
      BY <1>1, <3>1 DEF Calm, Ready, Prepared, FileAt
  <2> QED
    BY <2>1, <2>2
<1>6. ASSUME op # "purge" \/ req[r].dir = FALSE, NEW q \in Path, NEW c,
             FP!AtOrBelow(p, q), Holds(store.disk, q, c)
      PROVE  q = p /\ c # DIR
  <2>1. PICK w \in store.rows : w.path = p /\ w.dir = FALSE
    BY <1>5, <1>6
  <2>2. Says(store.rows, q, c)
    BY <1>3, <1>6 DEF Agree
  <2>3. (\A t \in store.rows : t.path = p => t.dir = FALSE) /\ (p[1] = TRASH => ~(Len(p) < 3))
    <3>1. /\ \A g \in store.rows : g.path = w.path => w = g
          /\ w.deleted = TRUE <=> w.path[1] = TRASH
          /\ w.deleted = TRUE => Len(w.path) >= 3
          /\ Len(w.path) \in Nat
      BY <1>1, RowsPlaced DEF Calm, MarksIInv
    <3> QED
      BY <2>1, <3>1
  <2>4. ~Below(p, q)
    <3>1. ~At(r, "commit") /\ ~At(r, "remove_tree")
      BY <1>1 DEF At
    <3> QED
      BY <1>1, <1>6, <2>3, <3>1, LeafBelow
  <2>5. q = p
    BY <1>6, <2>4, SamePaths DEF FP!AtOrBelow
  <2>6. c # DIR
    BY <1>1, <2>2, <2>3, <2>5, Readable DEF Says
  <2> QED
    BY <2>5, <2>6
<1> QED
  BY <1>2, <1>3, <1>4, <1>6

\* A handler that goes on owes at its new position what the step has left to do.
LEMMA OwnOwes ==
  ASSUME LikeIsExact, Settled, NEW r \in Requests, Step(r), ~faults', InFlight(r)'
  PROVE  Owes(r)'
<1> DEFINE x == req[r]
           y == req'[r]
           p == req[r].path
<1>1. /\ Calm /\ IInv /\ RequestsInv /\ InFlight(r) /\ Owes(r) /\ Recalls(r)
      /\ y.status # "failed" /\ y.status = "run"
  BY StepLabel DEF Settled, Calm, MarksIInv, IInv, InFlight
<1>2. PICK n \in {1, 3, 4, 7} :
        /\ y.pc = x.pc + n /\ Skips(r, n)
        /\ x.op \in Ops /\ x.pc \in 1 .. Len(Plan(x.op)) /\ y.pc \in 1 .. Len(Plan(x.op))
        /\ At(r, Plan(x.op)[x.pc])
        /\ y.op = x.op /\ y.path = p
        /\ x.pc # 1 => y.dir = x.dir
        /\ x.pc # 1 \/ x.op # "restore" => y.dest = x.dest
        /\ x.pc > 2 => y.found = x.found
  BY <1>1, Went
<1>3. /\ Part(r)' = Part(r) /\ NewData(r)' = NewData(r)
  BY <1>2 DEF Part, NewData
<1>4. p \in Path /\ FP!AtOrBelow(p, p) /\ Zone(r, p) /\ Part(r) \in Path
  BY <1>1, RequestPaths, PartPath DEF Zone, FP!AtOrBelow
<1>5. \A label : At(r, label) =>
        /\ label \notin Shapers => store'.disk = store.disk
        /\ label \notin {"delete_row", "insert_row", "insert_first", "update_checksum", "commit"}
             => store'.rows = store.rows
  BY <1>1, DiskSteady, TablesSteady
<1>6. Rowless(r)' => \A c : ~Says(store'.rows, p, c)
  <2> SUFFICES ASSUME Rowless(r)', NEW c PROVE ~Says(store'.rows, p, c)
    OBVIOUS
  <2>1. CASE Clears(y)
    <3>1. Ready'
      BY <1>1, ReadyStep DEF Calm
    <3>2. Prepared(store', r, y)
      BY <3>1 DEF Ready
    <3>3. \A w \in store'.rows : w.path # y.path
      BY <2>1, <3>2 DEF Prepared
    <3> QED
      BY <1>2, <3>3 DEF Says
  <2>2. CASE y.op = "save" /\ y.pc \in 7 .. 8
    <3>1. Plan(x.op)[x.pc] = "delete_row" \/ (x.pc = 7 /\ Plan(x.op)[x.pc] = "remove_bytes")
      <4> DEFINE op == x.op
                 pc == x.pc
      <4>1. /\ op \in Ops /\ pc \in 1 .. Len(Plan(op)) /\ pc + n \in 1 .. Len(Plan(op))
            /\ op = "save" /\ pc + n \in 7 .. 8
            /\ n = 7 => Plan(op)[pc] = "find_existing"
            /\ n = 4 => Plan(op)[pc] = "read_current"
            /\ n = 3 => Plan(op)[pc] = "copy_blob"
        BY <1>2, <2>2 DEF Skips, At
      <4> HIDE DEF op, pc
      <4>2. Plan(op)[pc] = "delete_row" \/ (pc = 7 /\ Plan(op)[pc] = "remove_bytes")
        BY <4>1, Remembers
      <4> QED
        BY <4>2 DEF op, pc
    <3>2. CASE Plan(x.op)[x.pc] = "delete_row"
      BY <1>1, <1>2, <1>4, <3>2, RowForms
    <3>3. CASE x.pc = 7 /\ Plan(x.op)[x.pc] = "remove_bytes"
      <4>1. Rowless(r) /\ store'.rows = store.rows
        BY <1>1, <1>2, <1>5, <2>2, <3>3 DEF Rowless
      <4> QED
        BY <1>1, <4>1 DEF Owes
    <3> QED
      BY <3>1, <3>2, <3>3
  <2> QED
    BY <2>1, <2>2 DEF Rowless
<1>7. At(r, "remove_bytes")' => ~Holds(store'.disk, p, DIR)
  BY <1>1, <1>4, CameFrom, BeforeDelete
<1>8. At(r, "insert_row")' => \A c : Holds(store'.disk, p, c) <=> c = r
  <2> SUFFICES ASSUME At(r, "replace") \/ At(r, "adopt"), NEW c
               PROVE  Holds(store'.disk, p, c) <=> c = r
    BY <1>1, CameFrom
  <2> QED
    BY <1>4, TouchForms DEF Touchers
<1>9. At(r, "write_bytes")' \/ At(r, "make_directory")' =>
        \A c : ~Holds(store'.disk, p, c) /\ (Says(store'.rows, p, c) <=> c = NewData(r))
  <2> SUFFICES ASSUME At(r, "insert_first"), NEW c
               PROVE  ~Holds(store'.disk, p, c) /\ (Says(store'.rows, p, c) <=> c = NewData(r))
    BY <1>1, CameFrom
  <2>1. /\ Says(store'.rows, p, c) <=> Says(store.rows, p, c) \/ c = NewData(r)
        /\ ~Says(store.rows, p, c)
    BY <1>1, <1>4, RowForms
  <2>2. Holds(store.disk, p, c) <=> Says(store.rows, p, c)
    BY <1>1, <1>4, OwnAgree DEF Agree, Pends, At
  <2>3. store'.disk = store.disk
    BY <1>5 DEF Shapers, Touchers
  <2> QED
    BY <2>1, <2>2, <2>3
<1>10. At(r, "update_checksum")' =>
         /\ FileAt(store', p)
         /\ \A c : Holds(store'.disk, p, c) <=> \E v \in y.found : c = v.sum
  <2> SUFFICES ASSUME At(r, "copy_back"), x.pc > 2
               PROVE  /\ FileAt(store', p)
                      /\ \A c : Holds(store'.disk, p, c) <=> \E v \in x.found : c = v.sum
    BY <1>1, <1>2, CameFrom
  <2>1. FileAt(store, p)
    BY Cleared DEF Touchers
  <2>2. store'.rows = store.rows
    BY <1>5
  <2> QED
    BY <1>4, <2>1, <2>2, CopyBackForm DEF FileAt
<1>11. At(r, "replace")' => \A c : Holds(store'.disk, Part(r), c) <=> c = r
  <2> SUFFICES ASSUME At(r, "stream"), NEW c
               PROVE  Holds(store'.disk, Part(r), c) <=> c = r
    BY <1>1, CameFrom
  <2> QED
    BY <1>4, TouchForms DEF Touchers
<1>12. At(r, "commit")' => \A q \in Path : \A c :
         FP!AtOrBelow(p, q) \/ FP!AtOrBelow(y.dest, q) =>
           (Holds(store'.disk, q, c) <=>
              \E u \in Path : MovedPath(p, y.dest, y.dir, u) = q /\ Says(store'.rows, u, c))
  <2> SUFFICES ASSUME At(r, "rename_on_disk"), x.pc # 1, NEW q \in Path, NEW c,
                      FP!AtOrBelow(p, q) \/ FP!AtOrBelow(y.dest, q)
               PROVE  Holds(store'.disk, q, c) <=>
                        \E u \in Path : MovedPath(p, y.dest, y.dir, u) = q /\ Says(store'.rows, u, c)
    BY <1>1, CameFrom
  <2>1. y.dest = x.dest /\ y.dir = x.dir /\ store'.rows = store.rows
    BY <1>2, <1>5
  <2>2. Holds(store'.disk, q, c) <=> \E u \in Path : Moving(r, u) = q /\ Says(store.rows, u, c)
    BY <1>1, <2>1, RenameMoves
  <2> QED
    BY <2>1, <2>2 DEF Moving
<1>13. At(r, "remove_tree")' => \A q \in Path : \A c : FP!AtOrBelow(p, q) =>
         /\ ~Says(store'.rows, q, c)
         /\ y.dir = FALSE /\ Holds(store'.disk, q, c) => q = p /\ c # DIR
  <2> SUFFICES ASSUME At(r, "delete_row"), x.pc > 2, NEW q \in Path, NEW c, FP!AtOrBelow(p, q)
               PROVE  /\ ~Says(store'.rows, q, c)
                      /\ y.dir = FALSE /\ Holds(store'.disk, q, c) => q = p /\ c # DIR
    BY <1>1, CameFrom
  <2>1. ~Says(store'.rows, q, c)
    BY <1>1, RowForms
  <2>2. y.dir = x.dir
    BY <1>2
  <2>3. store'.disk = store.disk /\ (x.dir = FALSE /\ Holds(store.disk, q, c) => q = p /\ c # DIR)
    BY BeforeDelete
  <2> QED
    BY <2>1, <2>2, <2>3
<1>14. \A u : Moving(r, u)' = MovedPath(p, y.dest, y.dir, u)
  BY <1>2 DEF Moving
<1> QED
  BY <1>2, <1>3, <1>6, <1>7, <1>8, <1>9, <1>10, <1>11, <1>12, <1>13, <1>14 DEF Owes

----------------------------------------------------------------------------
(* What a handler read before an await is still so after it.               *)

\* What a handler has learned when it goes on.
LEMMA Learned ==
  ASSUME IInv, NEW r \in Requests, Step(r), req'[r].status # "failed"
  PROVE  LET x == req[r]
             y == req'[r]
         IN  /\ At(r, "find_root") =>
                  \E t \in TrashRoots(store) : t.path = x.path /\ t.dir = y.dir
             /\ At(r, "find_version") =>
                  \E v \in store.versions : v.path = x.path /\ y.found = {v}
             /\ At(r, "read_refs") => y.found = {v \in store.versions : Covers(x.path, v.path)}
             /\ At(r, "read_current") => y.pc = x.pc + 4 \/ Says(store.rows, x.path, y.sum)
             /\ At(r, "read_max") => y.max = NextNo(store, x.path) - 1
             /\ At(r, "read_max") \/ At(r, "copy_blob") => y.sum = x.sum
<1> DEFINE x == req[r]
           y == req'[r]
<1>1. /\ FP!StoreInv(store) /\ x \in RequestType /\ req \in [Requests -> RequestType] /\ ~Fails(r)
      /\ store.rows \subseteq RowType /\ store.versions \subseteq VersionType
  BY SameTypes, Failed DEF IInv, RequestsInv, FP!StoreInv, FP!RowsInv, FP!VersionsInv
<1>2. ASSUME At(r, "find_root")
      PROVE  \E t \in TrashRoots(store) : t.path = x.path /\ t.dir = y.dir
  <2>1. FindRoot(r)
    BY <1>2, StepLabel
  <2>2. PICK t \in {t \in TrashRoots(store) : t.path = x.path} :
           Learns(r, [x EXCEPT !.dir = t.dir,
                               !.dest = IF x.op = "restore" THEN t.orig ELSE x.dest])
    BY <1>1, <2>1 DEF FindRoot
  <2> DEFINE d == IF x.op = "restore" THEN t.orig ELSE x.dest
             z == [x EXCEPT !.dir = t.dir, !.dest = d]
  <2>3. Resume(r, z, 1)
    BY <2>2 DEF Learns
  <2>4. t.dir \in BOOLEAN /\ d \in Path
    BY <1>1, <2>2 DEF TrashRoots, RowType, RequestType
  <2> HIDE DEF d
  <2>5. z \in RequestType /\ z.dir = t.dir
    BY <1>1, <2>4 DEF RequestType
  <2> HIDE DEF z
  <2>6. y.dir = t.dir
    BY <1>1, <2>3, <2>5, Resumed
  <2> QED
    BY <2>2, <2>6
<1>3. ASSUME At(r, "find_version")
      PROVE  \E v \in store.versions : v.path = x.path /\ y.found = {v}
  <2>1. FindVersion(r)
    BY <1>3, StepLabel
  <2>2. PICK v \in store.versions : v.path = x.path /\ Learns(r, [x EXCEPT !.found = {v}])
    BY <1>1, <2>1 DEF FindVersion, VersionsAt
  <2> DEFINE z == [x EXCEPT !.found = {v}]
  <2>3. Resume(r, z, 1)
    BY <2>2 DEF Learns
  <2>4. z \in RequestType /\ z.found = {v}
    BY <1>1 DEF RequestType
  <2> HIDE DEF z
  <2> QED
    BY <1>1, <2>2, <2>3, <2>4, Resumed
<1>4. ASSUME At(r, "read_refs")
      PROVE  y.found = {v \in store.versions : Covers(x.path, v.path)}
  <2> DEFINE f == {v \in store.versions : Covers(x.path, v.path)}
             z == [x EXCEPT !.found = f]
  <2>1. Resume(r, z, 1)
    BY <1>4, StepLabel DEF ReadRefs, Learns
  <2>2. f \in SUBSET VersionType
    BY <1>1
  <2> HIDE DEF f
  <2>3. z \in RequestType /\ z.found = f
    BY <1>1, <2>2 DEF RequestType
  <2> HIDE DEF z
  <2> QED
    BY <1>1, <2>1, <2>3, Resumed DEF f
<1>5. ASSUME At(r, "read_current")
      PROVE  y.pc = x.pc + 4 \/ Says(store.rows, x.path, y.sum)
  <2>1. ReadCurrent(r)
    BY <1>5, StepLabel
  <2>2. CASE IsFile(store, x.path)
    <3> DEFINE w == RowAt(store, x.path)
               z == [x EXCEPT !.sum = w.sum]
    <3>1. Resume(r, z, 1)
      BY <2>1, <2>2 DEF ReadCurrent, Learns
    <3>2. w \in store.rows /\ w.path = x.path /\ w.sum \in Contents
      BY <1>1, <2>2, RowRead, FileIsLive
    <3>3. w.dir = FALSE
      <4>1. PICK t \in store.rows : t.path = x.path /\ ~t.deleted /\ ~t.dir
        BY <2>2 DEF IsFile
      <4>2. t = w
        BY <1>1, <3>2, <4>1 DEF FP!StoreInv, FP!RowsInv, FP!KeysUnique
      <4> QED
        BY <1>1, <4>1, <4>2 DEF RowType
    <3> HIDE DEF w
    <3>4. z \in RequestType /\ z.sum = w.sum
      BY <1>1, <3>2 DEF RequestType
    <3> HIDE DEF z
    <3>5. y.sum = w.sum
      BY <1>1, <3>1, <3>4, Resumed
    <3> QED
      BY <3>2, <3>3, <3>5 DEF Says, Data
  <2>3. CASE ~IsFile(store, x.path)
    BY <1>1, <2>1, <2>3, Resumed DEF ReadCurrent
  <2> QED
    BY <2>2, <2>3
<1>6. ASSUME At(r, "read_max")
      PROVE  y.max = NextNo(store, x.path) - 1 /\ y.sum = x.sum
  <2> DEFINE m == NextNo(store, x.path) - 1
             z == [x EXCEPT !.max = m]
  <2>1. Resume(r, z, 1)
    BY <1>6, StepLabel DEF ReadMax, Learns
  <2>2. m \in Nat
    <3>1. FP!NextNo(store, x.path) \in Nat \ {0}
      BY <1>1, Assumed, FP!NextNoType
    <3> QED
      BY <3>1, SameQueries
  <2> HIDE DEF m
  <2>3. z \in RequestType /\ z.max = m /\ z.sum = x.sum
    BY <1>1, <2>2 DEF RequestType
  <2> HIDE DEF z
  <2> QED
    BY <1>1, <2>1, <2>3, Resumed DEF m
<1>7. ASSUME At(r, "copy_blob") PROVE y.sum = x.sum
  <2>1. Resume(r, x, 3) \/ Resume(r, x, 1)
    BY <1>7, StepLabel DEF CopyBlob, Goes
  <2> QED
    BY <1>1, <2>1, Resumed
<1> QED
  BY <1>2, <1>3, <1>4, <1>5, <1>6, <1>7

\* The versions elsewhere stay as they are, and none comes to lie there.
LEMMA VersionsOutside ==
  ASSUME LikeIsExact, IInv, NEW r \in Requests, Step(r), NEW q \in Path, ~Zone(r, q)
  PROVE  /\ \A v : v \in store'.versions /\ v.path = q <=> v \in store.versions /\ v.path = q
         /\ NextNo(store', q) = NextNo(store, q)
<1> DEFINE x == req[r]
<1>1. /\ VersionsChange(r) /\ InFlight(r) /\ store.versions \subseteq VersionType
      /\ x.path \in Path /\ x.dest \in Path
      /\ ~FP!AtOrBelow(x.path, q) /\ ~FP!AtOrBelow(x.dest, q) /\ q # x.path
  BY StepTables, StepLabel, SameTypes, RequestPaths
     DEF IInv, FP!StoreInv, FP!VersionsInv, Zone, FP!AtOrBelow
<1>2. ASSUME NEW v \in store.versions, v.path = q PROVE v \in store'.versions
  BY <1>1, <1>2, VersionsStay
<1>3. ASSUME NEW w \in store'.versions, w.path = q PROVE w \in store.versions
  <2>1. NewVersion(r).path # q
    BY <1>1 DEF NewVersion
  <2>2. ASSUME NEW v \in store.versions, w = [v EXCEPT !.path = MovedPath(x.path, x.dest, x.dir, v.path)]
        PROVE  w \in store.versions
    <3> DEFINE m == MovedPath(x.path, x.dest, x.dir, v.path)
    <3>1. v \in VersionType /\ v.path \in Path
      BY <1>1 DEF VersionType
    <3>2. m = v.path \/ FP!AtOrBelow(x.dest, m)
      BY <1>1, <3>1, MovedAt
    <3>3. w.path = m
      BY <2>2, <3>1 DEF VersionType
    <3>4. m = v.path
      BY <1>1, <1>3, <3>2, <3>3
    <3> HIDE DEF m
    <3>5. [v EXCEPT !.path = m] = v
      BY <3>1, <3>4 DEF VersionType
    <3> QED
      BY <2>2, <3>5 DEF m
  <2> QED
    BY <1>1, <1>3, <2>1, <2>2 DEF VersionsChange, RelocateVersions
<1>4. {v \in store'.versions : v.path = q} = {v \in store.versions : v.path = q}
  BY <1>2, <1>3
<1> QED
  BY <1>2, <1>3, <1>4 DEF NextNo, VersionsAt

\* What another handler remembers is still so.
LEMMA OthersRecall ==
  ASSUME LikeIsExact, Settled, NEW r \in Requests, Step(r), ~faults',
         NEW o \in Requests \ {r}, InFlight(o)
  PROVE  Recalls(o)'
<1> DEFINE x == req[o]
           p == req[o].path
<1>1. /\ Calm /\ IInv /\ InFlight(r) /\ Recalls(o) /\ RequestsInv
      /\ store.versions \subseteq VersionType /\ store'.versions \subseteq VersionType
  <2>1. FP!StoreInv(store')
    BY TablesTyped DEF Settled, Calm, MarksIInv
  <2> QED
    BY <2>1, StepLabel, SameTypes
       DEF Settled, Calm, MarksIInv, IInv, FP!StoreInv, FP!VersionsInv
<1>2. req'[o] = x /\ At(o, "insert_version")' = At(o, "insert_version")
  BY <1>1, Bystander
<1>3. p \in Path /\ Len(p) >= 1 /\ p[1] # VERSIONS /\ Zone(o, p)
  BY <1>1, Places DEF Zone, FP!AtOrBelow
<1>4. ASSUME NEW q \in Path, FP!AtOrBelow(p, q)
      PROVE  /\ \A v : v \in store'.versions /\ v.path = q <=> v \in store.versions /\ v.path = q
             /\ NextNo(store', q) = NextNo(store, q)
  <2>1. ~Zone(r, q)
    BY <1>1, <1>4, ZonesApart DEF Zone
  <2> QED
    BY <1>1, <2>1, VersionsOutside
<1>5. ~Zone(r, p) /\ FP!AtOrBelow(p, p)
  BY <1>1, <1>3, ZonesApart DEF FP!AtOrBelow
<1>6. \A c : Says(store'.rows, p, c) <=> Says(store.rows, p, c)
  BY <1>3, <1>5, Outside
<1>7. \A v : FP!AtOrBelow(p, v.path) => (v \in store'.versions <=> v \in store.versions)
  <2> SUFFICES ASSUME NEW v, FP!AtOrBelow(p, v.path), v \in store'.versions \/ v \in store.versions
               PROVE  v \in store'.versions <=> v \in store.versions
    OBVIOUS
  <2>1. v.path \in Path
    BY <1>1 DEF VersionType
  <2> QED
    BY <1>4, <2>1
<1>8. \A w \in store.rows : w.path = p => \E t \in store'.rows : t.path = p /\ t.dir = w.dir
  BY <1>1, <1>5, RowsStay DEF Zone
<1>9. NextNo(store', p) = NextNo(store, p)
  BY <1>3, <1>4, <1>5
<1>10. \A v \in store.versions : v.path = p => v \in store'.versions
  BY <1>5, <1>7
<1>11. {v \in store'.versions : FP!AtOrBelow(p, v.path)}
         = {v \in store.versions : FP!AtOrBelow(p, v.path)}
  BY <1>7
<1> HIDE DEF p
<1> QED
  BY <1>1, <1>2, <1>6, <1>7, <1>8, <1>9, <1>10, <1>11 DEF Recalls, p

\* What the statement that forgets versions leaves.
LEMMA Forgotten ==
  ASSUME IInv, NEW r \in Requests, Step(r), ~faults', At(r, "delete_versions")
  PROVE  store'.versions = {v \in store.versions : ~Covers(req[r].path, v.path)}
<1> DEFINE f == {v \in store.versions : ~Covers(req[r].path, v.path)}
<1>1. store \in StoreType
  BY SameTypes DEF IInv, FP!StoreInv
<1>2. DeleteVersions(r)
  BY StepLabel
<1>3. Commits(r, [store EXCEPT !.versions = f])
  BY <1>2 DEF DeleteVersions, GivesUp
<1> HIDE DEF f
<1>4. store' = [store EXCEPT !.versions = f]
  BY <1>3 DEF Commits, Becomes
<1> QED
  BY <1>1, <1>4, StoreParts DEF f

\* What a handler remembers when it goes on is so.
LEMMA OwnRecalls ==
  ASSUME LikeIsExact, Settled, NEW r \in Requests, Step(r), ~faults', InFlight(r)'
  PROVE  Recalls(r)'
<1> DEFINE x == req[r]
           y == req'[r]
           p == req[r].path
           op == req[r].op
           pc == req[r].pc
           L == Plan(op)[pc]
<1>1. /\ Calm /\ IInv /\ RequestsInv /\ InFlight(r) /\ Recalls(r)
      /\ y.status # "failed" /\ MarksInv(store.rows) /\ FP!TreeInv(store.rows)
  BY StepLabel DEF Settled, Calm, MarksIInv, IInv, InFlight
<1>2. PICK n \in {1, 3, 4, 7} :
        /\ y.pc = x.pc + n /\ Skips(r, n)
        /\ x.op \in Ops /\ x.pc \in 1 .. Len(Plan(x.op)) /\ y.pc \in 1 .. Len(Plan(x.op))
        /\ At(r, Plan(x.op)[x.pc])
        /\ y.op = x.op /\ y.path = p
        /\ x.pc # 1 => y.dir = x.dir
        /\ x.pc > 2 => y.found = x.found
  BY <1>1, Went
<1>3. /\ At(r, L)
      /\ op \in Ops /\ pc \in 1 .. Len(Plan(op)) /\ pc + n \in 1 .. Len(Plan(op))
      /\ n = 7 => L = "find_existing"
      /\ n = 4 => L = "read_current"
      /\ n = 3 => L = "copy_blob"
  BY <1>2 DEF Skips, At
<1>4. /\ L \notin {"delete_row", "insert_row", "insert_first", "update_checksum", "commit"}
           => store'.rows = store.rows
      /\ L \notin {"insert_version", "delete_versions", "commit"}
           => store'.versions = store.versions
  BY <1>1, <1>3, TablesSteady
<1>5. /\ Snapping(op, pc + n) => \/ L = "read_current" /\ n = 1
                                 \/ Snapping(op, pc) /\ L \in {"copy_blob", "read_max"} /\ n = 1
      /\ op = "version" /\ pc + n >= 3 => L = "find_version" \/ pc >= 3
      /\ op = "purge" /\ pc + n >= 2 => L = "find_root" \/ pc >= 2
      /\ op = "purge" /\ pc + n \in 2 .. 5 =>
           \/ L = "find_root"
           \/ pc \in 2 .. 5 /\ L \in {"read_refs", "delete_versions", "remove_blobs"}
      /\ op = "purge" /\ pc + n = 3 => L = "read_refs"
      /\ op = "purge" /\ pc + n >= 4 =>
           L = "delete_versions" \/ (pc >= 4 /\ L \in {"remove_blobs", "delete_row"})
  <2> HIDE DEF op, pc
  <2> QED
    BY <1>3, Remembers DEF L
<1>6. op = "version" => L \notin {"delete_versions", "commit"}
  <2> HIDE DEF op, pc
  <2> QED
    BY <1>3, Positions DEF L
<1>7. p \in Path /\ store.versions \subseteq VersionType /\ store'.versions \subseteq VersionType
  <2>1. FP!StoreInv(store')
    BY <1>1, TablesTyped
  <2> QED
    BY <1>1, <2>1, SameTypes, RequestPaths DEF IInv, FP!StoreInv, FP!VersionsInv
<1>8. \A v \in VersionType : Covers(p, v.path) <=> FP!AtOrBelow(p, v.path)
  <2> SUFFICES ASSUME NEW v \in VersionType PROVE Covers(p, v.path) <=> FP!AtOrBelow(p, v.path)
    OBVIOUS
  <2>1. p \in FP!Path /\ v.path \in FP!Path /\ FP!LikeIsExact
    BY <1>7, SameTypes, SamePaths DEF VersionType
  <2>2. FP!Covers(p, v.path) <=> FP!AtOrBelow(p, v.path)
    BY <2>1, Assumed, FP!ExactCovers
  <2> QED
    BY <2>2, SamePaths
<1>9. Snapping(op, pc + n) => Says(store'.rows, p, y.sum)
  <2> SUFFICES ASSUME Snapping(op, pc + n) PROVE Says(store'.rows, p, y.sum)
    OBVIOUS
  <2>1. CASE L = "read_current" /\ n = 1
    <3>1. y.pc # x.pc + 4
      BY <1>2, <2>1
    <3> QED
      BY <1>1, <1>3, <1>4, <2>1, <3>1, Learned
  <2>2. CASE Snapping(op, pc) /\ L \in {"copy_blob", "read_max"}
    <3>1. Says(store.rows, p, x.sum)
      BY <1>1, <2>2 DEF Recalls
    <3>2. y.sum = x.sum
      BY <1>1, <1>3, <2>2, Learned
    <3> QED
      BY <1>4, <2>2, <3>1, <3>2
  <2> QED
    BY <1>5, <2>1, <2>2
<1>10. At(r, "insert_version")' => y.max = NextNo(store', p) - 1
  <2> SUFFICES ASSUME At(r, "read_max") PROVE y.max = NextNo(store', p) - 1
    BY <1>1, CameFrom
  <2>1. y.max = NextNo(store, p) - 1
    BY <1>1, Learned
  <2>2. store'.versions = store.versions
    BY <1>1, TablesSteady
  <2> QED
    BY <2>1, <2>2 DEF NextNo, VersionsAt
<1>11. op = "version" /\ pc + n >= 3 => \E v \in store'.versions : y.found = {v} /\ v.path = p
  <2> SUFFICES ASSUME op = "version", pc + n >= 3
               PROVE  \E v \in store'.versions : y.found = {v} /\ v.path = p
    OBVIOUS
  <2>1. store.versions \subseteq store'.versions
    <3>1. VersionsChange(r)
      BY <1>1, StepTables
    <3>2. ~At(r, "delete_versions") /\ ~At(r, "commit")
      BY <1>3, <1>6 DEF At
    <3> QED
      BY <3>1, <3>2 DEF VersionsChange
  <2>2. CASE L = "find_version"
    BY <1>1, <1>3, <2>1, <2>2, Learned
  <2>3. CASE pc >= 3
    <3>1. \E v \in store.versions : x.found = {v} /\ v.path = p
      BY <1>1, <2>3 DEF Recalls
    <3>2. y.found = x.found
      BY <1>2, <2>3
    <3> QED
      BY <2>1, <3>1, <3>2
  <2> QED
    BY <1>5, <2>2, <2>3
<1>12. op = "purge" /\ pc + n >= 2 => ~(Len(p) > 3)
  <2>1. CASE L = "find_root"
    <3>1. PICK t \in TrashRoots(store) : t.path = p
      BY <1>1, <1>3, <2>1, Learned
    <3>2. t \in store.rows /\ t.orig # NoPath
      BY <3>1 DEF TrashRoots
    <3> QED
      BY <1>1, <3>1, <3>2, RowsPlaced
  <2>2. CASE op = "purge" /\ pc >= 2
    BY <1>1, <2>2 DEF Recalls
  <2> QED
    BY <1>5, <2>1, <2>2
<1>13. op = "purge" /\ pc + n \in 2 .. 5 => \E w \in store'.rows : w.path = p /\ w.dir = y.dir
  <2>1. CASE L = "find_root"
    <3>1. PICK t \in TrashRoots(store) : t.path = p /\ t.dir = y.dir
      BY <1>1, <1>3, <2>1, Learned
    <3>2. t \in store'.rows
      BY <1>4, <2>1, <3>1 DEF TrashRoots
    <3> QED
      BY <3>1, <3>2
  <2>2. CASE op = "purge" /\ pc \in 2 .. 5 /\ L \in {"read_refs", "delete_versions", "remove_blobs"}
    <3>1. \E w \in store.rows : w.path = p /\ w.dir = x.dir
      BY <1>1, <2>2 DEF Recalls
    <3>2. y.dir = x.dir /\ store'.rows = store.rows
      BY <1>2, <1>4, <2>2
    <3> QED
      BY <3>1, <3>2
  <2> QED
    BY <1>5, <2>1, <2>2
<1>14. op = "purge" /\ pc + n = 3 => y.found = {v \in store'.versions : FP!AtOrBelow(p, v.path)}
  <2> SUFFICES ASSUME L = "read_refs"
               PROVE  y.found = {v \in store'.versions : FP!AtOrBelow(p, v.path)}
    BY <1>5
  <2>1. y.found = {v \in store.versions : Covers(p, v.path)}
    BY <1>1, <1>3, Learned
  <2>2. store'.versions = store.versions
    BY <1>4
  <2>3. \A v \in store.versions : Covers(p, v.path) <=> FP!AtOrBelow(p, v.path)
    BY <1>7, <1>8
  <2> HIDE DEF p
  <2> QED
    BY <2>1, <2>2, <2>3
<1>15. op = "purge" /\ pc + n >= 4 => \A v \in store'.versions : ~FP!AtOrBelow(p, v.path)
  <2>1. CASE L = "delete_versions"
    <3>1. store'.versions = {v \in store.versions : ~Covers(p, v.path)}
      BY <1>1, <1>3, <2>1, Forgotten
    <3> QED
      BY <1>7, <1>8, <3>1
  <2>2. CASE op = "purge" /\ pc >= 4 /\ L \in {"remove_blobs", "delete_row"}
    BY <1>1, <1>4, <2>2 DEF Recalls
  <2> QED
    BY <1>5, <2>1, <2>2
<1>16. y.op = op /\ y.path = p /\ y.pc = pc + n
  BY <1>2
<1> HIDE DEF x, p, op, pc, L
<1>17. /\ y.op = "version" /\ y.pc >= 3 => \E v \in store'.versions : y.found = {v} /\ v.path = y.path
       /\ Snapping(y.op, y.pc) => Says(store'.rows, y.path, y.sum)
       /\ At(r, "insert_version")' => y.max = NextNo(store', y.path) - 1
       /\ y.op = "purge" /\ y.pc >= 2 => ~(Len(y.path) > 3)
       /\ y.op = "purge" /\ y.pc \in 2 .. 5 => \E w \in store'.rows : w.path = y.path /\ w.dir = y.dir
       /\ y.op = "purge" /\ y.pc = 3 => y.found = {v \in store'.versions : FP!AtOrBelow(y.path, v.path)}
       /\ y.op = "purge" /\ y.pc >= 4 => \A v \in store'.versions : ~FP!AtOrBelow(y.path, v.path)
  BY <1>9, <1>10, <1>11, <1>12, <1>13, <1>14, <1>15, <1>16
<1> QED
  BY <1>17 DEF Recalls

----------------------------------------------------------------------------
(* The version store: every version has its blob, every blob an owner.     *)

\* The positions at which a handler holds a copy whose version is not inserted yet.
LEMMA Holding ==
  ASSUME NEW op \in Ops, NEW pc \in 1 .. Len(Plan(op)), NEW x, x.op = op, x.pc = pc
  PROVE  LET L == Plan(op)[pc]
         IN  /\ L = "insert_version" => Copies(x)
             /\ Copies(x) => L \in {"read_max", "insert_version"} /\ ~PastInsert(op, pc)
             /\ L = "copy_blob" => /\ Snapping(op, pc) /\ pc + 1 \in 1 .. Len(Plan(op))
                                   /\ \A z : z.op = op /\ z.pc = pc + 1 => Copies(z)
             /\ L = "read_max" => /\ pc + 1 \in 1 .. Len(Plan(op))
                                  /\ \A z : z.op = op /\ z.pc = pc + 1 => Copies(z)
             /\ L = "delete_versions" => /\ op = "purge" /\ pc = 3
                                         /\ Plan(op)[pc + 1] = "remove_blobs" /\ pc + 1 <= Len(Plan(op))
             /\ L = "remove_blobs" => op = "purge" /\ pc = 4
<1>1. pc \in Nat /\ pc + 1 \in Nat /\ Len(Plan(op)) \in Nat
  BY PlanLength
<1>2. /\ Plan(op)[pc] = "insert_version" <=>
           \/ op = "save" /\ pc = 5
           \/ op \in {"upload", "chunked", "version"} /\ pc = 6
      /\ Plan(op)[pc] = "read_max" <=>
           \/ op = "save" /\ pc = 4
           \/ op \in {"upload", "chunked", "version"} /\ pc = 5
      /\ Plan(op)[pc] = "copy_blob" <=>
           \/ op = "save" /\ pc = 3
           \/ op \in {"upload", "chunked", "version"} /\ pc = 4
      /\ Plan(op)[pc] = "delete_versions" <=> op = "purge" /\ pc = 3
      /\ Plan(op)[pc] = "remove_blobs" <=> op = "purge" /\ pc = 4
  BY Positions
<1> DEFINE len == Len(Plan(op))
<1>3. /\ op = "upload" => len = 12
      /\ op = "chunked" => len = 10
      /\ op = "save" => len = 9
      /\ op = "purge" => len = 6
      /\ op = "version" => len = 9
  BY Positions
<1>4. op = "purge" /\ pc = 3 => Plan(op)[pc + 1] = "remove_blobs"
  <2> SUFFICES ASSUME op = "purge", pc = 3 PROVE Plan(op)[4] = "remove_blobs"
    BY <1>1
  <2>1. 4 \in 1 .. Len(Plan(op))
    <3> HIDE DEF len
    <3>1. 4 \in 1 .. len
      BY <1>3
    <3> QED
      BY <3>1 DEF len
  <2> QED
    BY <2>1, Positions
<1> HIDE DEF len
<1>5. pc + 1 \in 1 .. len <=> pc + 1 <= len
  BY <1>1 DEF len
<1>6. Plan(op)[pc] \in {"copy_blob", "read_max", "delete_versions"} => pc + 1 <= len
  BY <1>1, <1>2, <1>3
<1> QED
  BY <1>1, <1>2, <1>4, <1>5, <1>6 DEF len, Copies, PastInsert, Snapping

\* What a step does to the version store.
LEMMA StoreSteady ==
  ASSUME LikeIsExact, Settled, NEW r \in Requests, Step(r), ~faults',
         NEW q \in Path, q # Root, q[1] = VERSIONS, NEW c
  PROVE  /\ Holds(store.disk, q, c) =>
              \/ Holds(store'.disk, q, c)
              \/ At(r, "remove_blobs") /\ \E v \in req[r].found : q = Blob(v.ref)
         /\ Holds(store'.disk, q, c) =>
              /\ \/ Holds(store.disk, q, c)
                 \/ At(r, "copy_blob") /\ q = Blob(r) /\ c # DIR /\ Holds(store.disk, req[r].path, c)
              /\ At(r, "remove_blobs") => \A v \in req[r].found : q # Blob(v.ref)
<1>1. Calm /\ IInv /\ InFlight(r)
  BY StepLabel DEF Settled, Calm, MarksIInv
<1>2. ~Zone(r, q)
  BY <1>1, ZonePlace
<1>3. CASE At(r, "copy_blob")
  <2>1. ~At(r, "remove_blobs")
    BY <1>3 DEF At
  <2> QED
    BY <1>1, <1>3, <2>1, BlobForms
<1>4. CASE At(r, "remove_blobs")
  BY <1>1, <1>4, BlobForms
<1>5. CASE ~At(r, "copy_blob") /\ ~At(r, "remove_blobs")
  BY <1>2, <1>5, Outside
<1> QED
  BY <1>3, <1>4, <1>5

\* Blobs have places of their own.
LEMMA Blobs ==
  ASSUME NEW ref \in Refs
  PROVE  Blob(ref) \in Path /\ Blob(ref) # Root /\ Blob(ref)[1] = VERSIONS
         /\ \A other : Blob(ref) = Blob(other) => ref = other
  BY BlobType DEF Blob, Root

\* The bytes of a version stay as long as its row.
LEMMA VersionBytes ==
  ASSUME LikeIsExact, Settled, NEW r \in Requests, Step(r), ~faults', NEW w \in store'.versions
  PROVE  FP!BlobOf(w) \in store'.disk
<1>1. /\ Calm /\ IInv /\ RequestsInv /\ InFlight(r) /\ BlobsAgree /\ Situated
      /\ store.versions \subseteq VersionType /\ store'.versions \subseteq VersionType
  <2>1. FP!StoreInv(store')
    BY TablesTyped DEF Settled, Calm, MarksIInv
  <2> QED
    BY <2>1, StepLabel, SameTypes
       DEF Settled, Calm, MarksIInv, IInv, FP!StoreInv, FP!VersionsInv
<1>2. \A v : FP!BlobOf(v) = [path |-> Blob(v.ref), data |-> v.sum]
  BY SameDisk DEF FP!BlobOf
<1> DEFINE op == req[r].op
           pc == req[r].pc
           L == Plan(op)[pc]
<1>3. op \in Ops /\ pc \in 1 .. Len(Plan(op)) /\ At(r, L) /\ req[r].op = op /\ req[r].pc = pc
  BY <1>1, Where DEF At
<1>4. CASE w = NewVersion(r) /\ At(r, "insert_version")
  <2>1. Copies(req[r])
    <3>1. L = "insert_version"
      BY <1>4 DEF At
    <3> HIDE DEF op, pc
    <3> QED
      BY <1>3, <3>1, Holding DEF L
  <2>2. CopyMade(r) \in store.disk
    BY <1>1, <2>1 DEF BlobsAgree
  <2>3. store'.disk = store.disk
    BY <1>1, <1>4, DiskSteady DEF Shapers, Touchers
  <2> QED
    BY <1>2, <1>4, <2>2, <2>3 DEF NewVersion, CopyMade
<1>5. ASSUME NEW v \in store.versions, w.ref = v.ref, w.sum = v.sum
      PROVE  FP!BlobOf(w) \in store'.disk
  <2>1. Holds(store.disk, Blob(w.ref), w.sum) /\ w.ref \in Refs
    BY <1>1, <1>2, <1>5 DEF BlobsAgree, Holds, VersionType
  <2>2. ~(At(r, "remove_blobs") /\ \E u \in req[r].found : Blob(w.ref) = Blob(u.ref))
    <3> SUFFICES ASSUME At(r, "remove_blobs"), NEW u \in req[r].found, Blob(w.ref) = Blob(u.ref)
                 PROVE  FALSE
      OBVIOUS
    <3>1. L = "remove_blobs"
      BY DEF At
    <3>2. op = "purge" /\ pc = 4
      <4> HIDE DEF op, pc
      <4> QED
        BY <1>3, <3>1, Holding DEF L
    <3>3. u.ref # v.ref
      BY <1>1, <1>3, <3>2 DEF Situated, HasRefs
    <3> QED
      BY <1>5, <2>1, <3>3, Blobs
  <2>3. Holds(store'.disk, Blob(w.ref), w.sum)
    BY <2>1, <2>2, Blobs, StoreSteady
  <2> QED
    BY <1>2, <2>3 DEF Holds
<1> QED
  BY <1>1, <1>4, <1>5, VersionSources

\* A copy is there until its version is inserted.
LEMMA CopiesStay ==
  ASSUME LikeIsExact, Settled, NEW r \in Requests, Step(r), ~faults',
         NEW o \in Requests, InFlight(o)', Copies(req'[o])
  PROVE  CopyMade(o)' \in store'.disk
<1>1. /\ Calm /\ IInv /\ RequestsInv /\ InFlight(r) /\ BlobsAgree /\ DrawsInv /\ Recalls(r)
  BY StepLabel DEF Settled, Calm, MarksIInv, IInv
<1>2. o \in Refs /\ Blob(o) \in Path /\ Blob(o) # Root /\ Blob(o)[1] = VERSIONS
  BY AsyncAssumption, Blobs
<1>3. CASE o # r
  <2>1. req'[o] = req[o] /\ InFlight(o)
    BY <1>1, <1>3, Bystander
  <2>2. Holds(store.disk, Blob(o), req[o].sum)
    BY <1>1, <2>1 DEF BlobsAgree, CopyMade, Holds
  <2>3. ~(At(r, "remove_blobs") /\ \E u \in req[r].found : Blob(o) = Blob(u.ref))
    <3> SUFFICES ASSUME NEW u \in req[r].found, Blob(o) = Blob(u.ref) PROVE FALSE
      OBVIOUS
    <3>1. Spent(req[o])
      BY <1>1, <1>2, Blobs DEF DrawsInv
    <3> DEFINE op == req[o].op
               pc == req[o].pc
    <3>2. op \in Ops /\ pc \in 1 .. Len(Plan(op)) /\ req[o].op = op /\ req[o].pc = pc
      BY <1>1, <2>1 DEF RequestsInv, Knows
    <3>3. ~PastInsert(op, pc)
      <4> HIDE DEF op, pc
      <4> QED
        BY <2>1, <3>2, Holding
    <3> QED
      BY <3>1, <3>3 DEF Spent
  <2>4. Holds(store'.disk, Blob(o), req[o].sum)
    BY <1>2, <2>2, <2>3, StoreSteady
  <2> QED
    BY <2>1, <2>4 DEF Holds, CopyMade
<1>4. CASE o = r
  <2> DEFINE x == req[r]
             y == req'[r]
             p == req[r].path
             op == req[r].op
             pc == req[r].pc
             L == Plan(op)[pc]
  <2>1. PICK n \in {1, 3, 4, 7} :
          /\ y.pc = pc + n /\ Skips(r, n) /\ op \in Ops /\ pc \in 1 .. Len(Plan(op))
          /\ At(r, L) /\ y.op = op
    BY <1>1, <1>4, Went
  <2>2. /\ n = 7 => L = "find_existing"
        /\ n = 4 => L = "read_current"
        /\ n = 3 => L = "copy_blob"
        /\ x.op = op /\ x.pc = pc
    BY <2>1 DEF Skips, At
  <2>3. L = "copy_blob" \/ (Copies(x) /\ L = "read_max")
    <3> HIDE DEF op, pc, x, y
    <3>1. L = "copy_blob" \/ (Copies(x) /\ L = "read_max")
      BY <1>4, <2>1, <2>2, Reaches DEF y, L
    <3> QED
      BY <3>1
  <2>4. y.sum = x.sum
    BY <1>1, <1>4, <2>1, <2>3, Learned DEF InFlight
  <2>5. CASE L = "read_max"
    <3>1. Holds(store.disk, Blob(r), x.sum)
      BY <1>1, <2>3, <2>5 DEF BlobsAgree, CopyMade, Holds
    <3>2. store'.disk = store.disk
      BY <1>1, <2>1, <2>5, DiskSteady DEF Shapers, Touchers
    <3> QED
      BY <1>4, <2>4, <3>1, <3>2 DEF Holds, CopyMade
  <2>6. CASE L = "copy_blob"
    <3>1. Snapping(op, pc)
      <4> HIDE DEF op, pc, x, y
      <4> QED
        BY <2>1, <2>2, <2>6, Holding DEF L
    <3>2. Says(store.rows, p, x.sum) /\ x.sum # DIR
      BY <1>1, <3>1, StorageAssumption DEF Recalls, RequestsInv, Knows
    <3>3. Agree(p) /\ p \in Path
      <4>1. p \in Path /\ Zone(r, p)
        BY <1>1, RequestPaths DEF Zone, FP!AtOrBelow
      <4>2. ~Pends(r, p)
        BY <2>1, <2>6 DEF Pends, At
      <4> QED
        BY <1>1, <4>1, <4>2, OwnAgree
    <3>4. Holds(store.disk, p, x.sum)
      BY <3>2, <3>3 DEF Agree
    <3>5. Holds(store'.disk, Blob(r), x.sum)
      BY <1>1, <1>2, <1>4, <2>1, <2>6, <3>2, <3>4, BlobForms
    <3> QED
      BY <1>4, <2>4, <3>5 DEF Holds, CopyMade
  <2> QED
    BY <2>3, <2>5, <2>6
<1> QED
  BY <1>3, <1>4

\* Every blob has an owner: a version, a handler about to insert one, or a purge about to
\* remove it.
BlobOwned(e) ==
  \/ \E v \in store.versions : e = FP!BlobOf(v)
  \/ \E r \in Requests : InFlight(r) /\ Copies(req[r]) /\ e = CopyMade(r)
  \/ \E r \in Requests : Forgets(r, e)

\* The step from which a version's row is gone.
LEMMA VersionGoes ==
  ASSUME LikeIsExact, Settled, NEW r \in Requests, Step(r), ~faults', NEW v \in store.versions
  PROVE  \/ \E w \in store'.versions : w.ref = v.ref /\ w.sum = v.sum
         \/ v \in req'[r].found /\ At(r, "remove_blobs")'
<1> DEFINE x == req[r]
           y == req'[r]
           op == req[r].op
           pc == req[r].pc
           L == Plan(op)[pc]
<1>1. /\ Calm /\ IInv /\ RequestsInv /\ InFlight(r) /\ Recalls(r) /\ VersionsChange(r)
      /\ store.versions \subseteq VersionType /\ op \in Ops /\ pc \in 1 .. Len(Plan(op))
  BY StepTables, StepLabel, Where, SameTypes
     DEF Settled, Calm, MarksIInv, IInv, FP!StoreInv, FP!VersionsInv, RequestsInv, Knows
<1>2. CASE /\ At(r, "delete_versions")
           /\ store'.versions = {u \in store.versions : ~Covers(x.path, u.path)}
  <2>1. op = "purge" /\ pc = 3 /\ Plan(op)[pc + 1] = "remove_blobs" /\ pc + 1 <= Len(Plan(op))
    <3>1. L = "delete_versions" /\ x.op = op /\ x.pc = pc
      BY <1>2 DEF At
    <3> HIDE DEF op, pc, x
    <3> QED
      BY <1>1, <3>1, Holding DEF L
  <2>2. y.status # "failed"
    <3>1. Root \in Path
      BY DEF Root, Path
    <3> QED
      BY <1>2, <3>1, RowForms
  <2>3. Resume(r, x, 1)
    <3>1. DeleteVersions(r)
      BY <1>2, StepLabel
    <3> QED
      BY <1>1, <2>2, <3>1, Failed DEF DeleteVersions, Commits, GivesUp, Goes, RequestsInv
  <2>4. /\ y.pc = pc + 1 /\ y.op = op /\ y.found = x.found
        /\ y.status = IF pc + 1 > Len(Plan(op)) THEN "ok" ELSE "run"
    BY <1>1, <2>3, Resumed DEF RequestsInv
  <2>5. y.status = "run"
    <3>1. pc + 1 \in Nat /\ Len(Plan(op)) \in Nat
      BY <1>1, PlanLength
    <3> HIDE DEF op, pc
    <3> QED
      BY <2>1, <2>4, <3>1
  <2>6. At(r, "remove_blobs")'
    BY <2>1, <2>4, <2>5 DEF At, InFlight
  <2>7. Covers(x.path, v.path) => v \in x.found
    <3>1. x.found = {u \in store.versions : FP!AtOrBelow(x.path, u.path)}
      BY <1>1, <2>1 DEF Recalls
    <3>2. v.path \in FP!Path /\ x.path \in FP!Path /\ FP!LikeIsExact
      BY <1>1, SameTypes, SamePaths, RequestPaths DEF VersionType
    <3>3. FP!Covers(x.path, v.path) <=> FP!AtOrBelow(x.path, v.path)
      BY <3>2, Assumed, FP!ExactCovers
    <3> QED
      BY <3>1, <3>3, SamePaths
  <2> QED
    BY <1>2, <2>4, <2>6, <2>7
<1>3. CASE store'.versions = RelocateVersions(store.versions, x.path, x.dest, x.dir)
  <2> DEFINE m == MovedPath(x.path, x.dest, x.dir, v.path)
             w == [v EXCEPT !.path = m]
  <2>1. w \in store'.versions
    BY <1>3 DEF RelocateVersions
  <2>2. w.ref = v.ref /\ w.sum = v.sum
    BY <1>1 DEF VersionType
  <2> QED
    BY <2>1, <2>2
<1> QED
  BY <1>1, <1>2, <1>3 DEF VersionsChange

\* A handler that copied keeps its copy, or has inserted the version that names it.
LEMMA CopyGoes ==
  ASSUME LikeIsExact, Settled, NEW r \in Requests, Step(r), ~faults', Copies(req[r])
  PROVE  \/ InFlight(r)' /\ Copies(req'[r]) /\ CopyMade(r)' = CopyMade(r)
         \/ \E w \in store'.versions : w.ref = r /\ w.sum = req[r].sum
<1> DEFINE x == req[r]
           y == req'[r]
           op == req[r].op
           pc == req[r].pc
           L == Plan(op)[pc]
<1>1. /\ Calm /\ IInv /\ RequestsInv /\ InFlight(r) /\ op \in Ops /\ pc \in 1 .. Len(Plan(op))
      /\ At(r, L) /\ x.op = op /\ x.pc = pc /\ x \in RequestType
  BY StepLabel, Where DEF Settled, Calm, MarksIInv, IInv, RequestsInv, Knows, At
<1>2. L \in {"read_max", "insert_version"}
  <2> HIDE DEF op, pc, x
  <2> QED
    BY <1>1, Holding DEF L, x
<1>3. CASE L = "read_max"
  <2>1. pc + 1 \in 1 .. Len(Plan(op)) /\ \A z : z.op = op /\ z.pc = pc + 1 => Copies(z)
    <3> HIDE DEF op, pc, x
    <3> QED
      BY <1>1, <1>3, Holding DEF L
  <2> DEFINE m == NextNo(store, x.path) - 1
             z == [x EXCEPT !.max = m]
  <2>2. Resume(r, z, 1)
    BY <1>1, <1>3, StepLabel DEF ReadMax, Learns
  <2>3. m \in Nat
    <3>1. FP!NextNo(store, x.path) \in Nat \ {0}
      BY <1>1, Assumed, FP!NextNoType DEF IInv
    <3> QED
      BY <3>1, SameQueries
  <2> HIDE DEF m
  <2>4. z \in RequestType /\ z.op = op /\ z.pc = pc /\ z.sum = x.sum
    BY <1>1, <2>3 DEF RequestType
  <2> HIDE DEF z
  <2>5. /\ y.op = op /\ y.pc = pc + 1 /\ y.sum = x.sum
        /\ y.status = IF pc + 1 > Len(Plan(op)) THEN "ok" ELSE "run"
    BY <1>1, <2>2, <2>4, Resumed DEF RequestsInv
  <2>6. y.status = "run" /\ Copies(y)
    BY <2>1, <2>5
  <2> QED
    BY <2>5, <2>6 DEF InFlight, CopyMade
<1>4. CASE L = "insert_version"
  <2>1. NewVersion(r) \in store'.versions
    <3>1. y.status # "failed"
      <4>1. Root \in Path
        BY DEF Root, Path
      <4> QED
        BY <1>1, <1>4, <4>1, RowForms
    <3>2. store'.versions = store.versions \cup {NewVersion(r)}
      BY <1>1, <1>4, <3>1, Outcome DEF Did
    <3> QED
      BY <3>2
  <2> QED
    BY <2>1 DEF NewVersion
<1> QED
  BY <1>2, <1>3, <1>4

\* Every entry of the version store still has an owner.
LEMMA OwnersStep ==
  ASSUME LikeIsExact, Settled, NEW r \in Requests, Step(r), ~faults',
         NEW e \in store'.disk, e.path # Root, e.path[1] = VERSIONS
  PROVE  BlobOwned(e)'
<1> DEFINE x == req[r]
           y == req'[r]
           p == req[r].path
           op == req[r].op
           pc == req[r].pc
           L == Plan(op)[pc]
<1>1. /\ Calm /\ IInv /\ RequestsInv /\ InFlight(r) /\ BlobsAgree /\ Recalls(r)
      /\ op \in Ops /\ pc \in 1 .. Len(Plan(op)) /\ At(r, L) /\ x.op = op /\ x.pc = pc
      /\ store'.disk \subseteq EntryType /\ x \in RequestType
  <2>1. FP!StoreInv(store')
    BY TablesTyped DEF Settled, Calm, MarksIInv
  <2> QED
    BY <2>1, StepLabel, Where, SameTypes
       DEF Settled, Calm, MarksIInv, IInv, RequestsInv, Knows, At, FP!StoreInv, FP!DiskInv
<1>2. e.path \in Path /\ e = [path |-> e.path, data |-> e.data] /\ Holds(store'.disk, e.path, e.data)
  BY <1>1 DEF EntryType, Holds
<1>3. \A v : FP!BlobOf(v) = [path |-> Blob(v.ref), data |-> v.sum]
  BY SameDisk DEF FP!BlobOf
<1>4. /\ \/ Holds(store.disk, e.path, e.data)
         \/ At(r, "copy_blob") /\ e.path = Blob(r) /\ e.data # DIR /\ Holds(store.disk, p, e.data)
      /\ At(r, "remove_blobs") => \A v \in x.found : e.path # Blob(v.ref)
  BY <1>2, StoreSteady
<1>5. CASE At(r, "copy_blob") /\ e.path = Blob(r) /\ e.data # DIR /\ Holds(store.disk, p, e.data)
  <2>1. /\ Snapping(op, pc) /\ pc + 1 \in 1 .. Len(Plan(op))
        /\ \A z : z.op = op /\ z.pc = pc + 1 => Copies(z)
    <3>1. L = "copy_blob"
      BY <1>5 DEF At
    <3> HIDE DEF op, pc, x
    <3> QED
      BY <1>1, <3>1, Holding DEF L
  <2>2. Says(store.rows, p, x.sum)
    BY <1>1, <2>1 DEF Recalls
  <2>3. Agree(p)
    <3>1. p \in Path /\ Zone(r, p)
      BY <1>1, RequestPaths DEF Zone, FP!AtOrBelow
    <3>2. ~Pends(r, p)
      BY <1>5 DEF Pends, At
    <3> QED
      BY <1>1, <3>1, <3>2, OwnAgree
  <2>4. e.data = x.sum
    BY <1>1, <1>5, <2>2, <2>3, Readable DEF Agree
  <2>5. Resume(r, x, 1)
    <3>1. FileOn(store.disk, p) # {}
      <4>1. [path |-> p, data |-> e.data] \in FileOn(store.disk, p)
        BY <1>5 DEF Holds, FileOn
      <4> QED
        BY <4>1
    <3> QED
      BY <1>5, <3>1, StepLabel DEF CopyBlob, Goes
  <2>6. /\ y.op = op /\ y.pc = pc + 1 /\ y.sum = x.sum
        /\ y.status = IF pc + 1 > Len(Plan(op)) THEN "ok" ELSE "run"
    BY <1>1, <2>5, Resumed DEF RequestsInv
  <2>7. InFlight(r)' /\ Copies(y)
    BY <2>1, <2>6 DEF InFlight
  <2>8. e = CopyMade(r)'
    BY <1>2, <1>5, <2>4, <2>6 DEF CopyMade
  <2> QED
    BY <2>7, <2>8 DEF BlobOwned
<1>6. ASSUME NEW v \in store.versions, e = FP!BlobOf(v) PROVE BlobOwned(e)'
  <2>1. CASE \E w \in store'.versions : w.ref = v.ref /\ w.sum = v.sum
    <3>1. \E w \in store'.versions : e = FP!BlobOf(w)
      BY <1>3, <1>6, <2>1
    <3> QED
      BY <3>1 DEF BlobOwned
  <2>2. CASE v \in y.found /\ At(r, "remove_blobs")'
    BY <1>6, <2>2 DEF BlobOwned, Forgets
  <2> QED
    BY <2>1, <2>2, VersionGoes
<1>7. ASSUME NEW o \in Requests, InFlight(o), Copies(req[o]), e = CopyMade(o) PROVE BlobOwned(e)'
  <2>1. CASE o # r
    <3>1. req'[o] = req[o] /\ InFlight(o)'
      BY <1>1, <1>7, <2>1, Bystander
    <3> QED
      BY <1>7, <3>1 DEF BlobOwned, CopyMade
  <2>2. CASE o = r /\ InFlight(r)' /\ Copies(y) /\ CopyMade(r)' = CopyMade(r)
    BY <1>7, <2>2 DEF BlobOwned
  <2>3. CASE o = r /\ \E w \in store'.versions : w.ref = r /\ w.sum = x.sum
    <3>1. \E w \in store'.versions : e = FP!BlobOf(w)
      BY <1>3, <1>7, <2>3 DEF CopyMade
    <3> QED
      BY <3>1 DEF BlobOwned
  <2> QED
    BY <1>7, <2>1, <2>2, <2>3, CopyGoes
<1>8. ASSUME NEW o \in Requests, Forgets(o, e) PROVE BlobOwned(e)'
  <2>1. CASE o # r
    <3>1. req'[o] = req[o] /\ At(o, "remove_blobs")' = At(o, "remove_blobs")
      BY <1>1, <2>1, Bystander
    <3> QED
      BY <1>8, <3>1 DEF BlobOwned, Forgets
  <2>2. CASE o = r
    BY <1>3, <1>4, <1>8, <2>2 DEF Forgets
  <2> QED
    BY <2>1, <2>2
<1>9. CASE Holds(store.disk, e.path, e.data)
  <2>1. e \in store.disk
    BY <1>2, <1>9 DEF Holds
  <2>2. BlobOwned(e)
    BY <1>1, <2>1 DEF BlobsAgree, BlobOwned
  <2> QED
    BY <1>6, <1>7, <1>8, <2>2 DEF BlobOwned
<1> QED
  BY <1>4, <1>5, <1>9

\* Rows and blobs of the version store agree again.
LEMMA BlobsStep ==
  ASSUME LikeIsExact, Settled, NEW r \in Requests, Step(r), ~faults'
  PROVE  BlobsAgree'
<1>1. \A w \in store'.versions : FP!BlobOf(w) \in store'.disk
  BY VersionBytes
<1>2. \A o \in Requests : InFlight(o)' /\ Copies(req'[o]) => CopyMade(o)' \in store'.disk
  BY CopiesStay
<1>3. \A e \in store'.disk : e.path # Root /\ e.path[1] = VERSIONS => BlobOwned(e)'
  BY OwnersStep
<1> QED
  BY <1>1, <1>2, <1>3 DEF BlobsAgree, BlobOwned

----------------------------------------------------------------------------
(* Every version has its file.                                             *)

\* The positions without a row: how they are left, and how they are reached.
LEMMA Standing ==
  ASSUME NEW op \in Ops, NEW pc \in 1 .. Len(Plan(op)), NEW x, x.op = op, x.pc = pc
  PROVE  LET L == Plan(op)[pc]
             rowless(z) == Clears(z) \/ (z.op = "save" /\ z.pc \in 7 .. 8)
         IN  /\ rowless(x) => \/ /\ L \in {"remove_bytes", "make_parents", "stream", "replace", "adopt"}
                                 /\ pc + 1 \in 1 .. Len(Plan(op))
                                 /\ \A z : z.op = op /\ z.pc = pc + 1 => rowless(z)
                              \/ L = "insert_row"
                              \/ L = "insert_first" /\ op = "save"
             /\ L = "remove_bytes" => rowless(x)
             /\ L = "commit" => ~rowless(x)
             /\ L = "insert_version" => HasFile(x)
             /\ L = "delete_row" => \/ op = "purge" /\ pc = 5
                                    \/ op # "purge" /\ HasFile(x)
<1>1. pc \in Nat /\ pc + 1 \in Nat /\ Len(Plan(op)) \in Nat
  BY PlanLength
<1> DEFINE len == Len(Plan(op))
<1>2. /\ op = "upload" => len = 12
      /\ op = "chunked" => len = 10
      /\ op = "save" => len = 9
  BY Positions
<1>3. /\ Plan(op)[pc] = "remove_bytes" <=>
           \/ op = "save" /\ pc = 7
           \/ op \in {"upload", "chunked"} /\ pc = 8
      /\ Plan(op)[pc] = "make_parents" <=> op = "upload" /\ pc = 9
      /\ Plan(op)[pc] = "stream" <=> op = "upload" /\ pc = 10
      /\ Plan(op)[pc] = "replace" <=> op = "upload" /\ pc = 11
      /\ Plan(op)[pc] = "insert_row" <=>
           \/ op = "chunked" /\ pc = 10
           \/ op = "upload" /\ pc = 12
      /\ Plan(op)[pc] = "adopt" <=> op = "chunked" /\ pc = 9
      /\ Plan(op)[pc] = "insert_first" <=>
           \/ op = "folder" /\ pc = 3
           \/ op = "save" /\ pc = 8
      /\ Plan(op)[pc] = "commit" <=>
           \/ op = "delete" /\ pc = 3
           \/ op = "rename" /\ pc = 4
           \/ op \in {"move", "restore"} /\ pc = 5
      /\ Plan(op)[pc] = "insert_version" <=>
           \/ op = "save" /\ pc = 5
           \/ op \in {"upload", "chunked", "version"} /\ pc = 6
      /\ Plan(op)[pc] = "delete_row" <=>
           \/ op = "purge" /\ pc = 5
           \/ op = "save" /\ pc = 6
           \/ op \in {"upload", "chunked"} /\ pc = 7
  BY Positions
<1> HIDE DEF len
<1>4. pc + 1 \in 1 .. len <=> pc + 1 <= len
  BY <1>1 DEF len
<1>5. Plan(op)[pc] \in {"remove_bytes", "make_parents", "stream", "replace", "adopt"} => pc + 1 <= len
  BY <1>1, <1>2, <1>3
<1> QED
  BY <1>1, <1>3, <1>4, <1>5 DEF len, Clears, HasFile

\* The handler that has deleted the row is the owner, until it inserts the new one.
LEMMA RowlessGoes ==
  ASSUME LikeIsExact, Settled, NEW r \in Requests, Step(r), ~faults', Rowless(r)
  PROVE  \/ Rowless(r)'
         \/ \E w \in store'.rows : w.path = req[r].path /\ w.dir = FALSE
<1> DEFINE x == req[r]
           y == req'[r]
           p == req[r].path
           op == req[r].op
           pc == req[r].pc
           L == Plan(op)[pc]
<1>1. /\ Calm /\ IInv /\ RequestsInv /\ InFlight(r) /\ op \in Ops /\ pc \in 1 .. Len(Plan(op))
      /\ At(r, L) /\ x.op = op /\ x.pc = pc /\ Owes(r) /\ p \in Path
  BY StepLabel, Where, RequestPaths
     DEF Settled, Calm, MarksIInv, IInv, RequestsInv, Knows, At
<1>2. \/ /\ L \in {"remove_bytes", "make_parents", "stream", "replace", "adopt"}
         /\ pc + 1 \in 1 .. Len(Plan(op))
         /\ \A z : z.op = op /\ z.pc = pc + 1 => Clears(z) \/ (z.op = "save" /\ z.pc \in 7 .. 8)
      \/ L = "insert_row"
      \/ L = "insert_first" /\ op = "save"
  <2>1. Clears(x) \/ (x.op = "save" /\ x.pc \in 7 .. 8)
    BY DEF Rowless
  <2> HIDE DEF op, pc, x
  <2> QED
    BY <1>1, <2>1, Standing DEF L
<1>3. CASE /\ L \in {"remove_bytes", "make_parents", "stream", "replace", "adopt"}
           /\ pc + 1 \in 1 .. Len(Plan(op))
           /\ \A z : z.op = op /\ z.pc = pc + 1 => Clears(z) \/ (z.op = "save" /\ z.pc \in 7 .. 8)
  <2>1. y.status # "failed"
    <3>1. Root \in Path
      BY DEF Root, Path
    <3> QED
      BY <1>1, <1>3, <3>1, TouchForms, ZenonT(40) DEF Touchers
  <2>2. Goes(r)
    <3>1. ~Fails(r)
      BY <1>1, <2>1, Failed DEF RequestsInv
    <3> QED
      BY <1>1, <1>3, <3>1, StepLabel DEF RemoveBytes, MakeUploadParents, Stream, Replace, Adopt
  <2>3. y.op = op /\ y.pc = pc + 1 /\ y.status = IF pc + 1 > Len(Plan(op)) THEN "ok" ELSE "run"
    <3>1. Resume(r, x, 1) /\ x \in RequestType
      BY <1>1, <2>2 DEF Goes, RequestsInv
    <3> QED
      BY <1>1, <3>1, Resumed DEF RequestsInv
  <2>4. y.status = "run"
    BY <1>3, <2>3
  <2> QED
    BY <1>3, <2>3, <2>4 DEF Rowless, InFlight
<1>4. CASE L = "insert_row"
  <2>1. y.status # "failed"
    BY <1>1, <1>4, RowForms
  <2>2. store'.rows = store.rows \cup {NewRow(p, FALSE, r, x.node)}
    BY <1>1, <1>4, <2>1, Outcome DEF Did
  <2>3. NewRow(p, FALSE, r, x.node).path = p /\ NewRow(p, FALSE, r, x.node).dir = FALSE
    BY DEF NewRow
  <2> QED
    BY <2>2, <2>3
<1>5. CASE L = "insert_first" /\ op = "save"
  <2>1. ~HasKey(store, p)
    BY <1>1 DEF Owes, Says, HasKey
  <2>2. InsertFirst(r)
    BY <1>1, <1>5, StepLabel
  <2>3. Goes(r)
    BY <2>1, <2>2 DEF InsertFirst, Commits, GivesUp
  <2>4. y.status # "failed"
    BY <1>1, <2>3, GoesOn
  <2>5. PICK sum : store'.rows = store.rows \cup {NewRow(p, FALSE, sum, x.node)}
    BY <1>1, <1>5, <2>4, Outcome DEF Did
  <2>6. NewRow(p, FALSE, sum, x.node).path = p /\ NewRow(p, FALSE, sum, x.node).dir = FALSE
    BY DEF NewRow
  <2> QED
    BY <2>5, <2>6
<1> QED
  BY <1>2, <1>3, <1>4, <1>5

\* The history of a file keeps its file, or the handler that is replacing it.
LEMMA OwnedStep ==
  ASSUME LikeIsExact, Settled, NEW r \in Requests, Step(r), ~faults', NEW w \in store'.versions
  PROVE  Owned(w.path)'
<1> DEFINE x == req[r]
           y == req'[r]
           p == req[r].path
           op == req[r].op
           pc == req[r].pc
           L == Plan(op)[pc]
<1>1. /\ Calm /\ IInv /\ RequestsInv /\ InFlight(r) /\ op \in Ops /\ pc \in 1 .. Len(Plan(op))
      /\ At(r, L) /\ x.op = op /\ x.pc = pc /\ Recalls(r) /\ p \in Path /\ VersionsChange(r)
      /\ MarksInv(store.rows) /\ FP!TreeInv(store.rows) /\ Apart /\ x.dest \in Path
      /\ store.versions \subseteq VersionType /\ x.dir \in BOOLEAN
      /\ \A v \in store.versions : Owned(v.path)
  BY StepLabel, Where, RequestPaths, StepTables, SameTypes
     DEF Settled, Calm, MarksIInv, IInv, RequestsInv, Knows, At, FP!StoreInv, FP!VersionsInv
<1>2. /\ L = "remove_bytes" => Clears(x) \/ (x.op = "save" /\ x.pc \in 7 .. 8)
      /\ L = "commit" => ~(Clears(x) \/ (x.op = "save" /\ x.pc \in 7 .. 8))
      /\ L = "insert_version" => HasFile(x)
      /\ L = "delete_row" => (op = "purge" /\ pc = 5) \/ (op # "purge" /\ HasFile(x))
  <2> HIDE DEF op, pc, x
  <2> QED
    BY <1>1, Standing DEF L
<1>3. HasFile(x) => \E f \in store.rows : f.path = p /\ f.dir = FALSE
  BY <1>1 DEF Calm, Ready, Prepared, FileAt
<1>4. CASE w = NewVersion(r) /\ At(r, "insert_version")
  <2>1. store'.rows = store.rows
    BY <1>1, <1>4, TablesSteady
  <2>2. L = "insert_version" /\ w.path = p
    BY <1>4 DEF At, NewVersion
  <2> QED
    BY <1>2, <1>3, <2>1, <2>2 DEF Owned
<1>5. ASSUME NEW o \in Requests \ {r}, Rowless(o)
      PROVE  Rowless(o)' /\ req'[o].path = req[o].path
  <2>1. req'[o] = req[o]
    BY <1>1, Bystander
  <2> QED
    BY <1>5, <2>1 DEF Rowless, InFlight
<1>6. CASE w \in store.versions /\ ~At(r, "commit")
  <2>1. ASSUME NEW t \in store.rows, t.path = w.path, t.dir = FALSE
        PROVE  Owned(w.path)'
    <3>1. CASE \E u \in store'.rows : u.path = t.path /\ u.dir = t.dir
      BY <2>1, <3>1 DEF Owned
    <3>2. CASE At(r, "delete_row") /\ FP!AtOrBelow(p, t.path)
      <4>1. L = "delete_row"
        BY <3>2 DEF At
      <4>2. op # "purge"
        BY <1>1, <1>2, <1>6, <2>1, <3>2, <4>1 DEF Recalls
      <4>3. PICK f \in store.rows : f.path = p /\ f.dir = FALSE
        BY <1>2, <1>3, <4>1, <4>2
      <4>4. t.path = p
        <5>1. ~Below(p, t.path)
          BY <1>1, <4>3, FilesAreLeaves
        <5> QED
          BY <3>2, <5>1, SamePaths DEF FP!AtOrBelow
      <4>5. y.status # "failed"
        BY <1>1, <3>2, RowForms
      <4>6. At(r, "remove_bytes")' /\ y.path = p
        BY <1>1, <3>2, <4>2, <4>5, Onward
      <4>7. Rowless(r)'
        <5>1. RequestsInv'
          BY <1>1, RequestsStep
        <5>2. InFlight(r)' /\ Plan(y.op)[y.pc] = "remove_bytes"
          BY <4>6 DEF At
        <5>3. y.op \in Ops /\ y.pc \in 1 .. Len(Plan(y.op))
          BY <5>1, <5>2 DEF RequestsInv, Knows
        <5>4. Clears(y) \/ (y.op = "save" /\ y.pc \in 7 .. 8)
          <6> DEFINE a == y.op
                     b == y.pc
          <6>1. a \in Ops /\ b \in 1 .. Len(Plan(a)) /\ y.op = a /\ y.pc = b
                /\ Plan(a)[b] = "remove_bytes"
            BY <5>2, <5>3
          <6> HIDE DEF a, b, y
          <6> QED
            BY <6>1, Standing
        <5> QED
          BY <5>2, <5>4 DEF Rowless
      <4> QED
        BY <2>1, <4>4, <4>6, <4>7 DEF Owned
    <3> QED
      BY <1>1, <1>6, <3>1, <3>2, RowRemains
  <2>2. ASSUME NEW o \in Requests, Rowless(o), req[o].path = w.path
        PROVE  Owned(w.path)'
    <3>1. CASE o # r
      BY <1>5, <2>2, <3>1 DEF Owned
    <3>2. CASE o = r
      <4>1. y.path = p
        BY <1>1, StepFields
      <4> QED
        BY <2>2, <3>2, <4>1, RowlessGoes DEF Owned
    <3> QED
      BY <3>1, <3>2
  <2> QED
    BY <1>1, <1>6, <2>1, <2>2 DEF Owned
<1>7. CASE At(r, "commit")
  <2> DEFINE m(q) == MovedPath(x.path, x.dest, x.dir, q)
  <2>1. /\ \A u \in store.rows : \E t \in store'.rows : t.path = m(u.path) /\ t.dir = u.dir
        /\ store'.versions = {[v EXCEPT !.path = m(v.path)] : v \in store.versions}
    BY <1>1, <1>7, CommitMoves
  <2>2. PICK v \in store.versions : w = [v EXCEPT !.path = m(v.path)]
    BY <2>1
  <2>3. w.path = m(v.path) /\ v.path \in Path
    BY <1>1, <2>2 DEF VersionType
  <2> HIDE DEF m
  <2>4. ASSUME NEW t \in store.rows, t.path = v.path, t.dir = FALSE
        PROVE  Owned(w.path)'
    BY <2>1, <2>3, <2>4 DEF Owned
  <2>5. ASSUME NEW o \in Requests, Rowless(o), req[o].path = v.path
        PROVE  Owned(w.path)'
    <3>1. o # r
      <4>1. L = "commit"
        BY <1>7 DEF At
      <4> QED
        BY <1>2, <2>5, <4>1 DEF Rowless
    <3>2. ~FP!AtOrBelow(p, v.path)
      <4>1. InFlight(o)
        BY <2>5 DEF Rowless
      <4> QED
        BY <1>1, <2>5, <3>1, <4>1, Distant
    <3>3. m(v.path) = v.path
      <4>1. v.path # p /\ ~Below(p, v.path)
        BY <3>2, SamePaths DEF FP!AtOrBelow
      <4> DEFINE new == x.dest
                 dir == x.dir
                 q == v.path
      <4>2. p \in Path /\ new \in Path /\ dir \in BOOLEAN /\ q \in Path /\ q # p /\ ~Below(p, q)
        BY <1>1, <2>3, <4>1
      <4>3. MovedPath(p, new, dir, q) = q
        <5> HIDE DEF p, new, dir, q
        <5> QED
          BY <4>2, MovedAt
      <4> QED
        BY <4>3 DEF m
    <3> QED
      BY <1>5, <2>3, <2>5, <3>1, <3>3 DEF Owned
  <2> QED
    BY <1>1, <2>4, <2>5 DEF Owned
<1>8. w \in store.versions \/ At(r, "commit") \/ (w = NewVersion(r) /\ At(r, "insert_version"))
  BY <1>1 DEF VersionsChange
<1> QED
  BY <1>4, <1>6, <1>7, <1>8

----------------------------------------------------------------------------
(* The numbers of the versions.                                            *)

\* A commit keeps the histories of two files apart.
LEMMA CommitParts ==
  ASSUME LikeIsExact, Settled, NEW r \in Requests, Step(r), At(r, "commit"),
         NEW u \in store.versions, NEW v \in store.versions,
         Moving(r, u.path) = Moving(r, v.path)
  PROVE  u.path = v.path
<1> DEFINE x == req[r]
           old == x.path
           new == x.dest
           dir == x.dir
           m(q) == MovedPath(old, new, dir, q)
<1>1. /\ Calm /\ IInv /\ RequestsInv /\ LockInv /\ Apart /\ InFlight(r)
      /\ store.versions \subseteq VersionType
      /\ old \in Path /\ new \in Path /\ x.op \in Ops /\ x.pc \in 1 .. Len(Plan(x.op))
      /\ Plan(x.op)[x.pc] = "commit"
      /\ \A w \in store.versions : Owned(w.path)
  <2>1. Calm /\ IInv /\ InFlight(r) /\ \A w \in store.versions : Owned(w.path)
    BY StepLabel DEF Settled, Calm, MarksIInv
  <2>2. RequestsInv /\ LockInv /\ Apart /\ store.versions \subseteq VersionType
    BY <2>1, SameTypes DEF Calm, IInv, FP!StoreInv, FP!VersionsInv
  <2>3. old \in Path /\ new \in Path
    BY <2>1, <2>2, RequestPaths
  <2> QED
    BY <2>1, <2>2, <2>3, Where
<1>2. ~KeyClash(store.rows, old, new, dir)
  BY <1>1, CommitHolds DEF LockInv
<1>3. ~Rowless(r)
  <2> DEFINE op == x.op
             pc == x.pc
  <2>1. x.op = op /\ x.pc = pc /\ op \in Ops /\ pc \in 1 .. Len(Plan(op)) /\ Plan(op)[pc] = "commit"
    BY <1>1
  <2>2. ~(Clears(x) \/ (x.op = "save" /\ x.pc \in 7 .. 8))
    <3> HIDE DEF op, pc, x
    <3> QED
      BY <2>1, Standing
  <2> QED
    BY <2>2 DEF Rowless
<1>4. u.path \in Path /\ v.path \in Path /\ m(u.path) = m(v.path)
  BY <1>1 DEF VersionType, Moving
<1>5. ASSUME NEW q \in Path, NEW o \in Requests, Rowless(o), req[o].path = q
      PROVE  /\ m(q) = q /\ ~FP!AtOrBelow(new, q)
             /\ \A t \in Path : m(t) = q => t = q
  <2>1. o # r /\ InFlight(o)
    BY <1>3, <1>5 DEF Rowless
  <2>2. ~FP!AtOrBelow(old, q) /\ ~FP!AtOrBelow(new, q)
    BY <1>1, <1>5, <2>1, Distant
  <2>3. q # old /\ ~Below(old, q)
    BY <2>2, SamePaths DEF FP!AtOrBelow
  <2> HIDE DEF old, new, dir
  <2>4. m(q) = q
    BY <1>1, <2>3, MovedAt
  <2>5. ASSUME NEW t \in Path, m(t) = q PROVE t = q
    <3>1. m(t) = t \/ FP!AtOrBelow(new, m(t))
      BY <1>1, MovedAt
    <3> HIDE DEF m
    <3> QED
      BY <2>2, <2>5, <3>1
  <2> QED
    BY <2>2, <2>4, <2>5
<1>6. /\ \/ \E w \in store.rows : w.path = u.path
         \/ \E o \in Requests : Rowless(o) /\ req[o].path = u.path
      /\ \/ \E w \in store.rows : w.path = v.path
         \/ \E o \in Requests : Rowless(o) /\ req[o].path = v.path
  BY <1>1 DEF Owned
<1>7. ASSUME NEW w \in store.rows, NEW t \in store.rows, m(w.path) = m(t.path)
      PROVE  w.path = t.path
  BY <1>2, <1>7 DEF KeyClash
<1> HIDE DEF m
<1> QED
  BY <1>4, <1>5, <1>6, <1>7

\* The numbers at a path stay 1 to n, whatever is inserted, moved or forgotten.
LEMMA NumberedStep ==
  ASSUME LikeIsExact, Settled, NEW r \in Requests, Step(r), ~faults'
  PROVE  FP!Numbered(store'.versions)
<1> DEFINE x == req[r]
           p == x.path
           V == store.versions
           W == store'.versions
<1>1. /\ Calm /\ IInv /\ FP!StoreInv(store) /\ InFlight(r) /\ V \subseteq VersionType
      /\ FP!Numbered(V) /\ VersionsChange(r) /\ Recalls(r) /\ p \in Path
  BY StepLabel, RequestPaths, StepTables, SameTypes
     DEF Settled, Calm, MarksIInv, IInv, FP!StoreInv, FP!VersionsInv
<1>2. CASE W = V
  BY <1>1, <1>2
<1>3. CASE At(r, "insert_version") /\ W = V \cup {NewVersion(r)}
  <2> DEFINE v == NewVersion(r)
             next == NextNo(store, p)
  <2>1. v.path = p /\ v.no = next /\ next \in Nat \ {0}
    <3>1. FP!NextNo(store, p) \in Nat \ {0}
      BY <1>1, Assumed, FP!NextNoType
    <3>2. next \in Nat \ {0}
      BY <3>1, SameQueries
    <3>3. x.max = next - 1
      BY <1>1, <1>3 DEF Recalls
    <3>4. v.path = p /\ v.no = x.max + 1
      BY DEF NewVersion
    <3> QED
      BY <3>2, <3>3, <3>4
  <2>2. /\ \A u \in V : u.path = p => u.no < next
        /\ next # 1 => \E u \in V : u.path = p /\ u.no = next - 1
    <3>1. /\ \A u \in V : u.path = p => u.no < FP!NextNo(store, p)
          /\ FP!NextNo(store, p) # 1 => \E u \in V : u.path = p /\ u.no = FP!NextNo(store, p) - 1
      BY <1>1, Assumed, FP!NextNoIsNext
    <3> QED
      BY <3>1, SameQueries
  <2>3. /\ \A u, w \in V : u.path = w.path /\ u.no = w.no => u = w
        /\ \A w \in V : \A k \in 1 .. w.no : \E u \in V : u.path = w.path /\ u.no = k
        /\ \A u \in V : u.no \in Nat
    BY <1>1 DEF FP!Numbered, VersionType
  <2> HIDE DEF v, next, p, x
  <2>4. ASSUME NEW k \in 1 .. next
        PROVE  \E u \in W : u.path = p /\ u.no = k
    <3>1. CASE k = next
      BY <1>3, <2>1, <3>1 DEF v
    <3>2. CASE k # next
      <4>1. PICK w \in V : w.path = p /\ w.no = next - 1
        BY <2>1, <2>2, <2>4, <3>2
      <4>2. k \in 1 .. w.no
        BY <2>1, <2>4, <3>2, <4>1
      <4> QED
        BY <1>3, <2>3, <4>1, <4>2
    <3> QED
      BY <3>1, <3>2
  <2>5. ASSUME NEW u \in W, NEW w \in W, u.path = w.path, u.no = w.no
        PROVE  u = w
    <3>1. \A t \in V : t.path = p => t.no # next
      BY <2>1, <2>2, <2>3
    <3>2. \A t \in W : t \in V \/ t = v
      BY <1>3 DEF v
    <3> QED
      BY <2>1, <2>3, <2>5, <3>1, <3>2
  <2>6. ASSUME NEW w \in W, NEW k \in 1 .. w.no
        PROVE  \E u \in W : u.path = w.path /\ u.no = k
    <3>1. CASE w \in V
      BY <1>3, <2>3, <2>6, <3>1
    <3>2. CASE w = v
      BY <2>1, <2>4, <2>6, <3>2
    <3> QED
      BY <1>3, <3>1, <3>2 DEF v
  <2> QED
    BY <2>5, <2>6 DEF FP!Numbered
<1>4. CASE At(r, "delete_versions")
  <2>1. W = {v \in V : ~Covers(p, v.path)}
    BY <1>1, <1>4, Forgotten
  <2>2. ASSUME NEW v \in W, NEW k \in 1 .. v.no
        PROVE  \E u \in W : u.path = v.path /\ u.no = k
    <3>1. v \in V /\ ~Covers(p, v.path)
      BY <2>1
    <3>2. PICK u \in V : u.path = v.path /\ u.no = k
      BY <1>1, <2>2, <3>1 DEF FP!Numbered
    <3> QED
      BY <2>1, <3>1, <3>2
  <2>3. ASSUME NEW u \in W, NEW v \in W, u.path = v.path, u.no = v.no
        PROVE  u = v
    BY <1>1, <2>1, <2>3 DEF FP!Numbered
  <2> QED
    BY <2>2, <2>3 DEF FP!Numbered
<1>5. CASE At(r, "commit") /\ W = RelocateVersions(V, x.path, x.dest, x.dir)
  <2> DEFINE m(q) == Moving(r, q)
             M(v) == [v EXCEPT !.path = m(v.path)]
  <2>1. W = {M(v) : v \in V}
    BY <1>5 DEF RelocateVersions, Moving
  <2>2. \A v \in V : M(v).path = m(v.path) /\ M(v).no = v.no
    BY <1>1 DEF VersionType
  <2>3. \A u, v \in V : m(u.path) = m(v.path) => u.path = v.path
    BY <1>5, CommitParts
  <2> HIDE DEF m, M
  <2>4. ASSUME NEW u \in V, NEW v \in V, M(u).path = M(v).path, M(u).no = M(v).no
        PROVE  M(u) = M(v)
    <3>1. u.path = v.path /\ u.no = v.no
      BY <2>2, <2>3, <2>4
    <3> QED
      BY <1>1, <3>1 DEF FP!Numbered
  <2>5. ASSUME NEW v \in V, NEW k \in 1 .. M(v).no
        PROVE  \E u \in W : u.path = M(v).path /\ u.no = k
    <3>1. k \in 1 .. v.no
      BY <2>2, <2>5
    <3>2. PICK u \in V : u.path = v.path /\ u.no = k
      BY <1>1, <3>1 DEF FP!Numbered
    <3>3. M(u) \in W /\ M(u).path = m(u.path) /\ M(u).no = k /\ M(v).path = m(v.path)
      BY <2>1, <2>2, <3>2
    <3> QED
      BY <3>2, <3>3
  <2> QED
    BY <2>1, <2>4, <2>5 DEF FP!Numbered
<1> QED
  BY <1>1, <1>2, <1>3, <1>4, <1>5 DEF VersionsChange

----------------------------------------------------------------------------
(* The invariant holds always.                                             *)

\* A step of any handler keeps the account of who owes what.
LEMMA SettledStep ==
  ASSUME LikeIsExact, Settled, Calm', NEW r \in Requests, Step(r), ~faults'
  PROVE  Settled'
<1>1. IInv
  BY DEF Settled, Calm, MarksIInv
<1>2. Mirrors' /\ BlobsAgree' /\ FP!Numbered(store'.versions)
  BY MirrorsStep, BlobsStep, NumberedStep
<1>3. \A v \in store'.versions : Owned(v.path)'
  BY OwnedStep
<1>4. ASSUME NEW o \in Requests, InFlight(o)'
      PROVE  Owes(o)' /\ Recalls(o)'
  <2>1. CASE o = r
    BY <1>4, <2>1, OwnOwes, OwnRecalls
  <2>2. CASE o # r
    <3>1. InFlight(o)
      BY <1>1, <1>4, <2>2, Bystander
    <3> QED
      BY <2>2, <3>1, OthersOwe, OthersRecall
  <2> QED
    BY <2>1, <2>2
<1> QED
  BY <1>2, <1>3, <1>4 DEF Settled

\* At its first step a handler owes nothing and remembers nothing.
LEMMA FirstStep ==
  ASSUME NEW op \in Ops, NEW L, L = Plan(op)[1], 1 \in 1 .. Len(Plan(op))
  PROVE  L \notin {"remove_bytes", "insert_row", "write_bytes", "make_directory",
                   "update_checksum", "replace", "commit", "remove_tree", "remove_blobs",
                   "insert_version"}
  BY Positions

\* A request that begins finds the store as it was.
LEMMA SettledBegin ==
  ASSUME Settled, Calm', NEW r \in Requests, NEW in \in Inputs, Begin(r, in)
  PROVE  Settled'
<1> DEFINE y == Started(r, in)
<1>1. /\ IInv /\ req[r].status = "idle" /\ req'[r] = y /\ store' = store /\ RequestsInv'
      /\ \A o \in Requests \ {r} : req'[o] = req[o]
  BY BeginRequests DEF Settled, Calm, MarksIInv
<1>2. y.pc = 1 /\ y.status = "run" /\ y.op \in Ops /\ y.found = {}
  BY NewRequest DEF Knows
<1>3. Plan(y.op)[1] \notin {"remove_bytes", "insert_row", "write_bytes", "make_directory",
                   "update_checksum", "replace", "commit", "remove_tree", "remove_blobs",
                   "insert_version"}
  <2>1. 1 \in 1 .. Len(Plan(y.op))
    BY <1>1, <1>2 DEF RequestsInv, InFlight
  <2> DEFINE op == y.op
  <2> HIDE DEF y
  <2>2. op \in Ops /\ 1 \in 1 .. Len(Plan(op))
    BY <1>2, <2>1
  <2> HIDE DEF op
  <2>3. Plan(op)[1] \notin {"remove_bytes", "insert_row", "write_bytes", "make_directory",
                   "update_checksum", "replace", "commit", "remove_tree", "remove_blobs",
                   "insert_version"}
    BY <2>2, FirstStep
  <2> QED
    BY <2>3 DEF op
<1> HIDE DEF y
<1>4. /\ ~InFlight(r) /\ \A o \in Requests \ {r} : InFlight(o)' <=> InFlight(o)
      /\ \A label : ~At(r, label)
      /\ \A o \in Requests \ {r} : \A label : At(o, label)' <=> At(o, label)
  BY <1>1 DEF InFlight, At
<1>5. /\ \A label \in {"remove_bytes", "insert_row", "write_bytes", "make_directory",
                   "update_checksum", "replace", "commit", "remove_tree", "remove_blobs",
                   "insert_version"} : ~At(r, label)'
      /\ ~Rowless(r)' /\ ~Copies(req'[r]) /\ ~Snapping(y.op, y.pc)
  BY <1>1, <1>2, <1>3 DEF At, Rowless, Copies, Clears, Snapping
<1>6. \A p : ~Pends(r, p) /\ ~Pends(r, p)'
  BY <1>4, <1>5 DEF Pends
<1>7. ASSUME NEW o \in Requests \ {r}
      PROVE  /\ \A p : Pends(o, p)' <=> Pends(o, p)
             /\ Rowless(o)' <=> Rowless(o)
             /\ Owes(o) => Owes(o)'
             /\ Recalls(o) => Recalls(o)'
  <2>1. req'[o] = req[o] /\ (InFlight(o)' <=> InFlight(o))
    BY <1>1, <1>4
  <2>2. \A label : At(o, label)' <=> At(o, label)
    BY <1>4
  <2>3. /\ \A p : Pends(o, p)' <=> Pends(o, p)
        /\ Rowless(o)' <=> Rowless(o)
    BY <2>1, <2>2 DEF Pends, Rowless, Part
  <2>4. Owes(o) => Owes(o)'
    BY <1>1, <2>1, <2>2, <2>3 DEF Owes, Part, NewData, Moving
  <2>5. Recalls(o) => Recalls(o)'
    BY <1>1, <2>1, <2>2 DEF Recalls
  <2> QED
    BY <2>3, <2>4, <2>5
<1>8. Mirrors'
  <2>1. Mirrors /\ \A p : (\A o \in Requests : ~Pends(o, p)') => \A o \in Requests : ~Pends(o, p)
    BY <1>6, <1>7 DEF Settled
  <2> QED
    BY <1>1, <2>1 DEF Mirrors, Agree
<1>9. BlobsAgree'
  <2>1. BlobsAgree
    BY DEF Settled
  <2>2. ASSUME NEW o \in Requests, InFlight(o)', Copies(req'[o])
        PROVE  CopyMade(o)' \in store'.disk
    <3>1. o # r
      BY <1>5, <2>2
    <3>2. CopyMade(o)' = CopyMade(o) /\ InFlight(o) /\ Copies(req[o])
      BY <1>1, <1>4, <2>2, <3>1 DEF CopyMade
    <3> QED
      BY <1>1, <2>1, <3>2 DEF BlobsAgree
  <2>3. ASSUME NEW o \in Requests, InFlight(o), Copies(req[o])
        PROVE  InFlight(o)' /\ Copies(req'[o]) /\ CopyMade(o)' = CopyMade(o)
    BY <1>1, <1>4, <2>3 DEF CopyMade
  <2>4. ASSUME NEW o \in Requests, NEW e, Forgets(o, e)
        PROVE  Forgets(o, e)'
    <3>1. o # r
      BY <1>4, <2>4 DEF Forgets
    <3> QED
      BY <1>1, <1>4, <2>4, <3>1 DEF Forgets
  <2>5. ASSUME NEW e \in store'.disk, e.path # Root, e.path[1] = VERSIONS
        PROVE  BlobOwned(e)'
    <3>1. BlobOwned(e)
      BY <1>1, <2>1, <2>5 DEF BlobsAgree, BlobOwned
    <3> QED
      BY <1>1, <2>3, <2>4, <3>1 DEF BlobOwned
  <2> QED
    BY <1>1, <2>1, <2>2, <2>5 DEF BlobsAgree, BlobOwned
<1>10. ASSUME NEW v \in store'.versions PROVE Owned(v.path)'
  <2>1. Owned(v.path)
    BY <1>1 DEF Settled
  <2> QED
    BY <1>1, <1>4, <1>7, <2>1 DEF Owned, Rowless
<1>11. ASSUME NEW o \in Requests, InFlight(o)' PROVE Owes(o)' /\ Recalls(o)'
  <2>1. CASE o = r
    <3>1. Owes(r)'
      BY <1>5 DEF Owes
    <3>2. Recalls(r)'
      BY <1>1, <1>2, <1>5 DEF Recalls
    <3> QED
      BY <2>1, <3>1, <3>2
  <2>2. CASE o # r
    BY <1>4, <1>7, <1>11, <2>2 DEF Settled
  <2> QED
    BY <2>1, <2>2
<1>12. FP!Numbered(store'.versions)
  BY <1>1 DEF Settled
<1> QED
  BY <1>8, <1>9, <1>10, <1>11, <1>12 DEF Settled

\* Numbers that run 1 to n without a gap, n being how many there are, are all different.
LEMMA CountedNumbers ==
  ASSUME NEW S, IsFiniteSet(S), {w.no : w \in S} = 1 .. Cardinality(S)
  PROVE  \A u, w \in S : u.no = w.no => u = w
<1> DEFINE f == [w \in S |-> w.no]
           n == Cardinality(S)
           T == 1 .. n
<1>1. n \in Nat
  BY FS_CardinalityType
<1>2. f \in Surjection(S, T)
  BY DEF Surjection
<1>3. IsFiniteSet(T) /\ Cardinality(T) = n
  <2> HIDE DEF n
  <2> QED
    BY <1>1, FS_Interval
<1> HIDE DEF f, T
<1>4. f \in Injection(S, T)
  BY <1>2, <1>3, FS_Surjection DEF n
<1>5. \A u, w \in S : f[u] = f[w] => u = w
  BY <1>2, <1>4 DEF Injection, Surjection, IsInjective
<1> QED
  BY <1>5 DEF f

\* The versions of the start are numbered.
LEMMA NumberedInit ==
  ASSUME IInv, IsFiniteSet(store.versions), Files!HistoryAttached
  PROVE  FP!Numbered(store.versions)
<1> DEFINE Here(p) == {w \in store.versions : w.path = p}
<1>1. ASSUME NEW v \in store.versions
      PROVE  {w.no : w \in Here(v.path)} = 1 .. Cardinality(Here(v.path)) /\ IsFiniteSet(Here(v.path))
  <2>1. \A S : Files!Cardinality(S) = Cardinality(S)
    BY DEF Cardinality, Files!Cardinality
  <2>2. Files!VersionsAt(store, v.path) = Here(v.path)
    BY DEF Files!VersionsAt
  <2>3. {w.no : w \in Files!VersionsAt(store, v.path)}
           = 1 .. Files!Cardinality(Files!VersionsAt(store, v.path))
    BY DEF Files!HistoryAttached
  <2>4. IsFiniteSet(Here(v.path))
    BY FS_Subset
  <2> QED
    BY <2>1, <2>2, <2>3, <2>4
<1>2. ASSUME NEW u \in store.versions, NEW v \in store.versions, u.path = v.path, u.no = v.no
      PROVE  u = v
  <2>1. u \in Here(v.path) /\ v \in Here(v.path)
    BY <1>2
  <2> HIDE DEF Here
  <2> QED
    BY <1>1, <1>2, <2>1, CountedNumbers
<1>3. ASSUME NEW v \in store.versions, NEW k \in 1 .. v.no
      PROVE  \E u \in store.versions : u.path = v.path /\ u.no = k
  <2> DEFINE n == Cardinality(Here(v.path))
  <2>1. n \in Nat
    BY <1>1, FS_CardinalityType
  <2>2. v.no \in {w.no : w \in Here(v.path)}
    OBVIOUS
  <2>3. v.no \in 1 .. n
    BY <1>1, <2>2
  <2>4. v.no \in Nat
    BY SameTypes DEF IInv, FP!StoreInv, FP!VersionsInv, VersionType
  <2> HIDE DEF n
  <2>5. k \in 1 .. n
    BY <1>3, <2>1, <2>3, <2>4
  <2>6. k \in {w.no : w \in Here(v.path)}
    BY <1>1, <2>5 DEF n
  <2> QED
    BY <2>6
<1> QED
  BY <1>2, <1>3 DEF FP!Numbered

\* A consistent store with nobody at work is settled.
LEMMA SettledInit ==
  ASSUME OnlyUserPaths, Init
  PROVE  Settled
<1>1. /\ BytesIInv /\ overlap = FALSE /\ store = Initial /\ req = [r \in Requests |-> Idle]
      /\ Files!DiskMatches /\ Files!HistoryAttached
  BY BytesInit DEF Init
<1>2. Calm /\ IInv
  BY <1>1 DEF Calm, BytesIInv, QuietIInv, MarksIInv
<1>3. \A r \in Requests : ~InFlight(r)
  BY <1>1 DEF InFlight, Idle
<1>4. \A v : FP!BlobOf(v) = [path |-> Blob(v.ref), data |-> v.sum]
  BY SameDisk DEF FP!BlobOf
<1>5. /\ \A r \in store.rows : r.path # Root /\ r.path \in Path /\ r.dir \in BOOLEAN
                               /\ r.path[1] # VERSIONS
      /\ \A v \in store.versions : v.ref \in Refs
  <2>1. \A r \in store.rows : r.path[1] # VERSIONS
    BY <1>1 DEF OnlyUserPaths
  <2>2. \A v \in store.versions : v.ref \in Refs
    BY <1>2, SameTypes DEF IInv, FP!StoreInv, FP!VersionsInv, VersionType
  <2> QED
    BY <1>2, <2>1, <2>2, Readable
<1>6. \A e : e \in store.disk /\ e.path[1] # VERSIONS <=>
               \E w \in store.rows : e = [path |-> w.path, data |-> Data(w)]
  <2>1. {e \in store.disk : e.path[1] # VERSIONS}
          = {[path |-> w.path, data |-> IF w.dir THEN DIR ELSE w.sum] : w \in store.rows}
    BY <1>1 DEF Files!DiskMatches
  <2> QED
    BY <2>1 DEF Data
<1>7. \A e : e \in store.disk /\ e.path[1] = VERSIONS <=>
               \E v \in store.versions : e = FP!BlobOf(v)
  <2>1. \A ref : Files!Blob(ref) = Blob(ref)
    BY DEF Files!Blob, Blob
  <2>2. {e \in store.disk : e.path[1] = VERSIONS}
          = {[path |-> Files!Blob(v.ref), data |-> v.sum] : v \in store.versions}
    BY <1>1 DEF Files!HistoryAttached
  <2> QED
    BY <1>4, <2>1, <2>2
<1>8. Mirrors
  <2> SUFFICES ASSUME NEW p \in Path, p = Root \/ p[1] # VERSIONS PROVE Agree(p)
    BY DEF Mirrors
  <2>1. ASSUME NEW c, Holds(store.disk, p, c) PROVE Says(store.rows, p, c)
    <3> DEFINE e == [path |-> p, data |-> c]
    <3>1. e \in store.disk /\ e.path = p /\ e.data = c
      BY <2>1 DEF Holds
    <3> HIDE DEF e
    <3>2. CASE p[1] # VERSIONS
      <4>1. PICK w \in store.rows : e = [path |-> w.path, data |-> Data(w)]
        BY <1>6, <3>1, <3>2
      <4> QED
        BY <3>1, <4>1 DEF Says
    <3>3. CASE p = Root /\ p[1] = VERSIONS
      <4>1. PICK v \in store.versions : e = FP!BlobOf(v)
        BY <1>7, <3>1, <3>3
      <4> QED
        BY <1>4, <1>5, <3>1, <3>3, <4>1, Blobs
    <3> QED
      BY <3>2, <3>3
  <2>2. ASSUME NEW c, Says(store.rows, p, c) PROVE Holds(store.disk, p, c)
    <3>1. PICK w \in store.rows : w.path = p /\ Data(w) = c
      BY <2>2 DEF Says
    <3> QED
      BY <1>6, <3>1 DEF Holds
  <2> QED
    BY <2>1, <2>2 DEF Agree
<1>9. BlobsAgree
  BY <1>3, <1>7 DEF BlobsAgree
<1>10. \A v \in store.versions : Owned(v.path)
  <2>1. \A v \in store.versions : \E w \in store.rows : w.path = v.path /\ ~w.dir
    BY <1>1 DEF Files!HistoryAttached
  <2> QED
    BY <1>5, <2>1 DEF Owned
<1>11. FP!Numbered(store.versions)
  <2>1. IsFiniteSet(store.versions)
    BY <1>1, StartAssumption
  <2> QED
    BY <1>1, <1>2, <2>1, NumberedInit
<1> QED
  BY <1>2, <1>3, <1>8, <1>9, <1>10, <1>11 DEF Settled

\* With nobody at work, rows and disk, versions and blobs say the same.
LEMMA SettledWhenQuiet ==
  ASSUME Settled, Quiet
  PROVE  Files!DiskMatches /\ Files!HistoryAttached
<1>1. /\ IInv /\ Mirrors /\ BlobsAgree /\ FP!Numbered(store.versions)
      /\ Named /\ RefsUnique(store.versions)
      /\ \A v \in store.versions : Owned(v.path)
      /\ \A r \in Requests : ~InFlight(r)
  BY DEF Settled, Calm, MarksIInv, Quiet
<1>2. \A p \in Path : p = Root \/ p[1] # VERSIONS => Agree(p)
  BY <1>1 DEF Mirrors, Pends, At
<1>3. \A v : FP!BlobOf(v) = [path |-> Blob(v.ref), data |-> v.sum]
  BY SameDisk DEF FP!BlobOf
<1>4. \A ref : Files!Blob(ref) = Blob(ref)
  BY DEF Files!Blob, Blob
<1>5. \A v \in store.versions : v.ref \in Refs /\ v.path \in Path
  BY <1>1, SameTypes DEF IInv, FP!StoreInv, FP!VersionsInv, VersionType
<1>6. \A w \in store.rows : w.path \in Path /\ w.path # Root /\ w.path[1] # VERSIONS
                            /\ w.dir \in BOOLEAN
  BY <1>1, Readable DEF Named, RowNamed
<1>7. Files!DiskMatches
  <2> DEFINE A == {e \in store.disk : e.path[1] # VERSIONS}
             B == {[path |-> w.path, data |-> IF w.dir THEN DIR ELSE w.sum] : w \in store.rows}
  <2>1. ASSUME NEW e \in A PROVE e \in B
    <3>1. e \in store.disk /\ e.path[1] # VERSIONS /\ e.path \in Path
          /\ Holds(store.disk, e.path, e.data) /\ e = [path |-> e.path, data |-> e.data]
      BY <1>1, Readable
    <3>2. Says(store.rows, e.path, e.data)
      BY <1>2, <3>1 DEF Agree
    <3> QED
      BY <3>1, <3>2 DEF Says, Data
  <2>2. ASSUME NEW w \in store.rows
        PROVE  [path |-> w.path, data |-> IF w.dir THEN DIR ELSE w.sum] \in A
    <3>1. Says(store.rows, w.path, Data(w))
      BY DEF Says
    <3>2. Holds(store.disk, w.path, Data(w))
      BY <1>2, <1>6, <3>1 DEF Agree
    <3> QED
      BY <1>6, <3>2 DEF Holds, Data
  <2> QED
    BY <2>1, <2>2 DEF Files!DiskMatches
<1>8. {e \in store.disk : e.path[1] = VERSIONS}
        = {[path |-> Files!Blob(v.ref), data |-> v.sum] : v \in store.versions}
  <2>1. ASSUME NEW e \in store.disk, e.path[1] = VERSIONS
        PROVE  \E v \in store.versions : e = FP!BlobOf(v)
    <3>1. e.path # Root
      <4>1. \A c : ~Says(store.rows, Root, c) /\ Root \in Path
        BY <1>6 DEF Says, Root, Path
      <4>2. ~Holds(store.disk, Root, e.data)
        BY <1>2, <4>1 DEF Agree
      <4>3. Holds(store.disk, e.path, e.data)
        BY <1>1, Readable
      <4> QED
        BY <4>2, <4>3
    <3>2. \A r \in Requests : ~Forgets(r, e)
      BY <1>1 DEF Forgets, At
    <3> QED
      BY <1>1, <2>1, <3>1, <3>2 DEF BlobsAgree
  <2>2. ASSUME NEW v \in store.versions
        PROVE  FP!BlobOf(v) \in store.disk /\ FP!BlobOf(v).path[1] = VERSIONS
    BY <1>1, <1>3, <1>5, Blobs DEF BlobsAgree
  <2> QED
    BY <1>3, <1>4, <2>1, <2>2
<1>9. \A v \in store.versions :
        /\ \E w \in store.rows : w.path = v.path /\ ~w.dir
        /\ {w.no : w \in Files!VersionsAt(store, v.path)}
             = 1 .. Files!Cardinality(Files!VersionsAt(store, v.path))
  <2> SUFFICES ASSUME NEW v \in store.versions
               PROVE  /\ \E w \in store.rows : w.path = v.path /\ ~w.dir
                      /\ {w.no : w \in Files!VersionsAt(store, v.path)}
                           = 1 .. Files!Cardinality(Files!VersionsAt(store, v.path))
    OBVIOUS
  <2>1. \E w \in store.rows : w.path = v.path /\ ~w.dir
    BY <1>1 DEF Owned, Rowless
  <2>2. {w.no : w \in FP!VersionsAt(store, v.path)}
          = 1 .. FP!Cardinality(FP!VersionsAt(store, v.path))
    BY <1>1, Assumed, FP!NumbersCount DEF IInv
  <2>3. FP!VersionsAt(store, v.path) = Files!VersionsAt(store, v.path)
    BY DEF FP!VersionsAt, Files!VersionsAt
  <2>4. \A S : FP!Cardinality(S) = Files!Cardinality(S)
    BY DEF FP!Cardinality, Files!Cardinality
  <2> QED
    BY <2>1, <2>2, <2>3, <2>4
<1>10. Files!Cardinality({v.ref : v \in store.versions}) = Files!Cardinality(store.versions)
  <2> DEFINE T == {v.ref : v \in store.versions}
             f == [v \in store.versions |-> v.ref]
  <2>1. f \in Surjection(store.versions, T) /\ f \in Injection(store.versions, T)
    BY <1>1 DEF Surjection, Injection, IsInjective, RefsUnique
  <2>2. IsFiniteSet(store.versions)
    <3>1. FP!IsFiniteSet(store.versions)
      BY <1>1 DEF IInv, FP!StoreInv, FP!VersionsInv
    <3> QED
      BY <3>1 DEF IsFiniteSet, FP!IsFiniteSet
  <2>3. Cardinality(T) = Cardinality(store.versions)
    BY <2>1, <2>2, FS_Surjection
  <2>4. \A S : Files!Cardinality(S) = Cardinality(S)
    BY DEF Cardinality, Files!Cardinality
  <2> QED
    BY <2>3, <2>4
<1> QED
  BY <1>7, <1>8, <1>9, <1>10 DEF Files!HistoryAttached

\* As long as nobody crossed anybody and nothing was lost, the store is settled.
SettledIInv == BytesIInv /\ (~overlap /\ ~faults => Settled)

\* Every step keeps it.
LEMMA SettledNext ==
  ASSUME LikeIsExact, OnlyUserPaths, SettledIInv, [Next]_vars
  PROVE  SettledIInv'
<1>1. BytesIInv' /\ IInv
  BY BytesSame, BytesStep, BytesBegin, BytesCrash
     DEF Next, SettledIInv, BytesIInv, QuietIInv, MarksIInv
<1>2. SUFFICES ASSUME ~overlap', ~faults'
               PROVE  Settled'
  BY <1>1 DEF SettledIInv
<1>3. Calm'
  BY <1>1, <1>2 DEF BytesIInv, QuietIInv, Calm
<1>4. CASE UNCHANGED vars
  <2>1. Settled
    BY <1>2, <1>4 DEF vars, SettledIInv
  <2>2. store' = store /\ req' = req
    BY <1>4 DEF vars
  <2>3. \A r \in Requests : (InFlight(r)' <=> InFlight(r)) /\ (Rowless(r)' <=> Rowless(r))
    BY <2>2 DEF InFlight, Rowless
  <2>8. \A r \in Requests : \A label : At(r, label)' <=> At(r, label)
    BY <2>2 DEF InFlight, At
  <2>9. \A r \in Requests : \A p : Pends(r, p)' <=> Pends(r, p)
    BY <2>2, <2>8 DEF Pends, Part
  <2>4. Mirrors' /\ FP!Numbered(store'.versions)
    BY <2>1, <2>2, <2>9 DEF Settled, Mirrors, Agree
  <2>5. BlobsAgree'
    BY <2>1, <2>2, <2>3, <2>8 DEF Settled, BlobsAgree, CopyMade, Forgets
  <2>6. \A v \in store'.versions : Owned(v.path)'
    BY <2>1, <2>2, <2>3 DEF Settled, Owned
  <2>7. ASSUME NEW r \in Requests, InFlight(r)' PROVE Owes(r)' /\ Recalls(r)'
    <3>1. Owes(r) /\ Recalls(r)
      BY <2>1, <2>3, <2>7 DEF Settled
    <3>2. Owes(r)'
      BY <2>2, <2>3, <2>8, <3>1 DEF Owes, Part, NewData, Moving
    <3>3. Recalls(r)'
      BY <2>2, <2>3, <2>8, <3>1 DEF Recalls
    <3> QED
      BY <3>2, <3>3
  <2> QED
    BY <1>3, <2>4, <2>5, <2>6, <2>7 DEF Settled
<1>5. ASSUME NEW r \in Requests, Step(r)
      PROVE  Settled'
  <2>1. Settled
    BY <1>1, <1>2, <1>5, HistoryStep DEF SettledIInv
  <2> QED
    BY <1>2, <1>3, <1>5, <2>1, SettledStep
<1>6. ASSUME NEW r \in Requests, NEW in \in Inputs, Begin(r, in)
      PROVE  Settled'
  <2>1. ~overlap /\ ~faults
    <3>1. overlap \in BOOLEAN /\ overlap' \in BOOLEAN /\ faults' = faults
      BY <1>1, <1>6, BeginRequests DEF IInv
    <3>2. overlap => overlap'
      BY <1>6, <3>1 DEF Begin
    <3> QED
      BY <1>2, <3>1, <3>2
  <2>2. Settled
    BY <2>1 DEF SettledIInv
  <2> QED
    BY <1>3, <1>6, <2>2, SettledBegin
<1>7. ~Crash
  BY <1>2 DEF Crash
<1> QED
  BY <1>4, <1>5, <1>6, <1>7 DEF Next

(* SettlesConsistently in every reachable state, for any number of         *)
(* requests: when no handler is at work, none overlapped another's paths   *)
(* and no step was cut short, every row has its bytes and every entry its  *)
(* row, every version has its file and its blob, and the numbers of a      *)
(* path run 1 to n.                                                        *)
THEOREM AlwaysSettlesConsistently ==
  ASSUME LikeIsExact, OnlyUserPaths
  PROVE  Spec => []SettlesConsistently
<1>1. Init => SettledIInv
  BY BytesInit, SettledInit DEF SettledIInv
<1>2. SettledIInv /\ [Next]_vars => SettledIInv'
  BY SettledNext
<1>3. SettledIInv => SettlesConsistently
  BY SettledWhenQuiet DEF SettledIInv, SettlesConsistently
<1> QED
  BY <1>1, <1>2, <1>3, PTL DEF Spec

----------------------------------------------------------------------------
(* AnswersAreTrue.  What a handler about to answer with a success relies   *)
(* on beyond Settled: a commit has its new place outside of its old one;   *)
(* what is read back is the version's row, or nothing is left at the old   *)
(* place; a purge has removed the blobs of the versions it read.  A step   *)
(* of another handler makes none of it untrue: its zone is another, and a  *)
(* blob it writes has a name no version ever had.                          *)

Tells(r) ==
  LET x == req[r]
  IN  /\ At(r, "commit") => ~FP!AtOrBelow(x.path, x.dest) /\ ~FP!AtOrBelow(x.dest, x.path)
      /\ At(r, "read_back") /\ x.op = "version" =>
           \A c : Says(store.rows, x.path, c) <=> \E v \in x.found : c = v.sum
      /\ At(r, "read_back") /\ x.op # "version" =>
           \A q \in Path : \A c : FP!AtOrBelow(x.path, q) => ~Says(store.rows, q, c)
      /\ x.op = "purge" /\ x.pc >= 5 => \A v \in x.found : ~BlobOn(store.disk, v.ref)

\* A blob is there when its place holds bytes.
LEMMA BlobHeld ==
  ASSUME NEW d \in SUBSET EntryType, NEW ref
  PROVE  BlobOn(d, ref) <=> \E c : c # DIR /\ Holds(d, Blob(ref), c)
<1>1. ASSUME BlobOn(d, ref) PROVE \E c : c # DIR /\ Holds(d, Blob(ref), c)
  <2>1. PICK e \in d : e.path = Blob(ref) /\ e.data # DIR
    BY <1>1 DEF BlobOn, FileOn
  <2>2. e = [path |-> e.path, data |-> e.data]
    BY DEF EntryType
  <2> QED
    BY <2>1, <2>2 DEF Holds
<1>2. ASSUME NEW c, c # DIR, Holds(d, Blob(ref), c) PROVE BlobOn(d, ref)
  <2> DEFINE e == [path |-> Blob(ref), data |-> c]
  <2>1. e \in d /\ e.path = Blob(ref) /\ e.data = c
    BY <1>2 DEF Holds
  <2> HIDE DEF e
  <2> QED
    BY <1>2, <2>1 DEF BlobOn, FileOn
<1> QED
  BY <1>1, <1>2

\* The step of another handler makes none of it untrue.
LEMMA TellsStays ==
  ASSUME LikeIsExact, Settled, NEW r \in Requests, Step(r), ~faults',
         NEW o \in Requests \ {r}, InFlight(o), Tells(o)
  PROVE  Tells(o)'
<1> DEFINE p == req[o].path
           z == req[o].dest
<1>1. /\ Calm /\ IInv /\ RequestsInv /\ InFlight(r) /\ DrawsInv
      /\ store.disk \in SUBSET EntryType /\ store'.disk \in SUBSET EntryType
  <2>1. Calm /\ IInv /\ RequestsInv /\ InFlight(r) /\ DrawsInv
    BY StepLabel DEF Settled, Calm, MarksIInv, IInv
  <2>2. IInv'
    BY <2>1, StepStep
  <2>3. store.disk \in SUBSET EntryType
    BY <2>1, DiskType DEF IInv
  <2>4. store'.disk \in SUBSET EntryType
    <3>1. \A d : FP!DiskInv(d) <=> d \subseteq EntryType
      BY <2>1, DiskType DEF IInv
    <3>2. FP!DiskInv(store'.disk)
      BY <2>2 DEF IInv, FP!StoreInv
    <3> QED
      BY <3>1, <3>2
  <2> QED
    BY <2>1, <2>3, <2>4
<1>2. req'[o] = req[o] /\ \A label : At(o, label)' <=> At(o, label)
  BY <1>1, Bystander
<1>3. ASSUME NEW q \in Path, FP!AtOrBelow(p, q), NEW c
      PROVE  Says(store'.rows, q, c) <=> Says(store.rows, q, c)
  <2>1. Zone(o, q)
    BY <1>3 DEF Zone
  <2>2. ~Zone(r, q)
    BY <1>1, <2>1, ZonesApart
  <2>3. q # Root /\ q[1] # VERSIONS
    BY <1>1, <2>1, ZonePlace
  <2> QED
    BY <2>2, <2>3, Outside
<1>4. ASSUME NEW v \in req[o].found, ~BlobOn(store.disk, v.ref)
      PROVE  ~BlobOn(store'.disk, v.ref)
  <2> DEFINE q == Blob(v.ref)
  <2>1. v.ref \in Refs
    BY <1>1 DEF RequestsInv, RequestType, VersionType
  <2>2. q \in Path /\ q # Root /\ q[1] = VERSIONS
    BY <2>1, BlobType DEF Blob, Root
  <2>3. ~Zone(r, q)
    BY <1>1, <2>2, ZonePlace
  <2>4. ~At(r, "copy_blob") \/ q # Blob(r)
    <3> SUFFICES ASSUME At(r, "copy_blob"), q = Blob(r) PROVE FALSE
      OBVIOUS
    <3>1. v.ref = r
      BY DEF Blob
    <3>2. Spent(req[r])
      BY <1>1, <3>1 DEF DrawsInv
    <3> DEFINE op == req[r].op
               pc == req[r].pc
    <3>3. op \in Ops /\ pc \in 1 .. Len(Plan(op)) /\ Plan(op)[pc] = "copy_blob"
      BY <1>1 DEF RequestsInv, Knows, At
    <3>4. PastInsert(op, pc)
      BY <3>2 DEF Spent
    <3> HIDE DEF op, pc
    <3>5. \/ op = "save" /\ pc = 3
          \/ op \in {"upload", "chunked", "version"} /\ pc = 4
      BY <3>3, Positions
    <3> QED
      BY <3>4, <3>5 DEF PastInsert
  <2>5. ASSUME NEW c, Holds(store'.disk, q, c) PROVE Holds(store.disk, q, c)
    <3>1. CASE At(r, "copy_blob") \/ At(r, "remove_blobs")
      BY <1>1, <2>2, <2>4, <2>5, <3>1, BlobForms
    <3>2. CASE ~At(r, "copy_blob") /\ ~At(r, "remove_blobs")
      BY <2>2, <2>3, <2>5, <3>2, Outside
    <3> QED
      BY <3>1, <3>2
  <2> QED
    BY <1>1, <1>4, <2>5, BlobHeld
<1>5. At(o, "commit")' => ~FP!AtOrBelow(req'[o].path, req'[o].dest) /\ ~FP!AtOrBelow(req'[o].dest, req'[o].path)
  BY <1>2 DEF Tells
<1>6. (At(o, "read_back") /\ req[o].op = "version")' =>
        \A c : Says(store'.rows, req'[o].path, c) <=> \E v \in req'[o].found : c = v.sum
  <2>1. p \in Path /\ FP!AtOrBelow(p, p)
    BY <1>1, RequestPaths, SamePaths DEF FP!AtOrBelow
  <2>2. \A c : Says(store'.rows, p, c) <=> Says(store.rows, p, c)
    BY <1>3, <2>1
  <2> QED
    BY <1>2, <2>2 DEF Tells
<1>7. (At(o, "read_back") /\ req[o].op # "version")' =>
        \A q \in Path : \A c : FP!AtOrBelow(req'[o].path, q) => ~Says(store'.rows, q, c)
  BY <1>2, <1>3 DEF Tells
<1>8. (req[o].op = "purge" /\ req[o].pc >= 5)' => \A v \in req'[o].found : ~BlobOn(store'.disk, v.ref)
  BY <1>2, <1>4 DEF Tells
<1> QED
  BY <1>5, <1>6, <1>7, <1>8 DEF Tells

\* A commit takes everything away from the old place.
LEMMA CommitClears ==
  ASSUME LikeIsExact, Settled, NEW r \in Requests, Step(r), At(r, "commit"), Tells(r),
         NEW q \in Path, FP!AtOrBelow(req[r].path, q), NEW c
  PROVE  ~Says(store'.rows, q, c)
<1> DEFINE x == req[r]
           p == x.path
           z == x.dest
<1>1. /\ Calm /\ IInv /\ RequestsInv /\ InFlight(r) /\ HasSource(store.rows, x)
      /\ MarksInv(store.rows) /\ FP!TreeInv(store.rows)
      /\ x.op \in Ops /\ x.pc \in 1 .. Len(Plan(x.op))
  BY StepLabel DEF Settled, Calm, MarksIInv, IInv, Situated, RequestsInv, Knows
<1>2. /\ p \in Path /\ z \in Path /\ x.dir \in BOOLEAN
      /\ ~FP!AtOrBelow(p, z) /\ ~FP!AtOrBelow(z, p)
  BY <1>1, RequestPaths DEF Tells
<1>3. Committing(x.op, x.pc)
  <2> DEFINE op == x.op
             pc == x.pc
  <2>1. op \in Ops /\ pc \in 1 .. Len(Plan(op)) /\ Plan(op)[pc] = "commit"
    BY <1>1 DEF At
  <2> HIDE DEF op, pc
  <2>2. Committing(op, pc)
    BY <2>1, Positions DEF Committing
  <2> QED
    BY <2>2 DEF op, pc
<1>4. PICK g \in store.rows : g.path = p /\ g.dir = x.dir
  BY <1>1, <1>3 DEF HasSource, MovesLive, MovesBack, Committing
<1>5. x.dir = FALSE => \A u \in Path : \A b : Below(p, u) => ~Says(store.rows, u, b)
  <2>1. \A w \in store.rows : x.dir = FALSE => ~Below(g.path, w.path)
    BY <1>1, <1>4, FilesAreLeaves
  <2> QED
    BY <1>4, <2>1 DEF Says
<1>6. SUFFICES ASSUME NEW u \in Path, Moving(r, u) = q, Says(store.rows, u, c)
               PROVE  FALSE
  BY <1>1, CommitSays
<1>7. \A s : FP!AtOrBelow(p, s) <=> s = p \/ Below(p, s)
  BY SamePaths DEF FP!AtOrBelow
<1>8. q = MovedPath(p, z, x.dir, u)
  BY <1>6 DEF Moving
<1>9. FP!AtOrBelow(p, q)
  OBVIOUS
<1>10. x.dir = FALSE => ~Below(p, u)
  BY <1>5, <1>6
<1> HIDE DEF p, z
<1>11. CASE FP!AtOrBelow(p, u)
  <2>1. q = Rebase(p, z, u)
    BY <1>2, <1>7, <1>8, <1>10, <1>11, TakenPath
  <2>2. FP!AtOrBelow(z, q)
    BY <1>2, <2>1, RebasedAt
  <2> QED
    BY <1>2, <1>9, <2>2, PathOrder
<1>12. CASE ~FP!AtOrBelow(p, u)
  <2>1. u # p /\ ~Below(p, u)
    BY <1>7, <1>12
  <2>2. q = u
    BY <1>2, <1>8, <2>1, MovedAt
  <2> QED
    BY <1>9, <1>12, <2>2
<1> QED
  BY <1>11, <1>12

\* The step before the answer leaves it to be told.
LEMMA TellsOwn ==
  ASSUME LikeIsExact, Settled, NEW r \in Requests, Step(r), ~faults', InFlight(r)', Tells(r)
  PROVE  Tells(r)'
<1> DEFINE x == req[r]
           y == req'[r]
           p == x.path
           z == x.dest
<1>1. /\ Calm /\ IInv /\ RequestsInv /\ SidesInv /\ InFlight(r) /\ store.disk \in SUBSET EntryType
  BY StepLabel, DiskType DEF Settled, Calm, MarksIInv, IInv
<1>2. PICK n \in {1, 3, 4, 7} :
        /\ n # 1 => x.op \in {"upload", "chunked", "save", "version"}
        /\ y.op = x.op /\ y.path = p /\ y.pc = x.pc + n
        /\ x.pc # 1 \/ x.op # "restore" => y.dest = z
        /\ x.pc > 2 => y.found = x.found
        /\ x.op \in Ops /\ x.pc \in 1 .. Len(Plan(x.op))
  BY <1>1, OwnFields
<1>3. y.status # "failed"
  BY DEF InFlight
<1>4. At(r, "commit")' => ~FP!AtOrBelow(y.path, y.dest) /\ ~FP!AtOrBelow(y.dest, y.path)
  <2> SUFFICES ASSUME At(r, "commit")'
               PROVE  ~FP!AtOrBelow(y.path, y.dest) /\ ~FP!AtOrBelow(y.dest, y.path)
    OBVIOUS
  <2>1. At(r, "rename_on_disk") /\ x.pc # 1
    BY <1>1, CameFrom
  <2>2. ~RelocateFails(store, p, z, x.dir)
    BY <1>1, <1>3, <2>1, Outcome DEF Did
  <2>3. ~FP!AtOrBelow(p, z) /\ ~FP!AtOrBelow(z, p)
    BY <1>1, <2>1, <2>2, MovesAway
  <2> QED
    BY <1>2, <2>1, <2>3
<1>5. At(r, "read_back")' => /\ IF x.op = "version" THEN At(r, "update_checksum") ELSE At(r, "commit")
                             /\ x.pc > 2
  <2> SUFFICES ASSUME At(r, "read_back")'
               PROVE  /\ IF x.op = "version" THEN At(r, "update_checksum") ELSE At(r, "commit")
                      /\ x.pc > 2
    OBVIOUS
  <2> DEFINE op == x.op
             pc == x.pc
             m == y.pc
  <2>1. RequestsInv'
    BY <1>1, StepStep DEF IInv
  <2>2. op \in Ops /\ m \in 1 .. Len(Plan(op)) /\ Plan(op)[m] = "read_back" /\ pc \in 1 .. Len(Plan(op))
    BY <1>2, <2>1 DEF RequestsInv, At
  <2>3. /\ n = 7 => Plan(op)[pc] = "find_existing"
        /\ n = 4 => Plan(op)[pc] = "read_current"
        /\ n = 3 => Plan(op)[pc] = "copy_blob"
        /\ m = pc + n /\ pc \in Nat
    <3>1. PICK k \in {1, 3, 4, 7} : Skips(r, k) /\ y.pc = x.pc + k
      BY <1>1, <1>3, StepFields
    <3>2. x.pc \in Nat
      BY <1>1 DEF RequestsInv, RequestType
    <3>3. k = n
      BY <1>2, <3>1, <3>2
    <3> QED
      BY <1>2, <3>1, <3>2, <3>3 DEF Skips, At
  <2>4. \A label : Plan(op)[pc] = label => At(r, label)
    BY <1>1 DEF At
  <2>7. n # 1 => op \in {"upload", "chunked", "save", "version"}
    BY <1>2
  <2> HIDE DEF op, pc, m
  <2>5. \/ op = "rename" /\ m = 5
        \/ op \in {"move", "restore"} /\ m = 6
        \/ op = "version" /\ m = 9
    BY <2>2, Positions
  <2>8. /\ n = 7 => op \in {"upload", "chunked"} /\ pc = 2
        /\ n = 4 => pc \in 2 .. 3
        /\ n = 3 => pc \in 3 .. 4
    BY <2>2, <2>3, Positions
  <2>6. \/ op = "rename" /\ pc = 4
        \/ op \in {"move", "restore"} /\ pc = 5
        \/ op = "version" /\ pc = 8
    BY <2>3, <2>5, <2>7, <2>8
  <2>9. IF op = "version" THEN Plan(op)[pc] = "update_checksum" ELSE Plan(op)[pc] = "commit"
    BY <2>2, <2>6, Positions
  <2> QED
    BY <2>4, <2>6, <2>9 DEF op, pc
<1>6. (At(r, "read_back") /\ req[r].op = "version")' =>
        \A c : Says(store'.rows, y.path, c) <=> \E v \in y.found : c = v.sum
  <2> SUFFICES ASSUME At(r, "read_back")', y.op = "version", NEW c
               PROVE  Says(store'.rows, y.path, c) <=> \E v \in y.found : c = v.sum
    OBVIOUS
  <2>1. At(r, "update_checksum") /\ y.found = x.found
    BY <1>2, <1>5
  <2>2. p \in Path
    BY <1>1, RequestPaths
  <2>3. Says(store'.rows, p, c) <=> IF p = p THEN \E v \in x.found : c = v.sum ELSE Says(store.rows, p, c)
    BY <2>1, <2>2, RowForms
  <2> QED
    BY <1>2, <2>1, <2>3
<1>7. (At(r, "read_back") /\ req[r].op # "version")' =>
        \A q \in Path : \A c : FP!AtOrBelow(y.path, q) => ~Says(store'.rows, q, c)
  BY <1>2, <1>5, CommitClears
<1>8. (req[r].op = "purge" /\ req[r].pc >= 5)' => \A v \in y.found : ~BlobOn(store'.disk, v.ref)
  <2> SUFFICES ASSUME y.op = "purge", y.pc >= 5, NEW v \in y.found
               PROVE  ~BlobOn(store'.disk, v.ref)
    OBVIOUS
  <2>1. x.op = "purge" /\ x.pc \in Nat /\ y.pc = x.pc + 1 /\ x.pc >= 4 /\ y.found = x.found
    <3>1. x.op = "purge" /\ x.pc \in Nat /\ n = 1
      BY <1>1, <1>2 DEF RequestsInv, RequestType
    <3> QED
      BY <1>2, <3>1
  <2>2. x.pc \in 4 .. 5
    <3>1. RequestsInv'
      BY <1>1, StepStep DEF IInv
    <3>2. y.pc \in 1 .. Len(Plan("purge"))
      BY <3>1 DEF RequestsInv
    <3>3. Len(Plan("purge")) = 6
      BY <1>2, <2>1, Positions
    <3>4. y.pc \in 1 .. 6
      BY <3>2, <3>3
    <3> QED
      BY <2>1, <3>4
  <2>3. Plan("purge")[4] = "remove_blobs" /\ Plan("purge")[5] = "delete_row"
    BY DEF Plan, PurgePlan
  <2>4. CASE x.pc = 4
    <3>1. At(r, "remove_blobs")
      BY <1>1, <2>1, <2>3, <2>4 DEF At
    <3>2. v.ref \in Refs
      BY <1>1, <2>1 DEF RequestsInv, RequestType, VersionType
    <3>3. \A c : ~Holds(store'.disk, Blob(v.ref), c)
      BY <1>1, <2>1, <3>1, <3>2, BlobType, BlobForms
    <3>4. store'.disk \in SUBSET EntryType
      <4>1. IInv'
        BY <1>1, StepStep
      <4>2. \A d : FP!DiskInv(d) <=> d \subseteq EntryType
        BY <1>1, DiskType DEF IInv
      <4> QED
        BY <4>1, <4>2 DEF IInv, FP!StoreInv
    <3> QED
      BY <3>3, <3>4, BlobHeld
  <2>5. CASE x.pc = 5
    <3>1. At(r, "delete_row")
      BY <1>1, <2>1, <2>3, <2>5 DEF At
    <3>2. store'.disk = store.disk
      BY <1>1, <3>1, DiskSteady DEF Shapers, Touchers
    <3> QED
      BY <2>1, <2>5, <3>2 DEF Tells
  <2> QED
    BY <2>2, <2>4, <2>5
<1> QED
  BY <1>4, <1>6, <1>7, <1>8 DEF Tells

\* Where a handler stands when it answers.
LEMMA LastStep ==
  ASSUME IInv, NEW r \in Requests, Step(r), req'[r].status = "ok"
  PROVE  LET x == req[r]
         IN  /\ x.op \in {"upload", "chunked"} => At(r, "insert_row")
             /\ x.op = "save" => At(r, "write_bytes")
             /\ x.op = "folder" => At(r, "make_directory")
             /\ x.op \in {"rename", "move", "restore", "version"} => At(r, "read_back")
             /\ x.op = "delete" => At(r, "commit")
             /\ x.op = "purge" => At(r, "remove_tree")
             /\ x.op \in Ops /\ x.pc \in 1 .. Len(Plan(x.op)) /\ InFlight(r)
             /\ req'[r].op = x.op /\ req'[r].path = x.path /\ req'[r].dest = x.dest
             /\ x.op \in {"version", "purge"} => req'[r].found = x.found /\ x.pc > 2
<1> DEFINE x == req[r]
           y == req'[r]
           op == x.op
           pc == x.pc
           L == Plan(op)[pc]
<1>1. /\ op \in Ops /\ pc \in 1 .. Len(Plan(op)) /\ InFlight(r) /\ pc \in Nat
      /\ y.op = op /\ y.path = x.path
      /\ x \in RequestType /\ y \in RequestType
      /\ ~InFlight(r)' => y.dest = x.dest \/ (pc = 1 /\ op = "restore")
  BY StepFields
<1>2. PICK n \in {1, 3, 4, 7} : /\ Skips(r, n) /\ y.pc = pc + n /\ y.pc > Len(Plan(op))
                                /\ n # 1 => op \in {"upload", "chunked", "save", "version"}
  BY StepFields
<1>3. \A label : At(r, label) <=> L = label
  BY <1>1 DEF At
<1>4. /\ n = 7 => L = "find_existing"
      /\ n = 4 => L = "read_current"
      /\ n = 3 => L = "copy_blob"
  BY <1>2, <1>3 DEF Skips
<1>5. /\ op \in {"upload", "chunked"} => L = "insert_row"
      /\ op = "save" => L = "write_bytes"
      /\ op = "folder" => L = "make_directory"
      /\ op \in {"rename", "move", "restore", "version"} => L = "read_back"
      /\ op = "delete" => L = "commit"
      /\ op = "purge" => L = "remove_tree"
      /\ pc > 2
  <2>1. op \in Ops /\ pc \in 1 .. Len(Plan(op)) /\ pc \in Nat /\ n \in {1, 3, 4, 7}
    BY <1>1
  <2>2. n # 1 => op \in {"upload", "chunked", "save", "version"}
    BY <1>2
  <2>3. \A l : l = Len(Plan(op)) => pc \in 1 .. l /\ pc + n > l
    BY <1>1, <1>2
  <2>4. /\ n = 7 => L = "find_existing"
        /\ n = 4 => L = "read_current"
        /\ n = 3 => L = "copy_blob"
    BY <1>4
  <2> HIDE DEF op, pc
  <2>5. /\ n = 7 => pc = 2 /\ op \in {"upload", "chunked"}
        /\ n = 4 => pc < 4 /\ (op = "save" => pc < 3)
        /\ n = 3 => pc < 5 /\ (op = "save" => pc < 4)
    BY <2>1, <2>4, Positions
  <2>6. /\ op = "upload" => pc \in 1 .. 12 /\ pc + n > 12
        /\ op = "chunked" => pc \in 1 .. 10 /\ pc + n > 10
        /\ op = "save" => pc \in 1 .. 9 /\ pc + n > 9
        /\ op = "version" => pc \in 1 .. 9 /\ pc + n > 9
        /\ op = "folder" => pc \in 1 .. 4 /\ pc + n > 4
        /\ op = "rename" => pc \in 1 .. 5 /\ pc + n > 5
        /\ op \in {"move", "restore", "purge"} => pc \in 1 .. 6 /\ pc + n > 6
        /\ op = "delete" => pc \in 1 .. 3 /\ pc + n > 3
    <3>1. /\ op = "upload" => Len(Plan(op)) = 12
          /\ op = "chunked" => Len(Plan(op)) = 10
          /\ op = "save" \/ op = "version" => Len(Plan(op)) = 9
          /\ op = "folder" => Len(Plan(op)) = 4
          /\ op = "rename" => Len(Plan(op)) = 5
          /\ op \in {"move", "restore", "purge"} => Len(Plan(op)) = 6
          /\ op = "delete" => Len(Plan(op)) = 3
      BY <2>1, Positions
    <3> QED
      BY <2>3, <3>1, Zenon
  <2>7. /\ op = "upload" => pc = 12
        /\ op = "chunked" => pc = 10
        /\ op \in {"save", "version"} => pc = 9
        /\ op = "folder" => pc = 4
        /\ op = "rename" => pc = 5
        /\ op \in {"move", "restore", "purge"} => pc = 6
        /\ op = "delete" => pc = 3
    BY <2>1, <2>2, <2>5, <2>6
  <2>8. pc > 2
    BY <2>1, <2>7 DEF Ops
  <2> QED
    BY <2>1, <2>7, <2>8, Positions
<1>6. y.dest = x.dest
  <2>1. ~InFlight(r)'
    BY DEF InFlight
  <2> QED
    BY <1>1, <1>5, <2>1
<1>7. op \in {"version", "purge"} => y.found = x.found
  <2>1. Moved(r)
    BY RequestsStep DEF IInv
  <2> DEFINE z == [y EXCEPT !.pc = pc]
  <2>2. Keeps(x, z)
    BY <2>1, Zenon DEF Moved
  <2>3. z.found = y.found
    BY <1>1 DEF RequestType
  <2> HIDE DEF z
  <2> QED
    BY <1>5, <2>2, <2>3 DEF Keeps
<1> QED
  BY <1>1, <1>3, <1>5, <1>6, <1>7

\* An upload or a save: the row and the bytes are the client's.
LEMMA WriterAnswers ==
  ASSUME LikeIsExact, Settled, NEW r \in Requests, Step(r), ~faults',
         req'[r].status = "ok", req[r].op \in Writers
  PROVE  LET p == req[r].path
         IN  /\ \E w \in store'.rows : w.path = p /\ ~w.deleted /\ w.sum = r
             /\ [path |-> p, data |-> r] \in store'.disk
<1> DEFINE p == req[r].path
<1>1. /\ Calm /\ IInv /\ InFlight(r) /\ Owes(r) /\ Did(r)
      /\ MarksInv(store.rows) /\ FP!TreeInv(store.rows)
  BY StepLabel, Outcome DEF Settled, Calm, MarksIInv, IInv
<1>2. p \in Path /\ p[1] # TRASH /\ r # DIR
  <2>1. req[r].op \in {"upload", "chunked", "save", "folder", "version"}
    BY DEF Writers
  <2> QED
    BY <1>1, <2>1, OwnPlace
<1>3. CASE req[r].op # "save"
  <2>1. At(r, "insert_row")
    BY <1>1, <1>3, LastStep DEF Writers
  <2>2. NewRow(p, FALSE, r, req[r].node) \in store'.rows /\ store'.disk = store.disk
    BY <1>1, <2>1 DEF Did
  <2>3. /\ NewRow(p, FALSE, r, req[r].node).path = p
        /\ NewRow(p, FALSE, r, req[r].node).deleted = FALSE
        /\ NewRow(p, FALSE, r, req[r].node).sum = r
    BY DEF NewRow
  <2>4. Holds(store.disk, p, r)
    BY <1>1, <2>1 DEF Owes
  <2> QED
    BY <2>2, <2>3, <2>4 DEF Holds
<1>4. CASE req[r].op = "save"
  <2>1. At(r, "write_bytes")
    BY <1>1, <1>4, LastStep
  <2>2. Says(store.rows, p, r) /\ store'.rows = store.rows
    BY <1>1, <1>4, <2>1, TablesSteady DEF Owes, NewData
  <2>3. PICK w \in store.rows : w.path = p /\ Data(w) = r
    BY <2>2 DEF Says
  <2>4. w.sum = r
    BY <1>1, <1>2, <2>3, Readable
  <2>5. ~w.deleted
    BY <1>1, <1>2, <2>3, RowsPlaced, ZenonT(40)
  <2>6. Holds(store'.disk, p, r)
    BY <1>1, <1>2, <2>1, TouchForms DEF Touchers
  <2> QED
    BY <2>2, <2>3, <2>4, <2>5, <2>6 DEF Holds
<1> QED
  BY <1>3, <1>4

\* A new folder: the row and the directory.
LEMMA FolderAnswers ==
  ASSUME LikeIsExact, Settled, NEW r \in Requests, Step(r), ~faults',
         req'[r].status = "ok", req[r].op = "folder"
  PROVE  IsFolder(store', req[r].path) /\ IsDirOn(store'.disk, req[r].path)
<1> DEFINE p == req[r].path
<1>1. /\ Calm /\ IInv /\ InFlight(r) /\ Owes(r)
      /\ MarksInv(store.rows) /\ FP!TreeInv(store.rows) /\ At(r, "make_directory")
  BY StepLabel, LastStep DEF Settled, Calm, MarksIInv, IInv
<1>2. p \in Path /\ p[1] # TRASH
  BY <1>1, OwnPlace
<1>3. Says(store.rows, p, DIR) /\ store'.rows = store.rows
  BY <1>1, TablesSteady DEF Owes, NewData
<1>4. PICK w \in store.rows : w.path = p /\ Data(w) = DIR
  BY <1>3 DEF Says
<1>5. w.dir
  BY <1>1, <1>4, Readable
<1>6. ~w.deleted
  BY <1>1, <1>2, <1>4, RowsPlaced
<1>7. \A b : Holds(store'.disk, p, b) <=> b = DIR
  BY <1>1, <1>2, TouchForms DEF Touchers
<1>8. IsDirOn(store'.disk, p)
  <2>1. OnDisk(store'.disk, p)
    <3>1. Holds(store'.disk, p, DIR)
      BY <1>7
    <3>2. [path |-> p, data |-> DIR] \in store'.disk
      BY <3>1 DEF Holds
    <3> QED
      BY <3>2 DEF OnDisk
  <2>2. ASSUME NEW e \in store'.disk, e.path = p PROVE e.data = DIR
    <3>1. store'.disk \subseteq EntryType
      <4>1. IInv'
        BY <1>1, StepStep
      <4>2. \A d : FP!DiskInv(d) <=> d \subseteq EntryType
        BY <1>1, DiskType DEF IInv
      <4> QED
        BY <4>1, <4>2 DEF IInv, FP!StoreInv
    <3>2. e = [path |-> p, data |-> e.data]
      BY <2>2, <3>1 DEF EntryType
    <3> QED
      BY <1>7, <3>2 DEF Holds
  <2> QED
    BY <2>1, <2>2 DEF IsDirOn, FileOn
<1> QED
  BY <1>3, <1>4, <1>5, <1>6, <1>8 DEF IsFolder

\* A purge: no row, no bytes, no blob of the versions it read.
LEMMA PurgeAnswers ==
  ASSUME LikeIsExact, Settled, NEW r \in Requests, Step(r), ~faults', Tells(r),
         req'[r].status = "ok", req[r].op = "purge"
  PROVE  LET p == req[r].path
         IN  /\ RowsAt(store', p) = {}
             /\ \A e \in store'.disk : ~Covers(p, e.path)
             /\ \A v \in req[r].found : FileOn(store'.disk, Blob(v.ref)) = {}
<1> DEFINE p == req[r].path
<1>1. /\ Calm /\ IInv /\ RequestsInv /\ InFlight(r) /\ Owes(r) /\ At(r, "remove_tree")
      /\ store.disk \in SUBSET EntryType
  BY StepLabel, LastStep, DiskType DEF Settled, Calm, MarksIInv, IInv
<1>2. p \in Path /\ FP!AtOrBelow(p, p)
  BY <1>1, RequestPaths, SamePaths DEF FP!AtOrBelow
<1>3. store'.rows = store.rows
  BY <1>1, TablesSteady
<1>4. \A c : ~Says(store.rows, p, c)
  BY <1>1, <1>2 DEF Owes
<1>5. RowsAt(store', p) = {}
  BY <1>3, <1>4 DEF RowsAt, Says
<1>6. store'.disk \in SUBSET EntryType
  <2>1. IInv'
    BY <1>1, StepStep
  <2>2. \A d : FP!DiskInv(d) <=> d \subseteq EntryType
    BY <1>1, DiskType DEF IInv
  <2> QED
    BY <2>1, <2>2 DEF IInv, FP!StoreInv
<1>7. ASSUME NEW e \in store'.disk
      PROVE  e \in store.disk /\ e.path \in Path /\ ~FP!AtOrBelow(p, e.path)
  <2>1. e = [path |-> e.path, data |-> e.data] /\ e.path \in Path
    BY <1>6 DEF EntryType
  <2>2. Holds(store'.disk, e.path, e.data)
    BY <2>1 DEF Holds
  <2>3. Holds(store.disk, e.path, e.data) /\ ~FP!AtOrBelow(p, e.path)
    BY <1>1, <2>1, <2>2, RemoveTreeForm
  <2> QED
    BY <2>1, <2>3 DEF Holds
<1>8. ASSUME NEW e \in store'.disk PROVE ~Covers(p, e.path)
  <2>1. p \in FP!Path /\ e.path \in FP!Path
    BY <1>2, <1>7, SameTypes
  <2>2. LikeBelow(p, e.path) <=> Below(p, e.path)
    BY <2>1, Assumed, SamePaths, FP!ExactLikeBelow
  <2> QED
    BY <1>7, <2>2, SamePaths DEF Covers, FP!AtOrBelow
<1>9. req[r].pc >= 5
  <2> DEFINE op == req[r].op
             pc == req[r].pc
  <2>1. op \in Ops /\ pc \in 1 .. Len(Plan(op)) /\ Plan(op)[pc] = "remove_tree"
    BY <1>1 DEF RequestsInv, Knows, At
  <2> HIDE DEF op, pc
  <2>2. pc = 6
    BY <2>1, Positions
  <2> QED
    BY <2>2 DEF pc
<1>10. \A v \in req[r].found : FileOn(store.disk, Blob(v.ref)) = {}
  BY <1>9 DEF Tells, BlobOn
<1>11. \A v \in req[r].found : FileOn(store'.disk, Blob(v.ref)) = {}
  BY <1>7, <1>10 DEF FileOn
<1> QED
  BY <1>5, <1>8, <1>11

\* The answer that is read again is of what is there.
LEMMA ReadAgain ==
  ASSUME LikeIsExact, Settled, NEW r \in Requests, Step(r), ~faults', Tells(r),
         req'[r].status = "ok", At(r, "read_back")
  PROVE  /\ store' = store
         /\ \E w \in store.rows : w.path = req[r].dest /\ ~w.deleted
         /\ \A q \in Path : Zone(r, q) => Agree(q)
<1>1. /\ Calm /\ IInv /\ RequestsInv /\ InFlight(r) /\ ReadBack(r)
  BY StepLabel DEF Settled, Calm, MarksIInv, IInv
<1>2. ~Fails(r)
  BY <1>1, Failed DEF RequestsInv
<1>3. Live(store, req[r].dest) /\ store' = store
  BY <1>1, <1>2 DEF ReadBack, NoWrite
<1>4. ASSUME NEW q \in Path, Zone(r, q) PROVE Agree(q)
  <2>1. ~Pends(r, q)
    BY DEF Pends, At
  <2> QED
    BY <1>1, <1>4, <2>1, OwnAgree
<1> QED
  BY <1>3, <1>4 DEF Live

\* A version that was restored: the row and the bytes are its.
LEMMA VersionAnswers ==
  ASSUME LikeIsExact, Settled, NEW r \in Requests, Step(r), ~faults', Tells(r),
         req'[r].status = "ok", req[r].op = "version"
  PROVE  LET p == req[r].path
         IN  \E v \in req[r].found :
               /\ \E w \in store'.rows : w.path = p /\ ~w.deleted /\ w.sum = v.sum
               /\ [path |-> p, data |-> v.sum] \in store'.disk
<1> DEFINE p == req[r].path
<1>1. /\ Calm /\ IInv /\ RequestsInv /\ InFlight(r) /\ At(r, "read_back")
  BY StepLabel, LastStep DEF Settled, Calm, MarksIInv, IInv
<1>2. p \in Path /\ req[r].dest = p /\ Zone(r, p)
  BY <1>1, OwnPlace
<1>3. PICK w \in store.rows : w.path = p /\ ~w.deleted
  BY <1>1, <1>2, ReadAgain
<1>4. store' = store /\ Agree(p)
  BY <1>1, <1>2, ReadAgain
<1>5. Says(store.rows, p, Data(w))
  BY <1>3 DEF Says
<1>6. PICK v \in req[r].found : Data(w) = v.sum
  BY <1>1, <1>5 DEF Tells
<1>7. v.sum # DIR
  BY <1>1, StorageAssumption DEF RequestsInv, RequestType, VersionType
<1>8. w.sum = v.sum
  BY <1>1, <1>6, <1>7, Readable
<1>9. [path |-> p, data |-> v.sum] \in store.disk
  BY <1>4, <1>5, <1>6 DEF Agree, Holds
<1> QED
  BY <1>3, <1>4, <1>8, <1>9

\* Nothing is where no row is.
LEMMA NothingThere ==
  ASSUME IInv, NEW p \in Path, NEW d \in SUBSET EntryType,
         \A q \in Path : \A c : FP!AtOrBelow(p, q) => ~Holds(d, q, c)
  PROVE  ~OnDisk(d, p)
<1> SUFFICES ASSUME NEW e \in d, e.path = p \/ Below(p, e.path) PROVE FALSE
  BY DEF OnDisk
<1>1. e.path \in Path /\ Holds(d, e.path, e.data)
  BY DEF Holds, EntryType
<1> QED
  BY <1>1, SamePaths DEF FP!AtOrBelow

\* A rename, a move or a restore: the entry is at the new place, nothing at the old one.
LEMMA MoverAnswers ==
  ASSUME LikeIsExact, Settled, NEW r \in Requests, Step(r), ~faults', Tells(r),
         req'[r].status = "ok", req[r].op \in {"rename", "move", "restore"}
  PROVE  LET p == req[r].path
             z == req[r].dest
         IN  /\ RowsAt(store', p) = {} /\ RowsAt(store', z) # {}
             /\ OnDisk(store'.disk, z) /\ ~OnDisk(store'.disk, p)
<1> DEFINE p == req[r].path
           z == req[r].dest
<1>1. /\ Calm /\ IInv /\ RequestsInv /\ InFlight(r) /\ At(r, "read_back")
      /\ store.disk \in SUBSET EntryType
  BY StepLabel, LastStep, DiskType DEF Settled, Calm, MarksIInv, IInv
<1>2. p \in Path /\ z \in Path /\ FP!AtOrBelow(p, p) /\ FP!AtOrBelow(z, z)
  BY <1>1, RequestPaths, SamePaths DEF FP!AtOrBelow
<1>3. PICK w \in store.rows : w.path = z /\ ~w.deleted
  BY <1>1, ReadAgain
<1>4. store' = store /\ \A q \in Path : FP!AtOrBelow(p, q) \/ FP!AtOrBelow(z, q) => Agree(q)
  BY <1>1, ReadAgain DEF Zone
<1>5. \A q \in Path : \A c : FP!AtOrBelow(p, q) => ~Says(store.rows, q, c)
  BY <1>1 DEF Tells
<1>6. \A q \in Path : \A c : FP!AtOrBelow(p, q) => ~Holds(store.disk, q, c)
  BY <1>4, <1>5 DEF Agree
<1>7. ~OnDisk(store.disk, p)
  BY <1>1, <1>2, <1>6, NothingThere
<1>8. RowsAt(store, p) = {}
  BY <1>2, <1>5 DEF RowsAt, Says
<1>9. Holds(store.disk, z, Data(w))
  BY <1>2, <1>3, <1>4 DEF Agree, Says
<1>10. OnDisk(store.disk, z) /\ RowsAt(store, z) # {}
  BY <1>3, <1>9 DEF Holds, OnDisk, RowsAt
<1> QED
  BY <1>4, <1>7, <1>8, <1>10

\* A delete answers with its commit.
LEMMA DeleteAnswers ==
  ASSUME LikeIsExact, Settled, NEW r \in Requests, Step(r), ~faults', Tells(r),
         req'[r].status = "ok", req[r].op = "delete"
  PROVE  LET p == req[r].path
             z == req[r].dest
         IN  /\ RowsAt(store', p) = {} /\ RowsAt(store', z) # {}
             /\ OnDisk(store'.disk, z) /\ ~OnDisk(store'.disk, p)
<1> DEFINE p == req[r].path
           z == req[r].dest
<1>1. /\ Calm /\ IInv /\ RequestsInv /\ InFlight(r) /\ At(r, "commit") /\ Owes(r)
      /\ store.disk \in SUBSET EntryType /\ HasSource(store.rows, req[r])
  BY StepLabel, LastStep, DiskType DEF Settled, Calm, MarksIInv, IInv, Situated
<1>2. p \in Path /\ z \in Path /\ FP!AtOrBelow(p, p) /\ FP!AtOrBelow(z, z)
      /\ req[r].dir \in BOOLEAN /\ ~Below(p, z)
  BY <1>1, RequestPaths, SamePaths DEF FP!AtOrBelow, Tells
<1>3. req[r].pc = 3
  <2> DEFINE op == req[r].op
             pc == req[r].pc
  <2>1. op \in Ops /\ pc \in 1 .. Len(Plan(op)) /\ Plan(op)[pc] = "commit" /\ op = "delete"
    BY <1>1 DEF RequestsInv, Knows, At
  <2> HIDE DEF op, pc
  <2>2. pc = 3
    BY <2>1, Positions
  <2> QED
    BY <2>2 DEF pc
<1>4. PICK g \in store.rows : g.path = p
  BY <1>1, <1>3 DEF HasSource, MovesLive
<1>5. store'.disk = store.disk
  BY <1>1, DiskSteady DEF Shapers, Touchers
<1>6. ASSUME NEW q \in Path, FP!AtOrBelow(p, q) \/ FP!AtOrBelow(z, q), NEW c
      PROVE  Holds(store.disk, q, c) <=> Says(store'.rows, q, c)
  BY <1>1, <1>6, CommitSays DEF Owes
<1>7. \A q \in Path : \A c : FP!AtOrBelow(p, q) => ~Says(store'.rows, q, c)
  BY <1>1, CommitClears
<1>8. ~OnDisk(store.disk, p)
  BY <1>1, <1>2, <1>6, <1>7, NothingThere
<1>9. RowsAt(store', p) = {}
  BY <1>2, <1>7 DEF RowsAt, Says
<1>10. Says(store'.rows, z, Data(g))
  <2>1. Moving(r, p) = z
    <3>1. MovedPath(p, z, req[r].dir, p) = Rebase(p, z, p)
      BY <1>2, TakenPath
    <3>2. Rebase(p, z, p) = z
      BY <1>2, RebasedAt
    <3> QED
      BY <3>1, <3>2 DEF Moving
  <2>2. Says(store.rows, p, Data(g))
    BY <1>4 DEF Says
  <2> QED
    BY <1>1, <1>2, <2>1, <2>2, CommitSays
<1>11. Holds(store.disk, z, Data(g))
  BY <1>2, <1>6, <1>10
<1>12. OnDisk(store.disk, z) /\ RowsAt(store', z) # {}
  BY <1>10, <1>11 DEF Holds, OnDisk, RowsAt, Says
<1> QED
  BY <1>5, <1>8, <1>9, <1>12

\* Whatever was asked, what a success says is so.
LEMMA Answered ==
  ASSUME LikeIsExact, Settled, NEW r \in Requests, Step(r), ~faults', Tells(r),
         req'[r].status = "ok"
  PROVE  Effect(req[r], r)'
<1> DEFINE x == req[r]
           y == req'[r]
<1>1. /\ x.op \in Ops /\ y.op = x.op /\ y.path = x.path /\ y.dest = x.dest
      /\ x.op \in {"version", "purge"} => y.found = x.found
  BY LastStep DEF Settled, Calm, MarksIInv
<1>2. CASE x.op \in Writers
  <2>1. /\ \E w \in store'.rows : w.path = y.path /\ ~w.deleted /\ w.sum = r
        /\ [path |-> y.path, data |-> r] \in store'.disk
    BY <1>1, <1>2, WriterAnswers
  <2>2. y.op \in Writers /\ y.op \notin {"version", "folder", "purge"}
    BY <1>1, <1>2 DEF Writers
  <2> QED
    BY <2>1, <2>2 DEF Effect
<1>3. CASE x.op = "version"
  <2>1. \E v \in y.found : /\ \E w \in store'.rows : w.path = y.path /\ ~w.deleted /\ w.sum = v.sum
                           /\ [path |-> y.path, data |-> v.sum] \in store'.disk
    BY <1>1, <1>3, VersionAnswers
  <2>2. y.op = "version" /\ y.op \notin Writers
    BY <1>1, <1>3 DEF Writers
  <2> QED
    BY <2>1, <2>2 DEF Effect
<1>4. CASE x.op = "folder"
  <2>1. IsFolder(store', y.path) /\ IsDirOn(store'.disk, y.path)
    BY <1>1, <1>4, FolderAnswers
  <2>2. y.op = "folder" /\ y.op \notin Writers
    BY <1>1, <1>4 DEF Writers
  <2> QED
    BY <2>1, <2>2 DEF Effect
<1>5. CASE x.op = "purge"
  <2>1. /\ RowsAt(store', y.path) = {}
        /\ \A e \in store'.disk : ~Covers(y.path, e.path)
        /\ \A v \in y.found : FileOn(store'.disk, Blob(v.ref)) = {}
    BY <1>1, <1>5, PurgeAnswers
  <2>2. y.op = "purge" /\ y.op \notin Writers
    BY <1>1, <1>5 DEF Writers
  <2> QED
    BY <2>1, <2>2 DEF Effect
<1>6. CASE x.op \in {"rename", "move", "restore", "delete"}
  <2>1. /\ RowsAt(store', y.path) = {} /\ RowsAt(store', y.dest) # {}
        /\ OnDisk(store'.disk, y.dest) /\ ~OnDisk(store'.disk, y.path)
    BY <1>1, <1>6, MoverAnswers, DeleteAnswers
  <2>2. y.op \notin Writers /\ y.op # "version" /\ y.op # "folder" /\ y.op # "purge"
    BY <1>1, <1>6 DEF Writers
  <2> QED
    BY <2>1, <2>2 DEF Effect
<1> QED
  BY <1>1, <1>2, <1>3, <1>4, <1>5, <1>6 DEF Ops, Writers

\* In every state: as long as nobody crossed anybody and nothing was lost, handlers know what
\* their answers rest on.
TellsIInv == SettledIInv /\ (~overlap /\ ~faults => \A r \in Requests : InFlight(r) => Tells(r))

LEMMA TellsNext ==
  ASSUME LikeIsExact, OnlyUserPaths, TellsIInv, [Next]_vars
  PROVE  TellsIInv'
<1>1. SettledIInv' /\ IInv /\ RequestsInv
  BY SettledNext DEF TellsIInv, SettledIInv, BytesIInv, QuietIInv, MarksIInv, IInv
<1>2. SUFFICES ASSUME ~overlap', ~faults', NEW o \in Requests, InFlight(o)'
               PROVE  Tells(o)'
  BY <1>1 DEF TellsIInv
<1>3. ASSUME store' = store, req'[o] = req[o], ~overlap, ~faults
      PROVE  Tells(o)'
  <2>1. InFlight(o) /\ \A label : At(o, label)' <=> At(o, label)
    BY <1>2, <1>3 DEF InFlight, At
  <2>2. Tells(o)
    BY <1>3, <2>1 DEF TellsIInv
  <2> QED
    BY <1>3, <2>1, <2>2 DEF Tells
<1>4. CASE UNCHANGED vars
  BY <1>2, <1>3, <1>4 DEF vars
<1>5. ASSUME NEW r \in Requests, Step(r)
      PROVE  Tells(o)'
  <2>1. ~overlap /\ ~faults
    BY <1>1, <1>2, <1>5, HistoryStep DEF IInv
  <2>2. Settled
    BY <2>1 DEF TellsIInv, SettledIInv
  <2>3. InFlight(r)
    BY <1>5, StepLabel
  <2>4. CASE o = r
    <3>1. Tells(r)
      BY <2>1, <2>3 DEF TellsIInv
    <3> QED
      BY <1>2, <1>5, <2>2, <2>4, <3>1, TellsOwn
  <2>5. CASE o # r
    <3>1. InFlight(o)
      BY <1>1, <1>2, <1>5, <2>5, Bystander
    <3>2. Tells(o)
      BY <2>1, <3>1 DEF TellsIInv
    <3> QED
      BY <1>2, <1>5, <2>2, <2>5, <3>1, <3>2, TellsStays
  <2> QED
    BY <2>4, <2>5
<1>6. ASSUME NEW r \in Requests, NEW in \in Inputs, Begin(r, in)
      PROVE  Tells(o)'
  <2>1. overlap \in BOOLEAN /\ faults' = faults /\ store' = store
    BY <1>1, <1>6 DEF Begin, IInv
  <2>2. ~overlap /\ ~faults
    BY <1>2, <1>6, <2>1 DEF Begin
  <2>3. CASE o # r
    <3>1. req'[o] = req[o]
      BY <1>1, <1>6, <2>3 DEF Begin, RequestsInv
    <3> QED
      BY <1>3, <2>1, <2>2, <3>1
  <2>4. CASE o = r
    <3>1. req'[o] = Started(r, in)
      BY <1>1, <1>6, <2>4 DEF Begin, RequestsInv
    <3>2. req'[o].pc = 1 /\ req'[o].op \in Ops
      BY <3>1, InputAssumption DEF Started
    <3>3. ~At(o, "commit")' /\ ~At(o, "read_back")'
      <4> DEFINE op == req'[o].op
      <4>3. op \in Ops
        BY <3>2
      <4> HIDE DEF op
      <4>4. Len(Plan(op)) \in 3 .. 12
        BY <4>3, PlanLength
      <4> DEFINE len == Len(Plan(op))
      <4> HIDE DEF len
      <4>5. len \in 3 .. 12
        BY <4>4 DEF len
      <4>6. 1 \in 1 .. len
        BY <4>5
      <4>1. 1 \in 1 .. Len(Plan(op)) /\ op \in Ops
        BY <4>3, <4>6 DEF len
      <4>2. Plan(op)[1] # "commit" /\ Plan(op)[1] # "read_back"
        BY <4>1, Positions
      <4> QED
        BY <3>2, <4>2 DEF At, op
    <3>4. ~(req'[o].pc >= 5)
      BY <3>2
    <3> QED
      BY <3>3, <3>4 DEF Tells
  <2> QED
    BY <2>3, <2>4
<1>7. ~Crash
  BY <1>2 DEF Crash
<1>8. CASE Next
  BY <1>2, <1>4, <1>5, <1>6, <1>7, <1>8 DEF Next
<1> QED
  BY <1>4, <1>8

\* The step that answers.
LEMMA AnswerStep ==
  ASSUME LikeIsExact, TellsIInv, [Next]_vars, NEW r \in Requests,
         req[r].status # "ok", req'[r].status = "ok", ~overlap', ~faults'
  PROVE  Effect(req[r], r)'
<1>1. IInv /\ RequestsInv
  BY DEF TellsIInv, SettledIInv, BytesIInv, QuietIInv, MarksIInv, IInv
<1>2. ~(UNCHANGED vars)
  BY DEF vars
<1>3. ~Crash
  BY DEF Crash
<1>4. ASSUME NEW o \in Requests, NEW in \in Inputs PROVE ~Begin(o, in)
  <2> SUFFICES ASSUME Begin(o, in) PROVE FALSE
    OBVIOUS
  <2>1. req'[r] = IF r = o THEN Started(o, in) ELSE req[r]
    BY <1>1 DEF Begin, RequestsInv
  <2> QED
    BY <2>1 DEF Started
<1>5. PICK o \in Requests : Step(o)
  BY <1>2, <1>3, <1>4 DEF Next
<1>6. o = r
  BY <1>1, <1>5, StepFields
<1>7. ~overlap /\ ~faults /\ InFlight(r)
  BY <1>1, <1>5, <1>6, HistoryStep, StepLabel DEF IInv
<1>8. Settled /\ Tells(r)
  BY <1>7 DEF TellsIInv, SettledIInv
<1> QED
  BY <1>5, <1>6, <1>8, Answered

(* Whatever handlers ran in between, an answer of success is true in the   *)
(* state it is given in, unless requests with related paths overlapped or  *)
(* a crash or a timeout came before: the row and the bytes of an upload, a *)
(* save or a restored version, the row and the directory of a new folder   *)
(* are there; a purge leaves no row, no bytes and no blob; what was        *)
(* renamed, moved, deleted or restored is at its new place and not at its  *)
(* old one.                                                                *)
THEOREM AnswersStayTrue ==
  ASSUME LikeIsExact, OnlyUserPaths
  PROVE  Spec => AnswersAreTrue
<1>1. Init => TellsIInv
  <2>1. Init => SettledIInv
    BY BytesInit, SettledInit DEF SettledIInv
  <2>2. Init => \A r \in Requests : ~InFlight(r)
    BY DEF Init, InFlight, Idle
  <2> QED
    BY <2>1, <2>2 DEF TellsIInv
<1>2. TellsIInv /\ [Next]_vars => TellsIInv'
  BY TellsNext
<1>3. TellsIInv /\ [Next]_vars =>
        [\A r \in Requests :
           (req[r].status # "ok" /\ req'[r].status = "ok" /\ ~overlap' /\ ~faults')
             => Effect(req[r], r)']_vars
  BY AnswerStep
<1> QED
  BY <1>1, <1>2, <1>3, PTL DEF Spec, AnswersAreTrue

----------------------------------------------------------------------------
(* HandlersAreAtomic.  Sound is what an invariant store at rest satisfies; *)
(* its disk is a function of its tables.  So the tables alone are followed *)
(* from the store a handler found (base) to the one it leaves: UploadAt,   *)
(* SaveAt, VersionAt, FolderGoes, PurgeAt and MoverAt say what they are at *)
(* each of its steps, and Uploaded, Saved, ... what they are in the end,   *)
(* which is an action of Filesystem on base.                               *)

(* The sequential module's operators are those of Storage.                 *)
LEMMA AtomicPaths ==
  /\ Atomic!Root = Root
  /\ \A p : Atomic!ParentOf(p) = ParentOf(p) /\ Atomic!NameOf(p) = NameOf(p)
  /\ \A p, q : /\ Atomic!Below(p, q) = Below(p, q) /\ Atomic!Child(p, q) = Append(p, q)
               /\ Atomic!TrashPath(p, q) = TrashPath(p, q)
  /\ \A ref : Atomic!Blob(ref) = Blob(ref)
  BY DEF Atomic!Root, Atomic!ParentOf, Atomic!NameOf, Atomic!Below, Atomic!Child, Atomic!TrashPath,
         Atomic!Blob, Root, ParentOf, NameOf, Below, TrashPath, Blob

LEMMA AtomicQueries ==
  \A s, p : /\ Atomic!Live(s, p) = Live(s, p) /\ Atomic!IsFile(s, p) = IsFile(s, p)
            /\ Atomic!RowAt(s, p) = RowAt(s, p) /\ Atomic!IsFolder(s, p) = IsFolder(s, p)
            /\ Atomic!TrashRoots(s) = TrashRoots(s) /\ Atomic!VersionsAt(s, p) = VersionsAt(s, p)
            /\ Atomic!FileOn(s, p) = FileOn(s, p)
  BY DEF Atomic!Live, Atomic!IsFile, Atomic!RowAt, Atomic!IsFolder, Atomic!TrashRoots, Atomic!Root,
         Atomic!VersionsAt, Atomic!FileOn,
         Live, IsFile, RowAt, IsFolder, TrashRoots, Root, VersionsAt, FileOn

LEMMA AtomicAdds ==
  \A s, p, c, n : /\ Atomic!AddStream(s, p, c, n) = FP!AddStream(s, p, c, n)
                  /\ Atomic!AddBytes(s, p, c, n) = FP!AddBytes(s, p, c, n)
                  /\ Atomic!AddFolder(s, p, n) = FP!AddFolder(s, p, n)
                  /\ Atomic!Overwritten(s, p, c) = FP!Overwritten(s, p, c)
  BY DEF Atomic!AddStream, Atomic!AddBytes, Atomic!AddFolder, Atomic!Overwritten, Atomic!WriteFails,
         Atomic!HasKey, Atomic!RemoveFileOn, Atomic!WriteFile, Atomic!NewRow, Atomic!IsDirOn, Atomic!OnDisk,
         Atomic!ParentIsFile, Atomic!MakeParents, Atomic!FileOn, Atomic!Below, Atomic!NameOf, Atomic!ParentOf,
         Atomic!RemoveFile, Atomic!Snapshot, Atomic!Covers, Atomic!LikeBelow, Atomic!IsFile, Atomic!Blob,
         Atomic!NextNo, Atomic!RowAt, Atomic!Max, Atomic!VersionsAt,
         FP!AddStream, FP!AddBytes, FP!AddFolder, FP!Overwritten, FP!WriteFails,
         FP!HasKey, FP!RemoveFileOn, FP!WriteFile, FP!NewRow, FP!IsDirOn, FP!OnDisk,
         FP!ParentIsFile, FP!MakeParents, FP!FileOn, FP!Below, FP!NameOf, FP!ParentOf,
         FP!RemoveFile, FP!Snapshot, FP!Covers, FP!LikeBelow, FP!IsFile, FP!Blob,
         FP!NextNo, FP!RowAt, FP!Max, FP!VersionsAt

LEMMA AtomicMoves ==
  /\ \A s, p, q, d : /\ Atomic!Relocate(s, p, q, d) = FP!Relocate(s, p, q, d)
                     /\ Atomic!RelocateFails(s, p, q, d) = FP!RelocateFails(s, p, q, d)
                     /\ Atomic!SoftDelete(s, p, q) = FP!SoftDelete(s, p, q)
                     /\ Atomic!Restored(s, p) = FP!Restored(s, p)
                     /\ Atomic!Purged(s, p) = FP!Purged(s, p)
                     /\ Atomic!Snapshot(s, p, q) = FP!Snapshot(s, p, q)
                     /\ Atomic!RolledBack(s, p, q) = FP!RolledBack(s, p, q)
  BY DEF Atomic!Relocate, Atomic!RelocateFails, Atomic!SoftDelete, Atomic!Restored, Atomic!Purged,
         Atomic!Snapshot, Atomic!RolledBack, Atomic!RelocateRows, Atomic!RelocateVersions, Atomic!MovedRow,
         Atomic!MovedPath, Atomic!KeyClash, Atomic!RenameFails, Atomic!RenameOn, Atomic!Rebase,
         Atomic!Stamped, Atomic!Unstamped, Atomic!Covers, Atomic!LikeBelow, Atomic!CoveredBy,
         Atomic!TrashPath, Atomic!Rehashed, Atomic!Child,
         Atomic!WriteFile, Atomic!IsDirOn, Atomic!OnDisk,
         Atomic!ParentIsFile, Atomic!MakeParents, Atomic!FileOn, Atomic!Below, Atomic!NameOf, Atomic!ParentOf,
         Atomic!IsFile, Atomic!Blob, Atomic!NextNo, Atomic!RowAt, Atomic!Max, Atomic!VersionsAt,
         FP!Relocate, FP!RelocateFails, FP!SoftDelete, FP!Restored, FP!Purged,
         FP!Snapshot, FP!RolledBack, FP!RelocateRows, FP!RelocateVersions, FP!MovedRow,
         FP!MovedPath, FP!KeyClash, FP!RenameFails, FP!RenameOn, FP!Rebase,
         FP!Stamped, FP!Unstamped, FP!Covers, FP!LikeBelow, FP!CoveredBy,
         FP!TrashPath, FP!Rehashed, FP!Child,
         FP!WriteFile, FP!IsDirOn, FP!OnDisk,
         FP!ParentIsFile, FP!MakeParents, FP!FileOn, FP!Below, FP!NameOf, FP!ParentOf,
         FP!IsFile, FP!Blob, FP!NextNo, FP!RowAt, FP!Max, FP!VersionsAt

(***************************************************************************)
(* Served one at a time, a handler leaves what the sequential module says. *)
(* At rest the disk is a function of the tables, in the model with awaits  *)
(* as in the sequential one: two stores that are sound and have the same   *)
(* tables are the same.  So a handler at work is followed on the tables    *)
(* only, from the store it found.                                          *)
(***************************************************************************)

Sound(s) ==
  /\ FP!StoreInv(s) /\ FP!Stored(s) /\ FP!Attached(s) /\ FP!Apart(s.rows)
  /\ FP!TreeInv(s.rows) /\ MarksInv(s.rows)

Tables(s, rows, versions) == s.rows = rows /\ s.versions = versions
Rest(s, p) == {w \in s.rows : ~Covers(p, w.path)}

LEMMA SoundAtRest ==
  ASSUME Settled, Quiet
  PROVE  Sound(store)
<1>1. /\ IInv /\ Mirrors /\ BlobsAgree /\ FP!Numbered(store.versions)
      /\ Named /\ RefsUnique(store.versions) /\ MarksInv(store.rows) /\ FP!TreeInv(store.rows)
      /\ \A v \in store.versions : Owned(v.path)
      /\ FP!StoreInv(store) /\ FP!RowsInv(store.rows) /\ FP!VersionsInv(store.versions)
  BY DEF Settled, Calm, MarksIInv, IInv, FP!StoreInv
<1>2. \A w \in store.rows : w.path \in Path /\ w.path # Root /\ w.path[1] # VERSIONS
                            /\ w.dir \in BOOLEAN
  BY <1>1, Readable DEF Named, RowNamed
<1>3. FP!Apart(store.rows)
  BY <1>2 DEF FP!Apart
<1>4. FP!Attached(store)
  BY <1>1 DEF FP!Attached, Owned, Rowless, Quiet
<1>5. store.disk = FP!Bytes(store.rows) \cup FP!Blobs(store.versions)
  <2>1. Files!DiskMatches /\ Files!HistoryAttached
    BY SettledWhenQuiet
  <2>2. {e \in store.disk : e.path[1] # VERSIONS} = FP!Bytes(store.rows)
    BY <2>1 DEF Files!DiskMatches, FP!Bytes, FP!Entry
  <2>3. {e \in store.disk : e.path[1] = VERSIONS} = FP!Blobs(store.versions)
    BY <2>1 DEF Files!HistoryAttached, FP!Blobs, FP!BlobOf, FP!Blob, Files!Blob
  <2> QED
    BY <2>2, <2>3
<1>6. FP!Rooted(FP!Bytes(store.rows))
  <2> SUFFICES ASSUME NEW e \in FP!Bytes(store.rows), NEW q \in FP!Path, FP!IsPlace(q),
                      FP!Below(q, e.path)
               PROVE  FP!Dir(q) \in FP!Bytes(store.rows)
    BY DEF FP!Rooted, FP!RoomAt
  <2>1. /\ \E w \in store.rows : e.path = w.path
        /\ \A w \in store.rows : FP!Entry(w) \in FP!Bytes(store.rows)
    BY DEF FP!Bytes, FP!Entry
  <2>2. PICK w \in store.rows : e.path = w.path
    BY <2>1
  <2>3. q \in Path /\ Len(q) >= 1 /\ (q[1] = TRASH => ~(Len(q) < 3)) /\ Below(q, w.path)
    BY <2>2, SameTypes, SamePaths, LongPath DEF FP!IsPlace
  <2>4. PICK g \in store.rows : g.path = q /\ g.dir # FALSE
    BY <1>1, <2>3, FoldersAbove
  <2>5. FP!Entry(g) = FP!Dir(q)
    BY <1>2, <2>4 DEF FP!Entry, FP!Dir
  <2> QED
    BY <2>1, <2>4, <2>5
<1>7. FP!Stored(store)
  BY <1>1, <1>5, <1>6 DEF FP!Stored, FP!RefsUnique, RefsUnique
<1> QED
  BY <1>1, <1>3, <1>4, <1>7 DEF Sound

\* Sound stores with the same tables are the same.
LEMMA SameTables ==
  ASSUME NEW s, NEW t, FP!StoreInv(s), FP!Stored(s), FP!StoreInv(t), FP!Stored(t),
         s.rows = t.rows, s.versions = t.versions
  PROVE  s = t
<1>1. s \in StoreType /\ t \in StoreType
  BY SameTypes DEF FP!StoreInv
<1>2. s.disk = t.disk
  BY DEF FP!Stored
<1> QED
  BY <1>1, <1>2, StoreParts DEF Whole

\* What a sound store is for a path of the user that is free, and for one that is taken.
LEMMA UserPlace ==
  ASSUME NEW s, Sound(s), NEW p \in Path, p # Root, UserPath(p)
  PROVE  /\ FP!IsPlace(p) /\ p[1] # TRASH /\ p[1] # VERSIONS /\ p \in FP!Path /\ Len(p) >= 1
         /\ ~Live(s, p) => ~FP!HasKey(s, p) /\ \A w \in s.rows : w.path # p
         /\ IsFolder(s, ParentOf(p)) => FP!RoomAt(FP!Bytes(s.rows), p)
<1>1. p[1] \notin {TRASH, VERSIONS} /\ Len(p) >= 1 /\ p \in FP!Path
  BY LongPath, SameTypes DEF UserPath
<1>2. FP!RowsInv(s.rows) /\ FP!TrashInv(s.rows) /\ FP!Rooted(FP!Bytes(s.rows))
      /\ s.rows \subseteq RowType
  BY SameTypes DEF Sound, MarksInv, FP!StoreInv, FP!Stored, FP!RowsInv
<1>3. ASSUME ~Live(s, p), NEW w \in s.rows
      PROVE  w.path # p
  BY <1>1, <1>2, <1>3 DEF Live, FP!TrashInv, RowType
<1>4. ASSUME IsFolder(s, ParentOf(p))
      PROVE  FP!RoomAt(FP!Bytes(s.rows), p)
  <2>1. FP!FolderAt(s.rows, FP!ParentOf(p))
    BY <1>2, <1>4, SameTypes, SamePaths DEF IsFolder, FP!FolderAt, RowType
  <2> QED
    BY <1>1, <1>2, <2>1, Assumed, FP!RoomUnder
<1> QED
  BY <1>1, <1>3, <1>4 DEF FP!IsPlace, FP!HasKey

\* What the sequential operators leave is sound, so it is the store with those tables.
LEMMA Made ==
  ASSUME NEW s, Sound(s), NEW t, Sound(t), NEW p \in Path, p # Root, UserPath(p), ~Live(s, p),
         IsFolder(s, ParentOf(p)), NEW c \in Contents, NEW node \in Nodes
  PROVE  /\ Tables(t, s.rows \cup {NewRow(p, FALSE, c, node)}, s.versions) => t = FP!AddStream(s, p, c, node)
         /\ Tables(t, s.rows \cup {NewRow(p, TRUE, NoSum, node)}, s.versions) => t = FP!AddFolder(s, p, node)
<1> USE DEF Tables
<1>1. /\ FP!IsPlace(p) /\ p[1] \notin {TRASH, VERSIONS} /\ p \in FP!Path /\ Len(p) >= 1
      /\ ~FP!HasKey(s, p) /\ FP!RoomAt(FP!Bytes(s.rows), p)
  BY UserPlace DEF UserPath
<1>2. FP!StoreInv(s) /\ FP!Stored(s) /\ FP!StoreInv(t) /\ FP!Stored(t)
  BY DEF Sound
<1>3. /\ FP!StoreInv(FP!AddStream(s, p, c, node))
      /\ FP!StoreInv(FP!AddFolder(s, p, node))
  BY <1>1, <1>2, Assumed, FP!AddStreamInv, FP!AddFolderInv
<1>4. /\ FP!Inserted(FP!AddStream(s, p, c, node), s, FP!NewRow(p, FALSE, c, node))
      /\ FP!Inserted(FP!AddFolder(s, p, node), s, FP!NewRow(p, TRUE, NoSum, node))
  BY <1>1, <1>2, Assumed, FP!AddedStored
<1>5. \A dir, sum : FP!NewRow(p, dir, sum, node) = NewRow(p, dir, sum, node)
  BY SameRows
<1> QED
  BY <1>2, <1>3, <1>4, <1>5, SameTables DEF FP!Inserted

LEMMA Overwrote ==
  ASSUME LikeIsExact, NEW s, Sound(s), NEW t, Sound(t), NEW p, UserPath(p), IsFile(s, p),
         NEW ref \in Refs, \A e \in s.disk : e.path # Blob(ref), NEW c \in Contents, NEW node \in Nodes,
         Tables(t, Rest(s, p) \cup {NewRow(p, FALSE, c, node)}, FP!Snapshot(s, p, ref).versions)
  PROVE  /\ t = FP!AddStream(FP!Overwritten(s, p, ref), p, c, node)
         /\ t = FP!AddBytes(FP!Overwritten(s, p, ref), p, c, node)
<1> USE DEF Tables, Rest
<1> DEFINE o == FP!Overwritten(s, p, ref)
<1>1. /\ FP!StoreInv(s) /\ FP!Stored(s) /\ FP!StoreInv(t) /\ FP!Stored(t)
      /\ FP!Attached(s) /\ FP!Apart(s.rows) /\ FP!LikeIsExact /\ p[1] # TRASH
      /\ FP!IsFile(s, p) /\ FP!Live(s, p) /\ \A e \in s.disk : e.path # FP!Blob(ref)
  BY SamePaths, SameQueries, SameDisk DEF Sound, UserPath, IsFile, Live
<1>2. /\ FP!RowAt(s, p) \in s.rows /\ FP!RowAt(s, p).path = p
      /\ \A w \in s.rows : w.path = p => w = FP!RowAt(s, p)
      /\ ~FP!RowAt(s, p).dir /\ p \in FP!Path /\ Len(p) >= 1
  BY <1>1, Assumed, FP!RowAtLive
<1>3. FP!StoreInv(o)
  <2>1. FP!StoreInv(FP!Snapshot(s, p, ref))
    BY <1>1, Assumed, FP!SnapshotInv
  <2>2. FP!StoreInv(FP!RemoveFile(FP!Snapshot(s, p, ref), p))
    BY <2>1, <1>2, Assumed, FP!RemoveFileInv
  <2> QED
    BY <2>2 DEF FP!Overwritten
<1>4. FP!StoreInv(FP!AddStream(o, p, c, node)) /\ FP!StoreInv(FP!AddBytes(o, p, c, node))
  <2> HIDE DEF o
  <2> QED
    BY <1>2, <1>3, Assumed, FP!AddStreamInv, FP!AddBytesInv
<1>5. LET a == FP!AddStream(o, p, c, node)
          b == FP!AddBytes(o, p, c, node)
      IN  /\ FP!Stored(a) /\ FP!Swapped(s, a, p, ref, c, node)
          /\ FP!Stored(b) /\ FP!Swapped(s, b, p, ref, c, node)
  BY <1>1, Assumed, FP!OverwriteStored
<1>6. t.rows = (s.rows \ {FP!RowAt(s, p)}) \cup {FP!NewRow(p, FALSE, c, node)}
  <2>1. o.rows = {w \in s.rows : ~FP!Covers(p, w.path)}
    BY <1>1, Assumed, FP!OverwrittenExact DEF FP!StoreInv
  <2>2. o.rows = s.rows \ {FP!RowAt(s, p)}
    <3>1. FP!StoreInv(FP!Snapshot(s, p, ref)) /\ FP!Stored(FP!Snapshot(s, p, ref))
          /\ FP!Snapshot(s, p, ref).rows = s.rows
      BY <1>1, Assumed, FP!SnapshotInv, FP!SnapshotStored
    <3>2. FP!IsPlace(p)
      BY <1>1, <1>2 DEF FP!IsPlace
    <3> QED
      BY <1>1, <1>2, <3>1, <3>2, Assumed, FP!RemovedStored DEF FP!Overwritten
  <2>3. {w \in s.rows : ~Covers(p, w.path)} = {w \in s.rows : ~FP!Covers(p, w.path)}
    BY SamePaths
  <2> QED
    BY <2>1, <2>2, <2>3, SameRows
<1>7. t.rows = FP!AddStream(o, p, c, node).rows /\ t.rows = FP!AddBytes(o, p, c, node).rows
  BY <1>5, <1>6 DEF FP!Swapped
<1>8. t.versions = FP!AddStream(o, p, c, node).versions /\ t.versions = FP!AddBytes(o, p, c, node).versions
  BY <1>5 DEF FP!Swapped
<1> QED
  BY <1>1, <1>4, <1>5, <1>7, <1>8, SameTables

LEMMA MovedStore ==
  ASSUME LikeIsExact, NEW s, Sound(s), NEW o \in s.rows, o.deleted = FALSE \/ o.orig # NoPath,
         NEW new \in Path, new # Root, new[1] # VERSIONS, FP!RoomAt(FP!Bytes(s.rows), new),
         \A w \in s.rows : w.path # new, ~FP!RelocateFails(s, o.path, new, o.dir)
  PROVE  LET m == FP!Relocate(s, o.path, new, o.dir)
         IN  /\ FP!StoreInv(m) /\ FP!Stored(m)
             /\ m.rows = RelocateRows(s.rows, o.path, new, o.dir)
             /\ m.versions = RelocateVersions(s.versions, o.path, new, o.dir)
<1>1. /\ FP!StoreInv(s) /\ FP!Stored(s) /\ FP!Attached(s) /\ FP!Apart(s.rows)
      /\ FP!LikeIsExact /\ new \in FP!Path /\ Len(new) >= 1 /\ FP!TrashInv(s.rows)
      /\ FP!RowsInv(s.rows)
  BY SamePaths, SameTypes, LongPath DEF Sound, MarksInv, FP!StoreInv
<1>2. o \in FP!RowType /\ o.path \in FP!Path /\ o.dir \in BOOLEAN /\ Len(o.path) >= 1
  BY <1>1, SameTypes DEF FP!RowsInv, FP!RowType
<1>3. FP!IsPlace(o.path)
  BY <1>1, <1>2 DEF FP!TrashInv, FP!IsPlace
<1>4. FP!StoreInv(FP!Relocate(s, o.path, new, o.dir))
  BY <1>1, <1>2, Assumed, FP!RelocateInv
<1>5. FP!Stored(FP!Relocate(s, o.path, new, o.dir))
  BY <1>1, <1>3, Assumed, FP!RelocatedStored
<1> QED
  BY <1>4, <1>5, SameRows DEF FP!Relocate

LEMMA Relocates ==
  ASSUME LikeIsExact, NEW s, Sound(s), NEW t, Sound(t), NEW p, Live(s, p),
         NEW new \in Path, new # Root, UserPath(new), IsFolder(s, ParentOf(new)), ~Live(s, new),
         ~FP!RelocateFails(s, p, new, RowAt(s, p).dir),
         Tables(t, RelocateRows(s.rows, p, new, RowAt(s, p).dir),
                RelocateVersions(s.versions, p, new, RowAt(s, p).dir))
  PROVE  t = FP!Relocate(s, p, new, RowAt(s, p).dir)
<1> USE DEF Tables
<1> DEFINE o == RowAt(s, p)
<1>1. o \in s.rows /\ o.path = p /\ o.deleted = FALSE
  <2>1. o \in s.rows /\ o.path = p
    BY DEF Live, RowAt
  <2>2. \A w \in s.rows : w.path = p => w = o
    BY <2>1 DEF Sound, FP!StoreInv, FP!RowsInv, FP!KeysUnique
  <2>3. \A w \in s.rows : w.deleted \in BOOLEAN
    BY SameTypes DEF Sound, FP!StoreInv, FP!RowsInv, RowType
  <2> QED
    BY <2>1, <2>2, <2>3 DEF Live
<1> HIDE DEF o
<1>2. /\ FP!RoomAt(FP!Bytes(s.rows), new) /\ \A w \in s.rows : w.path # new
      /\ new[1] # VERSIONS
  BY UserPlace
<1>3. LET m == FP!Relocate(s, o.path, new, o.dir)
      IN  /\ FP!StoreInv(m) /\ FP!Stored(m)
          /\ m.rows = RelocateRows(s.rows, o.path, new, o.dir)
          /\ m.versions = RelocateVersions(s.versions, o.path, new, o.dir)
  BY <1>1, <1>2, MovedStore DEF o
<1>4. FP!StoreInv(t) /\ FP!Stored(t)
  BY DEF Sound
<1> QED
  BY <1>1, <1>3, <1>4, SameTables DEF o

LEMMA Trashes ==
  ASSUME LikeIsExact, NEW s, Sound(s), NEW t, Sound(t), NEW p, Live(s, p),
         NEW id \in Segments, id # VERSIONS, FP!NothingUnder(s.rows, id),
         ~FP!RelocateFails(s, p, TrashPath(id, RowAt(s, p).name), RowAt(s, p).dir),
         Tables(t, Stamped(RelocateRows(s.rows, p, TrashPath(id, RowAt(s, p).name), RowAt(s, p).dir),
                           TrashPath(id, RowAt(s, p).name), p),
                RelocateVersions(s.versions, p, TrashPath(id, RowAt(s, p).name), RowAt(s, p).dir))
  PROVE  t = FP!SoftDelete(s, p, id)
<1> USE DEF Tables
<1> DEFINE o == RowAt(s, p)
           new == TrashPath(id, o.name)
           m == FP!Relocate(s, o.path, new, o.dir)
           n == FP!SoftDelete(s, p, id)
<1>1. o \in s.rows /\ o.path = p /\ o.deleted = FALSE /\ o.name \in Segments
  <2>1. o \in s.rows /\ o.path = p
    BY DEF Live, RowAt
  <2>2. \A w \in s.rows : w.path = p => w = o
    BY <2>1 DEF Sound, FP!StoreInv, FP!RowsInv, FP!KeysUnique
  <2>3. \A w \in s.rows : w.deleted \in BOOLEAN /\ w.name \in Segments
    BY SameTypes DEF Sound, FP!StoreInv, FP!RowsInv, RowType
  <2> QED
    BY <2>1, <2>2, <2>3 DEF Live
<1>2. /\ new \in Path /\ new # Root /\ new[1] = TRASH /\ Len(new) = 3 /\ new[2] = id
      /\ TRASH # VERSIONS
  BY <1>1, StorageAssumption DEF TrashPath, Path, Root
<1>3. \A w \in s.rows : w.path # new
  <2>1. FP!Below(<<TRASH, id>>, <<TRASH, id, o.name>>)
    <3> DEFINE a == <<TRASH, id>>
               b == <<TRASH, id, o.name>>
    <3>1. /\ b \in Seq(Segments) /\ a \in Seq(Segments) /\ Len(a) = 2 /\ Len(b) = 3
          /\ a[1] = b[1] /\ a[2] = b[2]
      BY <1>1, StorageAssumption
    <3>2. SubSeq(b, 1, 2) = a
      <4> HIDE DEF a, b
      <4> QED
        BY <3>1
    <3> QED
      BY <3>1, <3>2 DEF FP!Below
  <2> QED
    BY <2>1 DEF FP!NothingUnder, TrashPath
<1>4. FP!RoomAt(FP!Bytes(s.rows), new)
  <2>1. ASSUME NEW q \in FP!Path, FP!IsPlace(q), FP!Below(q, new) PROVE FALSE
    <3>1. Len(q) < 3 /\ SubSeq(new, 1, Len(q)) = q /\ Len(q) >= 1 /\ q \in Path
      BY <1>2, <2>1, SameTypes DEF FP!Below, FP!IsPlace
    <3>2. q[1] = TRASH
      BY <3>1, <1>2, LongPath DEF Path
    <3> QED
      BY <2>1, <3>1, <3>2, LongPath DEF FP!IsPlace
  <2> QED
    BY <2>1 DEF FP!RoomAt
<1>5. /\ FP!Live(s, p) /\ FP!RowAt(s, p) = o /\ FP!TrashPath(id, o.name) = new
      /\ \A rows : FP!Stamped(rows, new, p) = Stamped(rows, new, p)
  BY SameQueries, SameRows
<1>6. /\ FP!StoreInv(m) /\ FP!Stored(m)
      /\ m.rows = RelocateRows(s.rows, o.path, new, o.dir)
      /\ m.versions = RelocateVersions(s.versions, o.path, new, o.dir)
  <2> HIDE DEF o, new
  <2>1. ~FP!RelocateFails(s, o.path, new, o.dir)
    BY <1>1 DEF o, new
  <2> QED
    BY <1>1, <1>2, <1>3, <1>4, <2>1, MovedStore
<1>7. /\ n = [m EXCEPT !.rows = FP!Stamped(m.rows, new, p)]
  BY <1>1, <1>5 DEF FP!SoftDelete
<1>8. /\ n.rows = Stamped(m.rows, new, p) /\ n.versions = m.versions /\ n.disk = m.disk
  <2> HIDE DEF m, n, new
  <2>1. m \in StoreType
    BY <1>6, SameTypes DEF FP!StoreInv
  <2> QED
    BY <1>5, <1>7, <2>1, StoreParts
<1>9. FP!StoreInv(n)
  <2>1. FP!StoreInv(s) /\ ~FP!RelocateFails(s, p, FP!TrashPath(id, FP!RowAt(s, p).name), FP!RowAt(s, p).dir)
    BY <1>5 DEF Sound
  <2> HIDE DEF n
  <2> QED
    BY <1>5, <2>1, Assumed, FP!SoftDeleteInv DEF n
<1>10. FP!Stored(n)
  <2> HIDE DEF m, n, new
  <2>1. m.rows \subseteq FP!RowType /\ n.rows = FP!Stamped(m.rows, new, p)
    BY <1>5, <1>6, <1>8 DEF FP!StoreInv, FP!RowsInv
  <2> QED
    BY <1>6, <1>8, <2>1, Assumed, FP!MarkedStored
<1>11. FP!StoreInv(t) /\ FP!Stored(t) /\ t.rows = n.rows /\ t.versions = n.versions
  BY <1>1, <1>6, <1>8 DEF Sound
<1> HIDE DEF n
<1> QED
  BY <1>9, <1>10, <1>11, SameTables DEF n

LEMMA Restores ==
  ASSUME LikeIsExact, NEW s, Sound(s), NEW t, Sound(t), NEW root \in TrashRoots(s),
         ~Live(s, root.orig), IsFolder(s, ParentOf(root.orig)),
         ~FP!RelocateFails(s, root.path, root.orig, root.dir),
         Tables(t, Unstamped(RelocateRows(s.rows, root.path, root.orig, root.dir), root.orig),
                RelocateVersions(s.versions, root.path, root.orig, root.dir))
  PROVE  t = FP!Restored(s, root)
<1> USE DEF Tables
<1> DEFINE new == root.orig
           m == FP!Relocate(s, root.path, new, root.dir)
           n == FP!Restored(s, root)
<1>1. /\ root \in s.rows /\ new # NoPath /\ new \in Path /\ new # Root /\ UserPath(new)
  BY SameTypes, LongPath DEF TrashRoots, Sound, MarksInv, FP!TrashInv, FP!StoreInv, FP!RowsInv,
       RowType, UserPath
<1>2. /\ FP!RoomAt(FP!Bytes(s.rows), new) /\ \A w \in s.rows : w.path # new
      /\ new[1] # VERSIONS
  BY <1>1, UserPlace
<1>3. /\ FP!StoreInv(m) /\ FP!Stored(m)
      /\ m.rows = RelocateRows(s.rows, root.path, new, root.dir)
      /\ m.versions = RelocateVersions(s.versions, root.path, new, root.dir)
  <2> HIDE DEF new
  <2>1. ~FP!RelocateFails(s, root.path, new, root.dir) /\ (root.deleted = FALSE \/ root.orig # NoPath)
    BY <1>1 DEF new
  <2> QED
    BY <1>1, <1>2, <2>1, MovedStore
<1>4. n = [m EXCEPT !.rows = FP!Unstamped(m.rows, new)]
  BY DEF FP!Restored
<1>5. n.rows = Unstamped(m.rows, new) /\ n.versions = m.versions /\ n.disk = m.disk
  <2> HIDE DEF m, n, new
  <2>1. m \in StoreType
    BY <1>3, SameTypes DEF FP!StoreInv
  <2> QED
    BY <1>4, <2>1, StoreParts, SameRows
<1>6. FP!StoreInv(n)
  <2>1. FP!StoreInv(s) /\ root \in FP!TrashRoots(s)
    BY SameQueries DEF Sound, TrashRoots, FP!TrashRoots
  <2> HIDE DEF n
  <2> QED
    BY <2>1, Assumed, FP!RestoredInv DEF n
<1>7. FP!Stored(n)
  <2> HIDE DEF m, n, new
  <2>1. m.rows \subseteq FP!RowType /\ n.rows = FP!Unstamped(m.rows, new)
    BY <1>3, <1>5, SameRows DEF FP!StoreInv, FP!RowsInv
  <2> QED
    BY <1>3, <1>5, <2>1, Assumed, FP!MarkedStored
<1>8. FP!StoreInv(t) /\ FP!Stored(t) /\ t.rows = n.rows /\ t.versions = n.versions
  BY <1>3, <1>5 DEF Sound
<1> HIDE DEF n
<1> QED
  BY <1>6, <1>7, <1>8, SameTables DEF n

LEMMA Purges ==
  ASSUME LikeIsExact, NEW s, Sound(s), NEW t, Sound(t), NEW root \in TrashRoots(s),
         Tables(t, {w \in s.rows : ~Covers(root.path, w.path)},
                {v \in s.versions : ~Covers(root.path, v.path)})
  PROVE  t = FP!Purged(s, {root})
<1> USE DEF Tables
<1> DEFINE n == FP!Purged(s, {root})
<1>1. FP!StoreInv(s) /\ FP!Stored(s) /\ FP!Attached(s) /\ FP!Apart(s.rows) /\ FP!LikeIsExact
      /\ FP!TrashInv(s.rows)
  BY SamePaths DEF Sound, MarksInv
<1>2. {root} \in SUBSET s.rows /\ \A g \in {root} : FP!IsPlace(g.path)
  BY <1>1 DEF TrashRoots, FP!TrashInv, FP!IsPlace, FP!StoreInv, FP!RowsInv
<1>3. FP!StoreInv(n) /\ FP!Stored(n)
  BY <1>1, <1>2, Assumed, FP!PurgedInv, FP!PurgedStored
<1>4. n.rows = t.rows /\ n.versions = t.versions
  BY SamePaths DEF FP!Purged, FP!CoveredBy
<1>5. FP!StoreInv(t) /\ FP!Stored(t)
  BY DEF Sound
<1> QED
  BY <1>3, <1>4, <1>5, SameTables

\* The version row that a snapshot adds, and a roll back.
LEMMA Snapshots ==
  ASSUME NEW s, Sound(s), NEW p, IsFile(s, p), NEW ref
  PROVE  /\ FileOn(s.disk, p) # {}
         /\ FP!Snapshot(s, p, ref).versions
              = s.versions \cup {[path |-> p, no |-> NextNo(s, p), sum |-> RowAt(s, p).sum, ref |-> ref]}
<1>1. FP!StoreInv(s) /\ FP!Stored(s) /\ FP!Apart(s.rows) /\ FP!Live(s, p) /\ FP!IsFile(s, p)
  BY SameQueries DEF Sound, IsFile, Live
<1>2. FP!RowAt(s, p) \in s.rows /\ FP!RowAt(s, p).path = p /\ ~FP!RowAt(s, p).dir
  BY <1>1, Assumed, FP!RowAtLive
<1>3. FP!FileOn(s.disk, p) # {}
  BY <1>1, <1>2, Assumed, FP!OneFileOnDisk
<1>4. s \in StoreType
  BY <1>1, SameTypes DEF FP!StoreInv
<1>5. FP!FileOn(s.disk, p) = FileOn(s.disk, p)
  BY SameDisk, SameQueries DEF FP!FileOn, FileOn
<1>6. FP!Snapshot(s, p, ref).versions
        = s.versions \cup {[path |-> p, no |-> FP!NextNo(s, p), sum |-> FP!RowAt(s, p).sum, ref |-> ref]}
  BY <1>1, <1>3, <1>4, StoreParts DEF FP!Snapshot
<1> QED
  BY <1>3, <1>5, <1>6, SameQueries

LEMMA RollsBack ==
  ASSUME LikeIsExact, NEW s, Sound(s), NEW t, Sound(t), NEW p, IsFile(s, p), NEW v \in VersionsAt(s, p),
         NEW ref \in Refs, \A e \in s.disk : e.path # Blob(ref),
         Tables(t, Rehashed(s.rows, p, v.sum), FP!Snapshot(s, p, ref).versions)
  PROVE  t = FP!RolledBack(FP!Snapshot(s, p, ref), p, v)
<1> USE DEF Tables
<1> DEFINE m == FP!Snapshot(s, p, ref)
           n == FP!RolledBack(m, p, v)
<1>1. /\ FP!StoreInv(s) /\ FP!Stored(s) /\ FP!Attached(s) /\ FP!Apart(s.rows) /\ FP!LikeIsExact
      /\ FP!Live(s, p) /\ FP!IsFile(s, p) /\ \A e \in s.disk : e.path # FP!Blob(ref)
  BY SamePaths, SameQueries, SameDisk DEF Sound, IsFile, Live
<1>2. /\ FP!RowAt(s, p) \in s.rows /\ FP!RowAt(s, p).path = p /\ ~FP!RowAt(s, p).dir
      /\ p \in FP!Path /\ Len(p) >= 1
  BY <1>1, Assumed, FP!RowAtLive
<1>3. /\ FP!StoreInv(m) /\ FP!Stored(m) /\ FP!Attached(m) /\ m.rows = s.rows
  BY <1>1, Assumed, FP!SnapshotInv, FP!SnapshotStored
<1>4. v \in m.versions /\ v \in FP!VersionType
  <2>1. v \in s.versions
    BY DEF VersionsAt
  <2>2. v \in m.versions
    BY <2>1, Snapshots
  <2> QED
    BY <1>3, <2>2 DEF FP!StoreInv, FP!VersionsInv
<1>5. FP!Apart(m.rows)
  BY <1>1, <1>3
<1> HIDE DEF m
<1>6. FP!FileOn(m.disk, FP!Blob(v.ref)) # {}
  BY <1>3, <1>4, <1>5, Assumed, FP!OneBlobOnDisk
<1>7. FP!StoreInv(n)
  BY <1>2, <1>3, <1>4, <1>6, Assumed, FP!RolledBackInv
<1>8. FP!Stored(n)
  <2>1. FP!RowAt(s, p) \in m.rows
    BY <1>2, <1>3
  <2>2. FP!Stored(FP!RolledBack(m, FP!RowAt(s, p).path, v))
    BY <1>2, <1>3, <1>4, <1>5, <2>1, Assumed, FP!RolledBackStored
  <2> QED
    BY <1>2, <2>2
<1>9. n.rows = Rehashed(m.rows, p, v.sum) /\ n.versions = m.versions
  <2>1. m \in StoreType
    BY <1>3, SameTypes DEF FP!StoreInv
  <2> QED
    BY <2>1, StoreParts, SameRows DEF FP!RolledBack
<1>10. FP!StoreInv(t) /\ FP!Stored(t) /\ t.versions = m.versions
  BY DEF Sound, m
<1> QED
  BY <1>3, <1>7, <1>8, <1>9, <1>10, SameTables DEF m

(***************************************************************************)
(* The handler at work, followed from the store it found.                  *)
(***************************************************************************)

\* s has the tables of b after the relocation that x asks for.
HasMoved(b, s, x) ==
  LET rows == RelocateRows(b.rows, x.path, x.dest, x.dir)
  IN  /\ s.rows = CASE x.op = "delete"  -> Stamped(rows, x.dest, x.path)
                    [] x.op = "restore" -> Unstamped(rows, x.dest)
                    [] OTHER            -> rows
      /\ s.versions = RelocateVersions(b.versions, x.path, x.dest, x.dir)

\* The labels of the steps that change a table.
RowWriters == {"delete_row", "insert_row", "insert_first", "update_checksum", "commit"}
VersionWriters == {"insert_version", "delete_versions", "commit"}

\* What a step that goes on leaves in the tables.
LEMMA TablesBecome ==
  ASSUME IInv, NEW r \in Requests, Step(r), req'[r].status # "failed"
  PROVE  LET x == req[r]
             p == x.path
             folder == x.op = "folder"
         IN  /\ At(r, "insert_first") =>
                  store'.rows = store.rows \cup {NewRow(p, folder, IF folder THEN NoSum ELSE r, x.node)}
             /\ At(r, "update_checksum") => \E v \in x.found : store'.rows = Rehashed(store.rows, p, v.sum)
             /\ At(r, "delete_versions") =>
                  store'.versions = {v \in store.versions : ~Covers(p, v.path)}
             /\ At(r, "commit") => HasMoved(store, store', x)
             /\ (\A label \in RowWriters : ~At(r, label)) => store'.rows = store.rows
             /\ (\A label \in VersionWriters : ~At(r, label)) => store'.versions = store.versions
<1> DEFINE x == req[r]
           p == x.path
           folder == x.op = "folder"
<1>1. /\ InFlight(r) /\ RequestsInv /\ store \in StoreType /\ ~Fails(r)
  <2>1. InFlight(r) /\ RequestsInv /\ store \in StoreType
    BY StepLabel, SameTypes DEF IInv, FP!StoreInv
  <2>2. x \in RequestType /\ req \in [Requests -> RequestType]
    BY <2>1 DEF RequestsInv
  <2> QED
    BY <2>1, <2>2, Failed
<1>p. /\ \A a : [store EXCEPT !.rows = a].rows = a
      /\ \A a : [store EXCEPT !.versions = a].versions = a
  BY <1>1, StoreParts
<1>2. ASSUME At(r, "insert_first")
      PROVE  store'.rows = store.rows \cup {NewRow(p, folder, IF folder THEN NoSum ELSE r, x.node)}
  <2>1. store' = [store EXCEPT !.rows = store.rows \cup {NewRow(p, folder, IF folder THEN NoSum ELSE r, x.node)}]
    BY <1>1, <1>2, StepLabel, Zenon DEF InsertFirst, Commits, GivesUp, Becomes
  <2> QED
    BY <1>p, <2>1
<1>3. ASSUME At(r, "update_checksum")
      PROVE  \E v \in x.found : store'.rows = Rehashed(store.rows, p, v.sum)
  <2> DEFINE ver == CHOOSE v \in x.found : TRUE
  <2>1. store' = [store EXCEPT !.rows = Rehashed(store.rows, p, ver.sum)]
    BY <1>1, <1>3, StepLabel, Zenon DEF UpdateChecksum, Commits, GivesUp, Becomes
  <2>2. x.op = "version" /\ x.pc = 8 /\ Knows(x, x.pc)
    BY <1>1, <1>3, Where, Positions
  <2>3. ver \in x.found
    BY <2>2 DEF Knows
  <2> HIDE DEF ver
  <2> QED
    BY <1>p, <2>1, <2>3
<1>4. ASSUME At(r, "delete_versions")
      PROVE  store'.versions = {v \in store.versions : ~Covers(p, v.path)}
  <2>1. store' = [store EXCEPT !.versions = {v \in store.versions : ~Covers(p, v.path)}]
    BY <1>1, <1>4, StepLabel, Zenon DEF DeleteVersions, Commits, GivesUp, Becomes
  <2> QED
    BY <1>p, <2>1
<1>5. ASSUME At(r, "commit")
      PROVE  HasMoved(store, store', x)
  <2> DEFINE rows == RelocateRows(store.rows, p, x.dest, x.dir)
             a == CASE x.op = "delete"  -> Stamped(rows, x.dest, p)
                    [] x.op = "restore" -> Unstamped(rows, x.dest)
                    [] OTHER            -> rows
             b == RelocateVersions(store.versions, p, x.dest, x.dir)
  <2>1. store' = [store EXCEPT !.rows = a, !.versions = b]
    BY <1>5, StepLabel DEF Commit
  <2> HIDE DEF a, b
  <2>2. store'.rows = a /\ store'.versions = b
    <3> DEFINE R == SUBSET RowType
               V == SUBSET VersionType
               D == SUBSET EntryType
    <3>1. store \in [rows : R, versions : V, disk : D]
      BY <1>1 DEF StoreType
    <3> HIDE DEF R, V, D
    <3> QED
      BY <2>1, <3>1
  <2> QED
    BY <2>2 DEF HasMoved, a, b
<1>6. RowsChange(r) /\ VersionsChange(r)
  BY StepTables
<1>7. (\A label \in RowWriters : ~At(r, label)) => store'.rows = store.rows
  BY <1>6 DEF RowsChange, RowWriters
<1>8. (\A label \in VersionWriters : ~At(r, label)) => store'.versions = store.versions
  BY <1>6 DEF VersionsChange, VersionWriters
<1> QED
  BY <1>2, <1>3, <1>4, <1>5, <1>7, <1>8

\* A step that only reads leaves the store alone.
LEMMA ReadsOnly ==
  ASSUME NEW r \in Requests, Step(r), NEW label \in Readers, At(r, label)
  PROVE  store' = store
  BY StepLabel DEF Readers, FindSource, FindFile, FindNone, FindParent, FindExisting, FindRoot,
     FindVersion, ReadBack, ReadCurrent, ReadMax, ReadRefs, NoWrite

\* The identity a handler gives to the entry it makes: its own, or the one it found there.
LEMMA NodeKept ==
  ASSUME IInv, NEW r \in Requests, Step(r), req'[r].status # "failed"
  PROVE  LET x == req[r]
             y == req'[r]
         IN  IF At(r, "find_file") \/ (At(r, "find_existing") /\ y.pc = x.pc + 1)
             THEN IsFile(store, x.path) /\ y.node = RowAt(store, x.path).node
             ELSE y.node = x.node
<1> DEFINE x == req[r]
           y == req'[r]
<1>1. req \in [Requests -> RequestType] /\ x \in RequestType /\ FP!StoreInv(store)
      /\ InFlight(r) /\ store.rows \subseteq RowType
  BY StepLabel, SameTypes DEF IInv, RequestsInv, FP!StoreInv, FP!RowsInv
<1>2. ~Fails(r) /\ x.pc \in Nat
  BY <1>1, Failed DEF RequestType
<1>3. \A n \in Nat : Resume(r, x, n) => y.node = x.node
  <2> SUFFICES ASSUME NEW n \in Nat, Resume(r, x, n) PROVE y.node = x.node
    OBVIOUS
  <2> QED
    BY <1>1, Resumed
<1>4. Goes(r) => y.node = x.node
  BY <1>3 DEF Goes
<1>5. ASSUME NEW z, z.node = x.node, DOMAIN z = DOMAIN x, z = [z EXCEPT !.pc = @], Learns(r, z)
      PROVE  y.node = x.node
  <2>1. PICK b : req'[r] = [z EXCEPT !.pc = z.pc + 1, !.status = b]
    BY <1>1, <1>5 DEF Learns, Resume
  <2> QED
    BY <1>5, <2>1
<1>6. ASSUME NEW a, Learns(r, [x EXCEPT !.dir = a]) \/ Learns(r, [x EXCEPT !.sum = a])
                    \/ Learns(r, [x EXCEPT !.max = a]) \/ Learns(r, [x EXCEPT !.found = a])
      PROVE  y.node = x.node
  BY <1>1, <1>5, <1>6 DEF RequestType
<1>7. ASSUME NEW a, NEW b, Learns(r, [x EXCEPT !.dir = a, !.dest = b])
      PROVE  y.node = x.node
  BY <1>1, <1>5, <1>7 DEF RequestType
<1>8. ASSUME NEW w \in RowType, Learns(r, [x EXCEPT !.node = w.node])
      PROVE  y.node = w.node /\ y.pc = x.pc + 1
  <2> DEFINE z == [x EXCEPT !.node = w.node]
  <2>1. z \in RequestType /\ z.node = w.node /\ z.pc = x.pc
    BY <1>1 DEF RequestType, RowType
  <2> HIDE DEF z
  <2>2. Resume(r, z, 1)
    BY <1>8 DEF Learns, z
  <2> QED
    BY <1>1, <2>1, <2>2, Resumed
<1>9. CASE FindFile(r)
  <2>1. CASE IsFile(store, x.path)
    <3>1. RowAt(store, x.path) \in RowType
      BY <1>1, <2>1 DEF IsFile, RowAt
    <3>2. Learns(r, [x EXCEPT !.node = RowAt(store, x.path).node])
      BY <1>9, <2>1 DEF FindFile
    <3> QED
      BY <1>8, <1>9, <2>1, <3>1, <3>2 DEF FindFile
  <2> QED
    BY <1>2, <1>9, <2>1 DEF FindFile
<1>10. CASE FindExisting(r)
  <2>1. CASE IsFile(store, x.path) /\ Learns(r, [x EXCEPT !.node = RowAt(store, x.path).node])
    <3>1. RowAt(store, x.path) \in RowType
      BY <1>1, <2>1 DEF IsFile, RowAt
    <3> QED
      BY <1>8, <1>10, <2>1, <3>1 DEF FindExisting
  <2>2. CASE Resume(r, x, 7)
    <3>1. y.pc = x.pc + 7 /\ y.node = x.node /\ ~At(r, "find_file")
      BY <1>1, <1>10, <2>2, Resumed DEF FindExisting, At
    <3> QED
      BY <1>2, <3>1
  <2> QED
    BY <1>2, <1>10, <2>1, <2>2 DEF FindExisting
<1>11. CASE FindRoot(r)
  <2>1. Fails(r) \/ \E a, b : Learns(r, [x EXCEPT !.dir = a, !.dest = b])
    BY <1>11, Zenon DEF FindRoot
  <2> QED
    BY <1>2, <1>7, <1>11, <2>1 DEF FindRoot, At
<1>12. CASE \/ FindSource(r) \/ FindVersion(r) \/ ReadCurrent(r) \/ ReadMax(r) \/ ReadRefs(r)
  <2>1. \/ Fails(r) \/ Resume(r, x, 4)
        \/ \E a : Learns(r, [x EXCEPT !.dir = a]) \/ Learns(r, [x EXCEPT !.sum = a])
                    \/ Learns(r, [x EXCEPT !.max = a]) \/ Learns(r, [x EXCEPT !.found = a])
    BY <1>12, Zenon DEF FindSource, FindVersion, ReadCurrent, ReadMax, ReadRefs
  <2>2. ~At(r, "find_file") /\ ~At(r, "find_existing")
    BY <1>12 DEF FindSource, FindVersion, ReadCurrent, ReadMax, ReadRefs, At
  <2> QED
    BY <1>2, <1>3, <1>6, <2>1, <2>2
<1>13. CASE \/ FindNone(r) \/ FindParent(r) \/ ReadBack(r) \/ CopyBlob(r) \/ InsertVersion(r)
            \/ DeleteRow(r) \/ RemoveBytes(r) \/ RemoveTree(r)
            \/ MakeUploadParents(r) \/ Stream(r) \/ Replace(r) \/ Adopt(r) \/ InsertRow(r)
            \/ InsertFirst(r) \/ WriteBytes(r) \/ MakeDirectory(r) \/ RenameOnDisk(r) \/ Commit(r)
            \/ DeleteVersions(r) \/ RemoveBlobs(r) \/ CopyBack(r) \/ UpdateChecksum(r)
  <2>1. Fails(r) \/ Goes(r) \/ Resume(r, x, 3)
    BY <1>13, Zenon DEF FindNone, FindParent, ReadBack, CopyBlob, InsertVersion,
       DeleteRow, RemoveBytes, RemoveTree, MakeUploadParents, Stream, Replace, Adopt, InsertRow,
       InsertFirst, WriteBytes, MakeDirectory, RenameOnDisk, Commit, DeleteVersions, RemoveBlobs,
       CopyBack, UpdateChecksum, Commits, GivesUp
  <2>2. ~At(r, "find_file") /\ ~At(r, "find_existing")
    BY <1>13 DEF FindNone, FindParent, ReadBack, CopyBlob, InsertVersion,
       DeleteRow, RemoveBytes, RemoveTree, MakeUploadParents, Stream, Replace, Adopt, InsertRow,
       InsertFirst, WriteBytes, MakeDirectory, RenameOnDisk, Commit, DeleteVersions, RemoveBlobs,
       CopyBack, UpdateChecksum, At
  <2> QED
    BY <1>2, <1>3, <1>4, <2>1, <2>2
<1> QED
  BY <1>9, <1>10, <1>11, <1>12, <1>13 DEF Step

Alone(r) == \A o \in Requests \ {r} : ~InFlight(o)

\* A handler alone is never made to wait for a transaction, and overlaps no other.
LEMMA NoWaiting ==
  ASSUME IInv, NEW r \in Requests, Step(r), Alone(r), ~overlap, ~faults
  PROVE  ~overlap' /\ ~faults'
<1>1. RequestsInv /\ LockInv /\ overlap = FALSE /\ faults = FALSE /\ InFlight(r)
  BY StepLabel DEF IInv
<1>2. ~At(r, "commit") => lock = NoOne
  <2> SUFFICES ASSUME lock # NoOne PROVE At(r, "commit")
    OBVIOUS
  <2>1. lock \in Requests /\ InFlight(lock) /\ Committing(req[lock].op, req[lock].pc)
    BY <1>1 DEF LockInv
  <2>2. lock = r
    BY <2>1 DEF Alone
  <2> DEFINE op == req[r].op
             pc == req[r].pc
  <2>3. op \in Ops /\ pc \in 1 .. Len(Plan(op)) /\ Committing(op, pc)
    BY <1>1, <2>1, <2>2 DEF RequestsInv, Knows
  <2>4. Plan(op)[pc] = "commit"
    <3> HIDE DEF op, pc
    <3> QED
      BY <2>3, Positions DEF Committing
  <2> QED
    BY <1>1, <2>4 DEF At
<1>3. \A x : ~Crosses(r, x)
  BY DEF Crosses, Alone
<1>4. CASE Commit(r)
  BY <1>1, <1>4 DEF Commit
<1>5. CASE FindRoot(r)
  BY <1>1, <1>3, <1>5 DEF FindRoot
<1>6. ASSUME NEW label, label # "commit", At(r, label), NEW s PROVE ~GivesUp(r, s)
  BY <1>1, <1>2, <1>6, Where DEF GivesUp, At
<1>7. CASE \/ FindSource(r) \/ FindFile(r) \/ FindNone(r) \/ FindParent(r) \/ FindExisting(r)
           \/ FindVersion(r) \/ ReadBack(r) \/ ReadCurrent(r) \/ ReadMax(r) \/ ReadRefs(r)
  BY <1>1, <1>7 DEF FindSource, FindFile, FindNone, FindParent, FindExisting, FindVersion,
     ReadBack, ReadCurrent, ReadMax, ReadRefs, NoWrite
<1>8. CASE \/ CopyBlob(r) \/ RemoveBytes(r) \/ RemoveTree(r) \/ MakeUploadParents(r) \/ Stream(r)
           \/ Replace(r) \/ Adopt(r) \/ WriteBytes(r) \/ MakeDirectory(r) \/ RemoveBlobs(r)
           \/ CopyBack(r)
  BY <1>1, <1>8 DEF CopyBlob, RemoveBytes, RemoveTree, MakeUploadParents, Stream, Replace, Adopt,
     WriteBytes, MakeDirectory, RemoveBlobs, CopyBack, Becomes, NoWrite
<1>9. CASE \/ InsertVersion(r) \/ DeleteRow(r) \/ InsertRow(r) \/ InsertFirst(r)
           \/ RenameOnDisk(r) \/ DeleteVersions(r) \/ UpdateChecksum(r)
  <2>1. \A s : ~GivesUp(r, s)
    BY <1>6, <1>9, Zenon DEF InsertVersion, DeleteRow, InsertRow, InsertFirst, RenameOnDisk,
       DeleteVersions, UpdateChecksum
  <2> QED
    BY <1>1, <1>9, <2>1 DEF InsertVersion, DeleteRow, InsertRow, InsertFirst, RenameOnDisk,
       DeleteVersions, UpdateChecksum, Commits, Becomes, NoWrite
<1> QED
  BY <1>4, <1>5, <1>7, <1>8, <1>9 DEF Step


\* The version row that a snapshot inserts, as the sequential module has it.
LEMMA SnapshotRow ==
  ASSUME Settled, NEW r \in Requests, At(r, "insert_version"), Sound(base), IsFile(base, req[r].path),
         Tables(store, base.rows, base.versions)
  PROVE  store.versions \cup {NewVersion(r)} = FP!Snapshot(base, req[r].path, r).versions
<1> DEFINE x == req[r]
           p == x.path
           w == RowAt(base, p)
<1>1. IInv /\ RequestsInv /\ InFlight(r) /\ Recalls(r) /\ FP!StoreInv(store) /\ r \in Requests
  BY DEF Settled, Calm, MarksIInv, IInv, At
<1>2. x.max + 1 = NextNo(base, p)
  <2>1. x.max = NextNo(store, p) - 1
    BY <1>1 DEF Recalls
  <2>2. NextNo(store, p) \in Nat
    <3>1. FP!NextNo(store, p) \in Nat \ {0}
      BY <1>1, Assumed, FP!NextNoType
    <3> QED
      BY <3>1, SameQueries
  <2>3. NextNo(store, p) = NextNo(base, p)
    BY DEF NextNo, VersionsAt, Tables
  <2> QED
    BY <2>1, <2>2, <2>3
<1>3. x.sum = w.sum
  <2>1. Snapping(x.op, x.pc)
    <3>1. x.op \in Ops /\ x.pc \in 1 .. Len(Plan(x.op)) /\ Plan(x.op)[x.pc] = "insert_version"
      BY <1>1 DEF RequestsInv, Knows, At
    <3> HIDE DEF x
    <3> QED
      BY <3>1, Positions DEF Snapping
  <2>2. PICK t \in base.rows : t.path = p /\ Data(t) = x.sum
    BY <1>1, <2>1 DEF Recalls, Says, Tables
  <2>3. PICK f \in base.rows : f.path = p /\ ~f.dir
    BY DEF IsFile
  <2>4. w \in base.rows /\ w.path = p
    BY <2>2 DEF RowAt
  <2>5. FP!KeysUnique(base.rows)
    BY DEF Sound, FP!StoreInv, FP!RowsInv
  <2>6. t = w /\ f = w
    BY <2>2, <2>3, <2>4, <2>5 DEF FP!KeysUnique
  <2> QED
    BY <2>2, <2>3, <2>6 DEF Data
<1> QED
  BY <1>2, <1>3, Snapshots DEF NewVersion, Tables

(* An upload that has come to x.pc: what it read of the store it found, and*)
(* the tables it has left so far.                                          *)
UploadAt(b, s, x, r) ==
  LET p == x.path
      n == x.pc
      file == IsFile(b, p) /\ x.node = RowAt(b, p).node
      older == FP!Snapshot(b, p, r).versions
  IN  /\ n \in 1 .. 2 => x.node = r
      /\ n \in 1 .. 4 => s = b
      /\ n \in 2 .. 12 => IsFolder(b, ParentOf(p))
      /\ n \in 3 .. 8 => file
      /\ n \in 5 .. 6 => Tables(s, b.rows, b.versions)
      /\ n = 7 => Tables(s, b.rows, older)
      /\ n = 8 => Tables(s, Rest(b, p), older)
      /\ n \in 9 .. 12 => \/ file /\ Tables(s, Rest(b, p), older)
                          \/ ~Live(b, p) /\ x.node = r /\ Tables(s, b.rows, b.versions)

\* What it has done in the end.
Uploaded(b, s, x, r) ==
  LET p == x.path
  IN  \/ /\ IsFile(b, p)
         /\ Tables(s, Rest(b, p) \cup {NewRow(p, FALSE, r, RowAt(b, p).node)},
                   FP!Snapshot(b, p, r).versions)
      \/ /\ ~Live(b, p) /\ IsFolder(b, ParentOf(p))
         /\ Tables(s, b.rows \cup {NewRow(p, FALSE, r, r)}, b.versions)

\* Where the steps of an upload lie, and how far each one leads.
LEMMA UploadLabels ==
  ASSUME RequestsInv, NEW r \in Requests, InFlight(r), req[r].op \in {"upload", "chunked"}
  PROVE  LET n == req[r].pc
         IN  /\ n \in 1 .. 12
             /\ n = 1 <=> At(r, "find_parent")
             /\ n = 2 <=> At(r, "find_existing")
             /\ n = 3 <=> At(r, "read_current")
             /\ n = 4 <=> At(r, "copy_blob")
             /\ n = 5 <=> At(r, "read_max")
             /\ n = 6 <=> At(r, "insert_version")
             /\ n = 7 <=> At(r, "delete_row")
             /\ At(r, "insert_row") => n \in 10 .. 12
             /\ \A L \in Readers \cup {"insert_first", "rename_on_disk"} : At(r, L) => n \in {1, 2, 3, 5}
             /\ \A L \in {"insert_first", "update_checksum", "commit", "delete_versions"} : ~At(r, L)
<1> DEFINE op == req[r].op
           n == req[r].pc
<1>1. op \in Ops /\ n \in 1 .. Len(Plan(op)) /\ op \in {"upload", "chunked"}
  BY DEF RequestsInv, Knows
<1>2. \A L : At(r, L) <=> Plan(op)[n] = L
  BY DEF At
<1> HIDE DEF op, n
<1>3. Len(Plan(op)) \in {10, 12}
  BY <1>1, Positions
<1>4. n \in 1 .. 12
  <2> DEFINE len == Len(Plan(op))
  <2>1. n \in 1 .. len /\ len \in {10, 12}
    BY <1>1, <1>3
  <2> HIDE DEF len
  <2> QED
    BY <2>1
<1>5. /\ n = 1 <=> Plan(op)[n] = "find_parent"
      /\ n = 2 <=> Plan(op)[n] = "find_existing"
      /\ n = 3 <=> Plan(op)[n] = "read_current"
      /\ n = 4 <=> Plan(op)[n] = "copy_blob"
      /\ n = 5 <=> Plan(op)[n] = "read_max"
      /\ n = 6 <=> Plan(op)[n] = "insert_version"
      /\ n = 7 <=> Plan(op)[n] = "delete_row"
      /\ Plan(op)[n] = "insert_row" => n \in 10 .. 12
  BY <1>1, Positions
<1>6. \A L \in Readers \cup {"insert_first", "rename_on_disk"} : Plan(op)[n] = L => n \in {1, 2, 3, 5}
  BY <1>1, Positions DEF Readers
<1>7. \A L \in {"insert_first", "update_checksum", "commit", "delete_versions"} : Plan(op)[n] # L
  BY <1>1, Positions
<1> QED
  BY <1>2, <1>4, <1>5, <1>6, <1>7 DEF n

LEMMA UploadStep ==
  ASSUME LikeIsExact, Settled, NEW r \in Requests, Step(r), ~faults',
         req[r].op \in {"upload", "chunked"}, Sound(base), UploadAt(base, store, req[r], r)
  PROVE  /\ InFlight(r)' => UploadAt(base, store', req'[r], r)
         /\ ~InFlight(r)' => \/ Tables(store', base.rows, base.versions)
                             \/ Uploaded(base, store', req[r], r)
<1> DEFINE x == req[r]
           y == req'[r]
           p == x.path
           n == x.pc
           file == IsFile(base, p) /\ x.node = RowAt(base, p).node
           older == FP!Snapshot(base, p, r).versions
<1>1. /\ IInv /\ RequestsInv /\ SidesInv /\ InFlight(r) /\ n \in 1 .. 12
  BY StepLabel, UploadLabels DEF Settled, Calm, MarksIInv, IInv
<1>2. /\ n \in 1 .. 2 => x.node = r
      /\ n \in 1 .. 4 => store = base
      /\ n \in 2 .. 12 => IsFolder(base, ParentOf(p))
      /\ n \in 3 .. 8 => file
      /\ n \in 5 .. 6 => Tables(store, base.rows, base.versions)
      /\ n = 7 => Tables(store, base.rows, older)
      /\ n = 8 => Tables(store, Rest(base, p), older)
      /\ n \in 9 .. 12 => \/ file /\ Tables(store, Rest(base, p), older)
                          \/ ~Live(base, p) /\ x.node = r /\ Tables(store, base.rows, base.versions)
  BY DEF UploadAt
<1>3. CASE y.status = "failed"
  <2>1. n \in {1, 2, 3, 5} /\ store' = store
    <3>1. store' = store /\ \E L \in Readers \cup {"insert_first", "rename_on_disk"} : At(r, L)
      BY <1>3, Refused
    <3> QED
      BY <1>1, <3>1, UploadLabels
  <2>2. Tables(store', base.rows, base.versions)
    BY <1>2, <2>1 DEF Tables
  <2> QED
    BY <1>3, <2>2 DEF InFlight
<1>4. CASE y.status # "failed"
  <2>1. /\ Did(r)
        /\ At(r, "insert_version") => store'.versions = store.versions \cup {NewVersion(r)}
        /\ At(r, "delete_row") => store'.rows = Rest(store, p)
        /\ At(r, "insert_row") => store'.rows = store.rows \cup {NewRow(p, FALSE, r, x.node)}
        /\ ~At(r, "delete_row") /\ ~At(r, "insert_row") => store'.rows = store.rows
        /\ ~At(r, "insert_version") => store'.versions = store.versions
    <3>1. Did(r)
      BY <1>1, <1>4, Outcome
    <3>2. /\ (\A L \in RowWriters : ~At(r, L)) => store'.rows = store.rows
          /\ (\A L \in VersionWriters : ~At(r, L)) => store'.versions = store.versions
      BY <1>1, <1>4, TablesBecome
    <3>3. \A L \in {"insert_first", "update_checksum", "commit", "delete_versions"} : ~At(r, L)
      BY <1>1, UploadLabels
    <3> QED
      BY <3>1, <3>2, <3>3 DEF Did, RowWriters, VersionWriters, Rest
  <2>2. PICK k \in {1, 3, 4, 7} : Skips(r, k) /\ y.pc = n + k
    BY <1>1, <1>4, StepFields
  <2>3. /\ n = 1 <=> At(r, "find_parent")
        /\ n = 2 <=> At(r, "find_existing")
        /\ n = 3 <=> At(r, "read_current")
        /\ n = 4 <=> At(r, "copy_blob")
        /\ n = 6 <=> At(r, "insert_version")
        /\ n = 7 <=> At(r, "delete_row")
        /\ At(r, "insert_row") => n \in 10 .. 12
        /\ n \in {1, 2, 3, 5} => store' = store
    <3>1. /\ n = 1 <=> At(r, "find_parent")
          /\ n = 2 <=> At(r, "find_existing")
          /\ n = 3 <=> At(r, "read_current")
          /\ n = 4 <=> At(r, "copy_blob")
          /\ n = 5 <=> At(r, "read_max")
          /\ n = 6 <=> At(r, "insert_version")
          /\ n = 7 <=> At(r, "delete_row")
          /\ At(r, "insert_row") => n \in 10 .. 12
      BY <1>1, UploadLabels
    <3>2. \A L \in Readers : At(r, L) => store' = store
      BY ReadsOnly
    <3> QED
      BY <3>1, <3>2 DEF Readers
  <2>4. /\ y.op = x.op /\ y.path = p
        /\ n # 2 \/ y.pc # 3 => y.node = x.node
        /\ n = 2 /\ y.pc = 3 => y.node = RowAt(store, p).node
    <3>1. y.op = x.op /\ y.path = p
      BY <1>1, StepFields
    <3>2. ~At(r, "find_file")
      BY <1>1, Where, Positions
    <3> QED
      BY <1>1, <1>4, <2>3, <3>1, <3>2, NodeKept
  <2>5. k \in {1, 7} /\ (k = 7 => n = 2)
    <3>1. k # 4
      <4> SUFFICES ASSUME k = 4 PROVE FALSE
        OBVIOUS
      <4>1. n = 3 /\ store = base /\ file
        BY <1>2, <2>2, <2>3 DEF Skips
      <4>2. y.pc - n # 4
        BY <2>1, <2>3, <4>1 DEF Did
      <4> QED
        BY <2>2, <4>1, <4>2
    <3>2. k # 3
      <4> SUFFICES ASSUME k = 3 PROVE FALSE
        OBVIOUS
      <4>1. n = 4 /\ store = base /\ file
        BY <1>2, <2>2, <2>3 DEF Skips
      <4>2. FileOn(store.disk, p) # {}
        BY <4>1, Snapshots
      <4>3. y.pc - n = 1
        BY <2>1, <2>3, <4>1, <4>2 DEF Did
      <4> QED
        BY <2>2, <4>1, <4>3
    <3> QED
      BY <2>2, <2>3, <3>1, <3>2 DEF Skips
  <2>6. ASSUME InFlight(r)' PROVE UploadAt(base, store', y, r)
    <3>1. CASE n = 1
      <4>1. x.dest = p
        BY <1>1 DEF SidesInv, Sided
      <4>2. FP!FolderAt(store.rows, ParentOf(x.dest))
        BY <1>1, <2>3, <2>6, <3>1, FoundParent
      <4>3. IsFolder(base, ParentOf(p))
        BY <1>2, <3>1, <4>1, <4>2, SameTypes DEF FP!FolderAt, IsFolder
      <4> QED
        BY <1>2, <2>2, <2>3, <2>4, <2>5, <3>1, <4>3 DEF UploadAt
    <3>2. CASE n = 2
      <4>1. (y.pc = 3 /\ IsFile(store, p)) \/ (y.pc = 9 /\ ~Live(store, p))
        <5>1. (y.pc - n = 1 /\ IsFile(store, p)) \/ (y.pc - n = 7 /\ ~Live(store, p))
          BY <2>1, <2>3, <3>2 DEF Did
        <5> QED
          BY <2>2, <2>5, <3>2, <5>1
      <4>2. CASE y.pc = 9
        <5>1. /\ ~Live(base, p) /\ IsFolder(base, ParentOf(p)) /\ store' = base
              /\ y.node = r
          BY <1>2, <2>3, <2>4, <3>2, <4>1, <4>2
        <5> QED
          BY <2>4, <4>2, <5>1 DEF UploadAt, Tables
      <4>3. CASE y.pc = 3
        <5>1. IsFile(base, p) /\ IsFolder(base, ParentOf(p)) /\ store' = base
          BY <1>2, <2>3, <3>2, <4>1, <4>3
        <5>2. y.node = RowAt(base, p).node
          BY <1>2, <2>3, <2>4, <3>2, <4>3, <5>1
        <5> QED
          BY <2>4, <4>3, <5>1, <5>2 DEF UploadAt
      <4> QED
        BY <4>1, <4>2, <4>3
    <3>3. CASE n \in 3 .. 5
      <4>1. y.pc = n + 1 /\ y.node = x.node
        BY <2>2, <2>4, <2>5, <3>3
      <4>2. Tables(store', base.rows, base.versions) /\ (n = 3 => store' = base)
        BY <1>2, <2>1, <2>3, <3>3 DEF Tables
      <4> QED
        BY <1>2, <2>4, <3>3, <4>1, <4>2 DEF UploadAt
    <3>4. CASE n = 6
      <4>1. store.versions \cup {NewVersion(r)} = older
        BY <1>2, <2>3, <3>4, SnapshotRow
      <4>2. Tables(store', base.rows, older)
        BY <1>2, <2>1, <2>3, <3>4, <4>1 DEF Tables
      <4> QED
        BY <1>2, <2>2, <2>4, <2>5, <3>4, <4>2 DEF UploadAt
    <3>5. CASE n = 7
      <4>1. Tables(store', Rest(base, p), older)
        BY <1>2, <2>1, <2>3, <3>5 DEF Tables, Rest
      <4> QED
        BY <1>2, <2>2, <2>4, <2>5, <3>5, <4>1 DEF UploadAt
    <3>6. CASE n \in 8 .. 12
      <4>1. ~At(r, "insert_row")
        <5> SUFFICES ASSUME At(r, "insert_row") PROVE FALSE
          OBVIOUS
        <5>1. x.pc \in 1 .. Len(Plan(x.op)) /\ x.op \in Ops /\ Plan(x.op)[x.pc] = "insert_row"
          BY <1>1 DEF RequestsInv, Knows, At
        <5>2. y.pc \in 1 .. Len(Plan(x.op))
          BY <1>1, <2>4, <2>6, RequestsStep DEF RequestsInv
        <5>3. x.pc = Len(Plan(x.op))
          <6> DEFINE op == x.op
          <6> HIDE DEF op, n
          <6> QED
            BY <5>1, Positions DEF op, n
        <5> DEFINE len == Len(Plan(x.op))
        <5>4. y.pc = n + 1 /\ n = len /\ y.pc \in 1 .. len
          BY <2>2, <2>5, <3>6, <5>2, <5>3
        <5> HIDE DEF len
        <5> QED
          BY <3>6, <5>4
      <4>2. store'.rows = store.rows /\ store'.versions = store.versions
        BY <2>1, <2>3, <3>6, <4>1
      <4>3. y.pc = n + 1 /\ y.node = x.node
        BY <2>2, <2>4, <2>5, <3>6
      <4>4. y.pc \in 9 .. 12 \/ y.pc = 13
        BY <3>6, <4>3
      <4>5. \/ file /\ Tables(store', Rest(base, p), older)
            \/ ~Live(base, p) /\ x.node = r /\ Tables(store', base.rows, base.versions)
        BY <1>2, <3>6, <4>2 DEF Tables
      <4> QED
        BY <1>2, <2>4, <3>6, <4>3, <4>4, <4>5 DEF UploadAt
    <3> QED
      BY <1>1, <3>1, <3>2, <3>3, <3>4, <3>5, <3>6
  <2>7. ASSUME ~InFlight(r)' PROVE Uploaded(base, store', x, r)
    <3>1. y.status = "ok"
      BY <1>1, <1>4, <2>7, StepFields DEF InFlight
    <3>2. At(r, "insert_row")
      BY <1>1, <3>1, LastStep
    <3>3. \/ file /\ Tables(store, Rest(base, p), older)
          \/ ~Live(base, p) /\ x.node = r /\ Tables(store, base.rows, base.versions)
      BY <1>2, <2>3, <3>2
    <3>4. /\ store'.rows = store.rows \cup {NewRow(p, FALSE, r, x.node)}
          /\ store'.versions = store.versions /\ IsFolder(base, ParentOf(p))
      <4>1. n \in 10 .. 12 /\ ~At(r, "insert_version")
        BY <2>3, <3>2
      <4>2. store'.versions = store.versions
        BY <2>1, <4>1
      <4>3. store'.rows = store.rows \cup {NewRow(p, FALSE, r, x.node)}
        BY <2>1, <3>2
      <4>4. IsFolder(base, ParentOf(p))
        BY <1>2, <4>1
      <4> QED
        BY <4>2, <4>3, <4>4
    <3>5. CASE file /\ Tables(store, Rest(base, p), older)
      BY <3>4, <3>5 DEF Uploaded, Tables
    <3>6. CASE ~Live(base, p) /\ x.node = r /\ Tables(store, base.rows, base.versions)
      BY <3>4, <3>6 DEF Uploaded, Tables
    <3> QED
      BY <3>3, <3>5, <3>6
  <2> QED
    BY <2>6, <2>7
<1> QED
  BY <1>3, <1>4

(* The same for a save, which always replaces a file.                      *)
SaveAt(b, s, x, r) ==
  LET p == x.path
      n == x.pc
      older == FP!Snapshot(b, p, r).versions
  IN  /\ n \in 1 .. 3 => s = b
      /\ n \in 2 .. 9 => IsFile(b, p) /\ x.node = RowAt(b, p).node
      /\ n \in 4 .. 5 => Tables(s, b.rows, b.versions)
      /\ n = 6 => Tables(s, b.rows, older)
      /\ n \in 7 .. 8 => Tables(s, Rest(b, p), older)
      /\ n = 9 => Tables(s, Rest(b, p) \cup {NewRow(p, FALSE, r, x.node)}, older)
Saved(b, s, x, r) ==
  LET p == x.path
  IN  /\ IsFile(b, p)
      /\ Tables(s, Rest(b, p) \cup {NewRow(p, FALSE, r, RowAt(b, p).node)},
                FP!Snapshot(b, p, r).versions)

LEMMA SaveLabels ==
  ASSUME RequestsInv, NEW r \in Requests, InFlight(r), req[r].op = "save"
  PROVE  LET n == req[r].pc
         IN  /\ n \in 1 .. 9
             /\ n = 1 <=> At(r, "find_file")
             /\ n = 2 <=> At(r, "read_current")
             /\ n = 3 <=> At(r, "copy_blob")
             /\ n = 4 <=> At(r, "read_max")
             /\ n = 5 <=> At(r, "insert_version")
             /\ n = 6 <=> At(r, "delete_row")
             /\ n = 8 <=> At(r, "insert_first")
             /\ n = 9 <=> At(r, "write_bytes")
             /\ \A L \in Readers \cup {"insert_first", "rename_on_disk"} : At(r, L) => n \in {1, 2, 4, 8}
             /\ \A L \in {"insert_row", "update_checksum", "commit", "delete_versions",
                          "find_existing"} : ~At(r, L)
<1> DEFINE op == req[r].op
           n == req[r].pc
<1>1. op \in Ops /\ n \in 1 .. Len(Plan(op)) /\ op = "save"
  BY DEF RequestsInv, Knows
<1>2. \A L : At(r, L) <=> Plan(op)[n] = L
  BY DEF At
<1> HIDE DEF op, n
<1>3. Len(Plan(op)) = 9
  BY <1>1, Positions
<1>4. n \in 1 .. 9
  <2> DEFINE len == Len(Plan(op))
  <2>1. n \in 1 .. len /\ len = 9
    BY <1>1, <1>3
  <2> HIDE DEF len
  <2> QED
    BY <2>1
<1>5. /\ n = 1 <=> Plan(op)[n] = "find_file"
      /\ n = 2 <=> Plan(op)[n] = "read_current"
      /\ n = 3 <=> Plan(op)[n] = "copy_blob"
      /\ n = 4 <=> Plan(op)[n] = "read_max"
      /\ n = 5 <=> Plan(op)[n] = "insert_version"
      /\ n = 6 <=> Plan(op)[n] = "delete_row"
      /\ n = 8 <=> Plan(op)[n] = "insert_first"
      /\ n = 9 <=> Plan(op)[n] = "write_bytes"
  BY <1>1, Positions
<1>6. \A L \in Readers \cup {"insert_first", "rename_on_disk"} : Plan(op)[n] = L => n \in {1, 2, 4, 8}
  BY <1>1, Positions DEF Readers
<1>7. \A L \in {"insert_row", "update_checksum", "commit", "delete_versions", "find_existing"} :
        Plan(op)[n] # L
  BY <1>1, Positions
<1> QED
  BY <1>2, <1>4, <1>5, <1>6, <1>7 DEF n

LEMMA SaveStep ==
  ASSUME LikeIsExact, Settled, NEW r \in Requests, Step(r), ~faults',
         req[r].op = "save", Sound(base), SaveAt(base, store, req[r], r)
  PROVE  /\ InFlight(r)' => SaveAt(base, store', req'[r], r)
         /\ ~InFlight(r)' => \/ Tables(store', base.rows, base.versions)
                             \/ Saved(base, store', req[r], r)
<1> DEFINE x == req[r]
           y == req'[r]
           p == x.path
           n == x.pc
           file == IsFile(base, p) /\ x.node = RowAt(base, p).node
           older == FP!Snapshot(base, p, r).versions
           row == NewRow(p, FALSE, r, x.node)
<1>1. /\ IInv /\ RequestsInv /\ SidesInv /\ InFlight(r) /\ n \in 1 .. 9
  BY StepLabel, SaveLabels DEF Settled, Calm, MarksIInv, IInv
<1>2. /\ n \in 1 .. 3 => store = base
      /\ n \in 2 .. 9 => file
      /\ n \in 4 .. 5 => Tables(store, base.rows, base.versions)
      /\ n = 6 => Tables(store, base.rows, older)
      /\ n \in 7 .. 8 => Tables(store, Rest(base, p), older)
      /\ n = 9 => Tables(store, Rest(base, p) \cup {row}, older)
  BY DEF SaveAt
<1>3. CASE y.status = "failed"
  <2>1. n \in {1, 2, 4, 8} /\ store' = store
    <3>1. store' = store /\ \E L \in Readers \cup {"insert_first", "rename_on_disk"} : At(r, L)
      BY <1>3, Refused
    <3> QED
      BY <1>1, <3>1, SaveLabels
  <2>2. n # 8
    <3> SUFFICES ASSUME n = 8 PROVE FALSE
      OBVIOUS
    <3>1. InsertFirst(r)
      BY <1>1, SaveLabels, StepLabel
    <3>2. \A s : ~Commits(r, s) /\ ~GivesUp(r, s)
      BY <1>1, <1>3, GoesOn DEF Commits, GivesUp
    <3>3. HasKey(store, p)
      BY <3>1, <3>2 DEF InsertFirst
    <3>4. store.rows = Rest(base, p)
      BY <1>2 DEF Tables
    <3> QED
      BY <3>3, <3>4 DEF HasKey, Rest, Covers
  <2>3. Tables(store', base.rows, base.versions)
    BY <1>2, <2>1, <2>2 DEF Tables
  <2> QED
    BY <1>3, <2>3 DEF InFlight
<1>4. CASE y.status # "failed"
  <2>1. /\ Did(r)
        /\ At(r, "insert_version") => store'.versions = store.versions \cup {NewVersion(r)}
        /\ At(r, "delete_row") => store'.rows = Rest(store, p)
        /\ At(r, "insert_first") => store'.rows = store.rows \cup {row}
        /\ ~At(r, "delete_row") /\ ~At(r, "insert_first") => store'.rows = store.rows
        /\ ~At(r, "insert_version") => store'.versions = store.versions
    <3>1. Did(r)
      BY <1>1, <1>4, Outcome
    <3>2. /\ (\A L \in RowWriters : ~At(r, L)) => store'.rows = store.rows
          /\ (\A L \in VersionWriters : ~At(r, L)) => store'.versions = store.versions
      BY <1>1, <1>4, TablesBecome
    <3>3. \A L \in {"insert_row", "update_checksum", "commit", "delete_versions"} : ~At(r, L)
      BY <1>1, SaveLabels
    <3>4. At(r, "insert_first") => store'.rows = store.rows \cup {row}
      <4>1. At(r, "insert_first") => LET folder == x.op = "folder" IN
              store'.rows = store.rows \cup {NewRow(p, folder, IF folder THEN NoSum ELSE r, x.node)}
        BY <1>1, <1>4, TablesBecome
      <4>2. (x.op = "folder") = FALSE
        OBVIOUS
      <4> QED
        BY <4>1, <4>2
    <3> QED
      BY <3>1, <3>2, <3>3, <3>4 DEF Did, RowWriters, VersionWriters, Rest
  <2>2. PICK k \in {1, 3, 4, 7} : Skips(r, k) /\ y.pc = n + k
    BY <1>1, <1>4, StepFields
  <2>3. /\ n = 1 <=> At(r, "find_file")
        /\ n = 2 <=> At(r, "read_current")
        /\ n = 3 <=> At(r, "copy_blob")
        /\ n = 5 <=> At(r, "insert_version")
        /\ n = 6 <=> At(r, "delete_row")
        /\ n = 8 <=> At(r, "insert_first")
        /\ n = 9 <=> At(r, "write_bytes")
        /\ n \in {1, 2, 4} => store' = store
        /\ ~At(r, "find_existing")
    <3>1. /\ n = 1 <=> At(r, "find_file")
          /\ n = 2 <=> At(r, "read_current")
          /\ n = 3 <=> At(r, "copy_blob")
          /\ n = 4 <=> At(r, "read_max")
          /\ n = 5 <=> At(r, "insert_version")
          /\ n = 6 <=> At(r, "delete_row")
          /\ n = 8 <=> At(r, "insert_first")
          /\ n = 9 <=> At(r, "write_bytes")
          /\ ~At(r, "find_existing")
      BY <1>1, SaveLabels
    <3>2. \A L \in Readers : At(r, L) => store' = store
      BY ReadsOnly
    <3> QED
      BY <3>1, <3>2 DEF Readers
  <2>4. /\ y.op = x.op /\ y.path = p
        /\ n # 1 => y.node = x.node
        /\ n = 1 => IsFile(store, p) /\ y.node = RowAt(store, p).node
    <3>1. y.op = x.op /\ y.path = p
      BY <1>1, StepFields
    <3> QED
      BY <1>1, <1>4, <2>3, <3>1, NodeKept
  <2>5. y.pc = n + 1
    <3>1. k # 4
      <4> SUFFICES ASSUME k = 4 PROVE FALSE
        OBVIOUS
      <4>1. n = 2 /\ store = base /\ file
        BY <1>2, <2>2, <2>3 DEF Skips
      <4>2. y.pc - n # 4
        BY <2>1, <2>3, <4>1 DEF Did
      <4> QED
        BY <2>2, <4>1, <4>2
    <3>2. k # 3
      <4> SUFFICES ASSUME k = 3 PROVE FALSE
        OBVIOUS
      <4>1. n = 3 /\ store = base /\ file
        BY <1>2, <2>2, <2>3 DEF Skips
      <4>2. FileOn(store.disk, p) # {}
        BY <4>1, Snapshots
      <4>3. y.pc - n = 1
        BY <2>1, <2>3, <4>1, <4>2 DEF Did
      <4> QED
        BY <2>2, <4>1, <4>3
    <3> QED
      BY <2>2, <2>3, <3>1, <3>2 DEF Skips
  <2>6. CASE n = 1
    <3>1. store' = base /\ IsFile(base, p) /\ y.node = RowAt(base, p).node /\ y.pc = 2
      BY <1>2, <2>3, <2>4, <2>5, <2>6
    <3>2. SaveAt(base, store', y, r) /\ y.status # "ok"
      BY <1>1, <2>3, <2>4, <2>6, <3>1, LastStep DEF SaveAt
    <3> QED
      BY <1>1, <1>4, <3>2, StepFields DEF InFlight
  <2>7. CASE n \in 2 .. 9
    <3>1. file /\ y.node = x.node /\ y.op = x.op /\ y.path = p /\ y.pc = n + 1
      BY <1>2, <2>4, <2>5, <2>7
    <3>2. /\ n = 2 => store' = base
          /\ n \in 2 .. 4 => Tables(store', base.rows, base.versions)
          /\ n = 5 => Tables(store', base.rows, older)
          /\ n \in 6 .. 7 => Tables(store', Rest(base, p), older)
          /\ n \in 8 .. 9 => Tables(store', Rest(base, p) \cup {row}, older)
      <4> HIDE DEF row, older
      <4>1. n \in {2, 3, 4, 7, 9} => store'.rows = store.rows /\ store'.versions = store.versions
        BY <2>1, <2>3
      <4>2. n \in 2 .. 4 => (n = 2 => store' = base) /\ Tables(store', base.rows, base.versions)
        BY <1>2, <2>3, <4>1 DEF Tables
      <4>3. n = 5 => Tables(store', base.rows, older)
        <5> SUFFICES ASSUME n = 5 PROVE Tables(store', base.rows, older)
          OBVIOUS
        <5>1. file /\ At(r, "insert_version") /\ Tables(store, base.rows, base.versions)
          BY <1>2, <2>3
        <5>2. store.versions \cup {NewVersion(r)} = older
          BY <5>1, SnapshotRow DEF older
        <5>3. store'.rows = store.rows
          BY <2>1, <2>3
        <5> QED
          BY <2>1, <5>1, <5>2, <5>3 DEF Tables
      <4>4. n \in 6 .. 7 => Tables(store', Rest(base, p), older)
        <5>1. n = 6 => store'.rows = Rest(store, p) /\ store'.versions = store.versions
          BY <2>1, <2>3
        <5> QED
          BY <1>2, <4>1, <5>1 DEF Tables, Rest
      <4>5. n \in 8 .. 9 => Tables(store', Rest(base, p) \cup {row}, older)
        <5>1. n = 8 => At(r, "insert_first") /\ ~At(r, "insert_version")
          BY <2>3
        <5>2. At(r, "insert_first") => store'.rows = store.rows \cup {row}
          BY <2>1
        <5>3. ~At(r, "insert_version") => store'.versions = store.versions
          BY <2>1
        <5>4. /\ n = 8 => Tables(store, Rest(base, p), older)
              /\ n = 9 => Tables(store, Rest(base, p) \cup {row}, older)
          BY <1>2
        <5> QED
          BY <4>1, <5>1, <5>2, <5>3, <5>4 DEF Tables
      <4> QED
        BY <4>2, <4>3, <4>4, <4>5
    <3>3. SaveAt(base, store', y, r)
      <4>1. y.pc \in 3 .. 10
        BY <2>7, <3>1
      <4> HIDE DEF row
      <4>2. row = NewRow(p, FALSE, r, y.node)
        BY <3>1 DEF row
      <4> QED
        BY <2>7, <3>1, <3>2, <4>1, <4>2 DEF SaveAt
    <3>4. y.status = "ok" => Saved(base, store', x, r)
      <4>1. y.status = "ok" => n = 9
        BY <1>1, <2>3, LastStep
      <4> QED
        BY <3>1, <3>2, <4>1 DEF Saved
    <3> QED
      BY <1>1, <1>4, <3>3, <3>4, StepFields DEF InFlight
  <2> QED
    BY <1>1, <2>6, <2>7
<1> QED
  BY <1>3, <1>4

\* A handler that goes on keeps what it was asked and what it knows.
LEMMA GoneOn ==
  ASSUME IInv, NEW r \in Requests, Step(r), req'[r].status # "failed"
  PROVE  LET x == req[r]
             y == req'[r]
         IN  /\ InFlight(r) /\ x.op \in Ops /\ x.pc \in 1 .. Len(Plan(x.op)) /\ x.pc \in Nat
             /\ y.op = x.op /\ y.path = x.path /\ y.status \in {"run", "ok"}
             /\ x.pc # 1 => y.dir = x.dir
             /\ x.pc # 1 \/ x.op # "restore" => y.dest = x.dest
             /\ x.pc > 2 => y.found = x.found
             /\ \E k \in {1, 3, 4, 7} :
                  /\ Skips(r, k) /\ y.pc = x.pc + k
                  /\ k # 1 => x.op \in {"upload", "chunked", "save", "version"}
<1> DEFINE x == req[r]
           y == req'[r]
           z == [y EXCEPT !.pc = x.pc]
<1>1. PICK k \in {1, 3, 4, 7} :
         /\ k # 1 => x.op \in {"upload", "chunked", "save", "version"}
         /\ Skips(r, k) /\ Keeps(x, z) /\ y.pc = x.pc + k
  BY RequestsStep, Zenon DEF Moved
<1>2. /\ y \in RequestType /\ InFlight(r) /\ x.op \in Ops /\ x.pc \in 1 .. Len(Plan(x.op))
      /\ x.pc \in Nat /\ y.op = x.op /\ y.path = x.path /\ y.status \in {"run", "ok"}
  BY StepFields
<1>3. z.dir = y.dir /\ z.dest = y.dest /\ z.found = y.found
  BY <1>2 DEF RequestType
<1> HIDE DEF z
<1>4. /\ x.pc # 1 => y.dir = x.dir
      /\ x.pc # 1 \/ x.op # "restore" => y.dest = x.dest
      /\ x.pc > 2 => y.found = x.found
  BY <1>1, <1>3 DEF Keeps
<1> QED
  BY <1>1, <1>2, <1>4

(* A restored version: the file is snapshotted, then takes the checksum of *)
(* the version that was found.                                             *)
RolledBackTo(b, s, x, r) ==
  /\ IsFile(b, x.path)
  /\ \E v \in VersionsAt(b, x.path) :
       /\ x.found = {v}
       /\ Tables(s, Rehashed(b.rows, x.path, v.sum), FP!Snapshot(b, x.path, r).versions)
VersionAt(b, s, x, r) ==
  LET p == x.path
      n == x.pc
  IN  /\ n \in 1 .. 4 => s = b
      /\ n \in 2 .. 9 => IsFile(b, p)
      /\ n \in 3 .. 9 => \E v \in VersionsAt(b, p) : x.found = {v}
      /\ n \in 5 .. 6 => Tables(s, b.rows, b.versions)
      /\ n \in 7 .. 8 => Tables(s, b.rows, FP!Snapshot(b, p, r).versions)
      /\ n = 9 => RolledBackTo(b, s, x, r)

LEMMA VersionLabels ==
  ASSUME RequestsInv, NEW r \in Requests, InFlight(r), req[r].op = "version"
  PROVE  LET n == req[r].pc
         IN  /\ n \in 1 .. 9
             /\ n = 1 <=> At(r, "find_file")
             /\ n = 2 <=> At(r, "find_version")
             /\ n = 3 <=> At(r, "read_current")
             /\ n = 4 <=> At(r, "copy_blob")
             /\ n = 5 <=> At(r, "read_max")
             /\ n = 6 <=> At(r, "insert_version")
             /\ n = 8 <=> At(r, "update_checksum")
             /\ n = 9 <=> At(r, "read_back")
             /\ \A L \in Readers \cup {"insert_first", "rename_on_disk"} : At(r, L) => n \in {1, 2, 3, 5, 9}
             /\ \A L \in {"delete_row", "insert_row", "insert_first", "commit", "delete_versions",
                          "find_existing"} : ~At(r, L)
<1> DEFINE op == req[r].op
           n == req[r].pc
<1>1. op \in Ops /\ n \in 1 .. Len(Plan(op)) /\ op = "version"
  BY DEF RequestsInv, Knows
<1>2. \A L : At(r, L) <=> Plan(op)[n] = L
  BY DEF At
<1> HIDE DEF op, n
<1>3. Len(Plan(op)) = 9
  BY <1>1, Positions
<1>4. n \in 1 .. 9
  <2> DEFINE len == Len(Plan(op))
  <2>1. n \in 1 .. len /\ len = 9
    BY <1>1, <1>3
  <2> HIDE DEF len
  <2> QED
    BY <2>1
<1>5. /\ n = 1 <=> Plan(op)[n] = "find_file"
      /\ n = 2 <=> Plan(op)[n] = "find_version"
      /\ n = 3 <=> Plan(op)[n] = "read_current"
      /\ n = 4 <=> Plan(op)[n] = "copy_blob"
      /\ n = 5 <=> Plan(op)[n] = "read_max"
      /\ n = 6 <=> Plan(op)[n] = "insert_version"
      /\ n = 8 <=> Plan(op)[n] = "update_checksum"
      /\ n = 9 <=> Plan(op)[n] = "read_back"
  BY <1>1, Positions
<1>6. \A L \in Readers \cup {"insert_first", "rename_on_disk"} : Plan(op)[n] = L => n \in {1, 2, 3, 5, 9}
  BY <1>1, Positions DEF Readers
<1>7. \A L \in {"delete_row", "insert_row", "insert_first", "commit", "delete_versions",
                "find_existing"} : Plan(op)[n] # L
  BY <1>1, Positions
<1> QED
  BY <1>2, <1>4, <1>5, <1>6, <1>7 DEF n

LEMMA VersionStep ==
  ASSUME LikeIsExact, Settled, NEW r \in Requests, Step(r), ~faults',
         req[r].op = "version", Sound(base), VersionAt(base, store, req[r], r)
  PROVE  /\ InFlight(r)' => VersionAt(base, store', req'[r], r)
         /\ ~InFlight(r)' => \/ Tables(store', base.rows, base.versions)
                             \/ RolledBackTo(base, store', req[r], r)
<1> DEFINE x == req[r]
           y == req'[r]
           p == x.path
           n == x.pc
           older == FP!Snapshot(base, p, r).versions
<1>1. /\ IInv /\ RequestsInv /\ InFlight(r) /\ n \in 1 .. 9
  BY StepLabel, VersionLabels DEF Settled, Calm, MarksIInv, IInv
<1>2. /\ n \in 1 .. 4 => store = base
      /\ n \in 2 .. 9 => IsFile(base, p)
      /\ n \in 3 .. 9 => \E v \in VersionsAt(base, p) : x.found = {v}
      /\ n \in 5 .. 6 => Tables(store, base.rows, base.versions)
      /\ n \in 7 .. 8 => Tables(store, base.rows, older)
      /\ n = 9 => RolledBackTo(base, store, x, r)
  BY DEF VersionAt
<1>3. CASE y.status = "failed"
  <2>1. n \in {1, 2, 3, 5, 9} /\ store' = store
    <3>1. store' = store /\ \E L \in Readers \cup {"insert_first", "rename_on_disk"} : At(r, L)
      BY <1>3, Refused
    <3> QED
      BY <1>1, <3>1, VersionLabels
  <2>2. n = 9 => RolledBackTo(base, store', x, r)
    BY <1>2, <2>1
  <2>3. n # 9 => Tables(store', base.rows, base.versions)
    BY <1>2, <2>1 DEF Tables
  <2> QED
    BY <1>3, <2>2, <2>3 DEF InFlight
<1>4. CASE y.status # "failed"
  <2>1. /\ Did(r)
        /\ At(r, "insert_version") => store'.versions = store.versions \cup {NewVersion(r)}
        /\ At(r, "update_checksum") => \E v \in x.found : store'.rows = Rehashed(store.rows, p, v.sum)
        /\ ~At(r, "update_checksum") => store'.rows = store.rows
        /\ ~At(r, "insert_version") => store'.versions = store.versions
    <3>1. Did(r)
      BY <1>1, <1>4, Outcome
    <3>2. /\ (\A L \in RowWriters : ~At(r, L)) => store'.rows = store.rows
          /\ (\A L \in VersionWriters : ~At(r, L)) => store'.versions = store.versions
          /\ At(r, "update_checksum") => \E v \in x.found : store'.rows = Rehashed(store.rows, p, v.sum)
      BY <1>1, <1>4, TablesBecome
    <3>3. \A L \in {"delete_row", "insert_row", "insert_first", "commit", "delete_versions"} : ~At(r, L)
      BY <1>1, VersionLabels
    <3> QED
      BY <3>1, <3>2, <3>3 DEF Did, RowWriters, VersionWriters
  <2>2. /\ y.op = x.op /\ y.path = p /\ y.status \in {"run", "ok"}
        /\ n > 2 => y.found = x.found
    BY <1>1, <1>4, GoneOn
  <2>3. PICK k \in {1, 3, 4, 7} : Skips(r, k) /\ y.pc = n + k
    BY <1>1, <1>4, GoneOn
  <2>4. /\ n = 1 <=> At(r, "find_file")
        /\ n = 2 <=> At(r, "find_version")
        /\ n = 3 <=> At(r, "read_current")
        /\ n = 4 <=> At(r, "copy_blob")
        /\ n = 6 <=> At(r, "insert_version")
        /\ n = 8 <=> At(r, "update_checksum")
        /\ n = 9 <=> At(r, "read_back")
        /\ n \in {1, 2, 3, 5, 9} => store' = store
        /\ ~At(r, "find_existing")
    <3>1. /\ n = 1 <=> At(r, "find_file")
          /\ n = 2 <=> At(r, "find_version")
          /\ n = 3 <=> At(r, "read_current")
          /\ n = 4 <=> At(r, "copy_blob")
          /\ n = 5 <=> At(r, "read_max")
          /\ n = 6 <=> At(r, "insert_version")
          /\ n = 8 <=> At(r, "update_checksum")
          /\ n = 9 <=> At(r, "read_back")
          /\ ~At(r, "find_existing")
      BY <1>1, VersionLabels
    <3>2. \A L \in Readers : At(r, L) => store' = store
      BY ReadsOnly
    <3> QED
      BY <3>1, <3>2 DEF Readers
  <2>5. y.pc = n + 1
    <3>1. k # 4
      <4> SUFFICES ASSUME k = 4 PROVE FALSE
        OBVIOUS
      <4>1. n = 3 /\ store = base /\ IsFile(base, p)
        BY <1>2, <2>3, <2>4 DEF Skips
      <4>2. y.pc - n # 4
        BY <2>1, <2>4, <4>1 DEF Did
      <4> QED
        BY <2>3, <4>1, <4>2
    <3>2. k # 3
      <4> SUFFICES ASSUME k = 3 PROVE FALSE
        OBVIOUS
      <4>1. n = 4 /\ store = base /\ IsFile(base, p)
        BY <1>2, <2>3, <2>4 DEF Skips
      <4>2. FileOn(store.disk, p) # {}
        BY <4>1, Snapshots
      <4>3. y.pc - n = 1
        BY <2>1, <2>4, <4>1, <4>2 DEF Did
      <4> QED
        BY <2>3, <4>1, <4>3
    <3> QED
      BY <2>3, <2>4, <3>1, <3>2 DEF Skips
  <2> HIDE DEF older
  <2>6. CASE n = 1
    <3>1. IsFile(base, p) /\ store' = base
      BY <1>2, <2>1, <2>4, <2>6 DEF Did
    <3>2. VersionAt(base, store', y, r) /\ y.status # "ok"
      BY <1>1, <2>2, <2>4, <2>5, <2>6, <3>1, LastStep DEF VersionAt
    <3> QED
      BY <2>2, <3>2 DEF InFlight
  <2>7. CASE n = 2
    <3>1. IsFile(base, p) /\ store' = base
      BY <1>2, <2>4, <2>7
    <3>2. \E v \in VersionsAt(base, p) : y.found = {v}
      BY <1>1, <1>2, <1>4, <2>4, <2>7, Learned DEF VersionsAt
    <3>3. VersionAt(base, store', y, r) /\ y.status # "ok"
      BY <1>1, <2>2, <2>4, <2>5, <2>7, <3>1, <3>2, LastStep DEF VersionAt
    <3> QED
      BY <2>2, <3>3 DEF InFlight
  <2>8. CASE n \in 3 .. 8
    <3>1. IsFile(base, p) /\ y.found = x.found /\ \E v \in VersionsAt(base, p) : y.found = {v}
      BY <1>2, <2>2, <2>8
    <3>2. n \in {3, 4, 5, 7, 9} => store'.rows = store.rows /\ store'.versions = store.versions
      BY <2>1, <2>4
    <3>3. n \in 3 .. 5 => (n = 3 => store' = base) /\ Tables(store', base.rows, base.versions)
      BY <1>2, <2>4, <3>2 DEF Tables
    <3>4. n \in 6 .. 7 => Tables(store', base.rows, older)
      <4>1. n = 7 => Tables(store', base.rows, older)
        BY <1>2, <3>2 DEF Tables
      <4>2. ASSUME n = 6 PROVE Tables(store', base.rows, older)
        <5>1. At(r, "insert_version") /\ Tables(store, base.rows, base.versions)
          BY <1>2, <2>4, <4>2
        <5>2. store.versions \cup {NewVersion(r)} = older
          BY <3>1, <5>1, SnapshotRow DEF older
        <5>3. store'.rows = store.rows
          BY <2>1, <2>4, <4>2
        <5> QED
          BY <2>1, <5>1, <5>2, <5>3 DEF Tables
      <4> QED
        BY <4>1, <4>2
    <3>5. n = 8 => RolledBackTo(base, store', y, r)
      <4> SUFFICES ASSUME n = 8 PROVE RolledBackTo(base, store', y, r)
        OBVIOUS
      <4>1. PICK v \in x.found : store'.rows = Rehashed(store.rows, p, v.sum)
        BY <2>1, <2>4
      <4>2. store'.versions = store.versions /\ Tables(store, base.rows, older)
        BY <1>2, <2>1, <2>4
      <4>3. v \in VersionsAt(base, p) /\ y.found = {v}
        BY <3>1, <4>1
      <4> QED
        BY <2>2, <3>1, <4>1, <4>2, <4>3 DEF RolledBackTo, Tables, older
    <3>6. VersionAt(base, store', y, r)
      <4>1. y.pc \in 4 .. 9
        BY <2>5, <2>8
      <4> QED
        BY <2>2, <2>5, <2>8, <3>1, <3>3, <3>4, <3>5, <4>1 DEF VersionAt, older
    <3>7. y.status # "ok"
      BY <1>1, <2>4, <2>8, LastStep
    <3> QED
      BY <2>2, <3>6, <3>7 DEF InFlight
  <2>9. CASE n = 9
    <3>1. RolledBackTo(base, store', x, r)
      BY <1>2, <2>4, <2>9
    <3>2. ~InFlight(r)'
      <4> SUFFICES ASSUME InFlight(r)' PROVE FALSE
        OBVIOUS
      <4>1. y.pc \in 1 .. Len(Plan("version"))
        BY <1>1, <2>2, RequestsStep DEF RequestsInv
      <4>2. Len(Plan("version")) = 9
        <5>1. n \in 1 .. Len(Plan("version"))
          BY <1>1, <1>4, GoneOn
        <5> QED
          BY <5>1, Positions DEF Ops
      <4> DEFINE len == Len(Plan("version"))
      <4>3. y.pc \in 1 .. len /\ len = 9 /\ y.pc = 10
        BY <2>5, <2>9, <4>1, <4>2
      <4> HIDE DEF len
      <4> QED
        BY <4>3
    <3> QED
      BY <3>1, <3>2
  <2> QED
    BY <1>1, <2>6, <2>7, <2>8, <2>9
<1> QED
  BY <1>3, <1>4

(* A new folder: looked for, then its row, then the directory.             *)
FolderMade(b, s, x, r) ==
  /\ ~Live(b, x.path) /\ IsFolder(b, ParentOf(x.path))
  /\ Tables(s, b.rows \cup {NewRow(x.path, TRUE, NoSum, r)}, b.versions)
FolderGoes(b, s, x, r) ==
  LET n == x.pc
  IN  /\ x.node = r
      /\ n \in 1 .. 3 => s = b
      /\ n \in 2 .. 4 => ~Live(b, x.path)
      /\ n \in 3 .. 4 => IsFolder(b, ParentOf(x.path))
      /\ n = 4 => FolderMade(b, s, x, r)

LEMMA FolderLabels ==
  ASSUME RequestsInv, NEW r \in Requests, InFlight(r), req[r].op = "folder"
  PROVE  LET n == req[r].pc
         IN  /\ n \in 1 .. 4
             /\ n = 1 <=> At(r, "find_none")
             /\ n = 2 <=> At(r, "find_parent")
             /\ n = 3 <=> At(r, "insert_first")
             /\ n = 4 <=> At(r, "make_directory")
             /\ \A L \in Readers \cup {"insert_first", "rename_on_disk"} : At(r, L) => n \in {1, 2, 3}
             /\ \A L \in {"delete_row", "insert_row", "update_checksum", "commit", "delete_versions",
                          "insert_version", "find_existing", "find_file"} : ~At(r, L)
<1> DEFINE op == req[r].op
           n == req[r].pc
<1>1. op \in Ops /\ n \in 1 .. Len(Plan(op)) /\ op = "folder"
  BY DEF RequestsInv, Knows
<1>2. \A L : At(r, L) <=> Plan(op)[n] = L
  BY DEF At
<1> HIDE DEF op, n
<1>3. Len(Plan(op)) = 4
  BY <1>1, Positions
<1>4. n \in 1 .. 4
  <2> DEFINE len == Len(Plan(op))
  <2>1. n \in 1 .. len /\ len = 4
    BY <1>1, <1>3
  <2> HIDE DEF len
  <2> QED
    BY <2>1
<1>5. /\ n = 1 <=> Plan(op)[n] = "find_none"
      /\ n = 2 <=> Plan(op)[n] = "find_parent"
      /\ n = 3 <=> Plan(op)[n] = "insert_first"
      /\ n = 4 <=> Plan(op)[n] = "make_directory"
  BY <1>1, Positions
<1>6. \A L \in Readers \cup {"insert_first", "rename_on_disk"} : Plan(op)[n] = L => n \in {1, 2, 3}
  BY <1>1, Positions DEF Readers
<1>7. \A L \in {"delete_row", "insert_row", "update_checksum", "commit", "delete_versions",
                "insert_version", "find_existing", "find_file"} : Plan(op)[n] # L
  BY <1>1, Positions
<1> QED
  BY <1>2, <1>4, <1>5, <1>6, <1>7 DEF n

\* A handler is not in flight behind the end of its plan.
LEMMA Ends ==
  ASSUME IInv, NEW r \in Requests, Step(r), NEW len \in Nat, Len(Plan(req[r].op)) = len,
         req'[r].pc > len
  PROVE  ~InFlight(r)'
<1> SUFFICES ASSUME InFlight(r)' PROVE FALSE
  OBVIOUS
<1>1. req'[r].pc \in 1 .. Len(Plan(req'[r].op)) /\ req'[r].op = req[r].op
  BY StepFields, RequestsStep DEF RequestsInv
<1>2. req'[r].pc \in 1 .. len
  BY <1>1
<1> QED
  BY <1>2

LEMMA FolderStep ==
  ASSUME LikeIsExact, Settled, NEW r \in Requests, Step(r), ~faults',
         req[r].op = "folder", Sound(base), FolderGoes(base, store, req[r], r)
  PROVE  /\ InFlight(r)' => FolderGoes(base, store', req'[r], r)
         /\ ~InFlight(r)' => \/ Tables(store', base.rows, base.versions)
                             \/ FolderMade(base, store', req[r], r)
<1> DEFINE x == req[r]
           y == req'[r]
           p == x.path
           n == x.pc
<1>1. /\ IInv /\ RequestsInv /\ SidesInv /\ InFlight(r) /\ n \in 1 .. 4
  BY StepLabel, FolderLabels DEF Settled, Calm, MarksIInv, IInv
<1>2. /\ x.node = r
      /\ n \in 1 .. 3 => store = base
      /\ n \in 2 .. 4 => ~Live(base, p)
      /\ n \in 3 .. 4 => IsFolder(base, ParentOf(p))
      /\ n = 4 => FolderMade(base, store, x, r)
  BY DEF FolderGoes
<1>3. CASE y.status = "failed"
  <2>1. n \in {1, 2, 3} /\ store' = store
    <3>1. store' = store /\ \E L \in Readers \cup {"insert_first", "rename_on_disk"} : At(r, L)
      BY <1>3, Refused
    <3> QED
      BY <1>1, <3>1, FolderLabels
  <2>2. Tables(store', base.rows, base.versions)
    BY <1>2, <2>1 DEF Tables
  <2> QED
    BY <1>3, <2>2 DEF InFlight
<1>4. CASE y.status # "failed"
  <2>1. /\ n = 1 <=> At(r, "find_none")
        /\ n = 2 <=> At(r, "find_parent")
        /\ n = 3 <=> At(r, "insert_first")
        /\ n = 4 <=> At(r, "make_directory")
        /\ \A L \in {"delete_row", "insert_row", "update_checksum", "commit", "delete_versions",
                     "insert_version", "find_existing", "find_file"} : ~At(r, L)
    BY <1>1, FolderLabels
  <2>2. /\ n = 3 => store'.rows = store.rows \cup {NewRow(p, TRUE, NoSum, r)}
        /\ n # 3 => store'.rows = store.rows
        /\ store'.versions = store.versions
        /\ n \in 1 .. 2 => store' = store
    <3>1. /\ (\A L \in RowWriters : ~At(r, L)) => store'.rows = store.rows
          /\ (\A L \in VersionWriters : ~At(r, L)) => store'.versions = store.versions
      BY <1>1, <1>4, TablesBecome
    <3>2. At(r, "insert_first") => LET folder == x.op = "folder" IN
            store'.rows = store.rows \cup {NewRow(p, folder, IF folder THEN NoSum ELSE r, x.node)}
      BY <1>1, <1>4, TablesBecome
    <3>3. (x.op = "folder") = TRUE
      OBVIOUS
    <3>4. n = 3 => store'.rows = store.rows \cup {NewRow(p, TRUE, NoSum, r)}
      BY <1>2, <2>1, <3>2, <3>3
    <3>5. n \in 1 .. 2 => store' = store
      BY <2>1, ReadsOnly DEF Readers
    <3> QED
      BY <2>1, <3>1, <3>4, <3>5 DEF RowWriters, VersionWriters
  <2>3. /\ y.op = x.op /\ y.path = p /\ y.status \in {"run", "ok"} /\ y.pc = n + 1
        /\ y.node = r
    <3>1. y.node = x.node
      BY <1>1, <1>4, <2>1, NodeKept
    <3> QED
      BY <1>1, <1>2, <1>4, <3>1, GoneOn
  <2>4. x.dest = p
    BY <1>1 DEF SidesInv, Sided
  <2>5. CASE n = 1
    <3>0. Did(r) /\ At(r, "find_none")
      BY <1>1, <1>4, <2>1, <2>5, Outcome
    <3>a. ~Live(store, x.dest)
      BY <3>0 DEF Did
    <3>1. ~Live(base, p) /\ store' = base
      BY <1>2, <2>2, <2>4, <2>5, <3>a
    <3>2. FolderGoes(base, store', y, r) /\ y.status # "ok"
      BY <1>1, <2>1, <2>3, <2>5, <3>1, LastStep DEF FolderGoes
    <3> QED
      BY <2>3, <3>2 DEF InFlight
  <2>6. CASE n = 2
    <3>1. y.status # "ok"
      BY <1>1, <2>1, <2>6, LastStep
    <3>2. InFlight(r)'
      BY <2>3, <3>1 DEF InFlight
    <3>3. FP!FolderAt(store.rows, ParentOf(x.dest))
      BY <1>1, <2>1, <2>6, <3>2, FoundParent
    <3>4. IsFolder(base, ParentOf(p)) /\ ~Live(base, p) /\ store' = base
      BY <1>2, <2>2, <2>4, <2>6, <3>3, SameTypes DEF FP!FolderAt, IsFolder
    <3>5. FolderGoes(base, store', y, r)
      BY <2>3, <2>6, <3>4 DEF FolderGoes
    <3> QED
      BY <3>2, <3>5
  <2>7. CASE n = 3
    <3>0. ~Live(base, p) /\ IsFolder(base, ParentOf(p)) /\ store = base
      BY <1>2, <2>7
    <3>a. Tables(store', base.rows \cup {NewRow(p, TRUE, NoSum, r)}, base.versions)
      BY <2>2, <2>7, <3>0 DEF Tables
    <3>1. FolderMade(base, store', y, r)
      BY <2>3, <3>0, <3>a DEF FolderMade
    <3>2. FolderGoes(base, store', y, r) /\ y.status # "ok"
      BY <1>1, <1>2, <2>1, <2>3, <2>7, <3>1, LastStep DEF FolderGoes
    <3> QED
      BY <2>3, <3>2 DEF InFlight
  <2>8. CASE n = 4
    <3>1. FolderMade(base, store', x, r)
      BY <1>2, <2>2, <2>8 DEF FolderMade, Tables
    <3>2. ~InFlight(r)'
      <4>1. Len(Plan(x.op)) = 4
        <5>1. n \in 1 .. Len(Plan(x.op)) /\ x.op \in Ops
          BY <1>1, <1>4, GoneOn
        <5> QED
          BY <5>1, Positions
      <4>2. y.pc > 4
        BY <2>3, <2>8
      <4> QED
        BY <1>1, <4>1, <4>2, Ends
    <3> QED
      BY <3>1, <3>2
  <2> QED
    BY <1>1, <2>5, <2>6, <2>7, <2>8
<1> QED
  BY <1>3, <1>4

(* A purge: the versions, then the rows, of what lies in the trash there.  *)
PurgedTo(b, s, x) ==
  /\ \E t \in TrashRoots(b) : t.path = x.path
  /\ Tables(s, {w \in b.rows : ~Covers(x.path, w.path)}, {v \in b.versions : ~Covers(x.path, v.path)})
PurgeAt(b, s, x) ==
  LET n == x.pc
  IN  /\ n \in 1 .. 3 => Tables(s, b.rows, b.versions)
      /\ n \in 2 .. 6 => \E t \in TrashRoots(b) : t.path = x.path
      /\ n \in 4 .. 5 => Tables(s, b.rows, {v \in b.versions : ~Covers(x.path, v.path)})
      /\ n = 6 => PurgedTo(b, s, x)

LEMMA PurgeLabels ==
  ASSUME RequestsInv, NEW r \in Requests, InFlight(r), req[r].op = "purge"
  PROVE  LET n == req[r].pc
         IN  /\ n \in 1 .. 6
             /\ n = 1 <=> At(r, "find_root")
             /\ n = 3 <=> At(r, "delete_versions")
             /\ n = 5 <=> At(r, "delete_row")
             /\ n = 6 <=> At(r, "remove_tree")
             /\ \A L \in Readers \cup {"insert_first", "rename_on_disk"} : At(r, L) => n \in {1, 2}
             /\ \A L \in {"insert_row", "insert_first", "update_checksum", "commit",
                          "insert_version"} : ~At(r, L)
<1> DEFINE op == req[r].op
           n == req[r].pc
<1>1. op \in Ops /\ n \in 1 .. Len(Plan(op)) /\ op = "purge"
  BY DEF RequestsInv, Knows
<1>2. \A L : At(r, L) <=> Plan(op)[n] = L
  BY DEF At
<1> HIDE DEF op, n
<1>3. Len(Plan(op)) = 6
  BY <1>1, Positions
<1>4. n \in 1 .. 6
  <2> DEFINE len == Len(Plan(op))
  <2>1. n \in 1 .. len /\ len = 6
    BY <1>1, <1>3
  <2> HIDE DEF len
  <2> QED
    BY <2>1
<1>5. /\ n = 1 <=> Plan(op)[n] = "find_root"
      /\ n = 3 <=> Plan(op)[n] = "delete_versions"
      /\ n = 5 <=> Plan(op)[n] = "delete_row"
      /\ n = 6 <=> Plan(op)[n] = "remove_tree"
  BY <1>1, Positions
<1>6. \A L \in Readers \cup {"insert_first", "rename_on_disk"} : Plan(op)[n] = L => n \in {1, 2}
  BY <1>1, Positions DEF Readers
<1>7. \A L \in {"insert_row", "insert_first", "update_checksum", "commit", "insert_version"} :
        Plan(op)[n] # L
  BY <1>1, Positions
<1> QED
  BY <1>2, <1>4, <1>5, <1>6, <1>7 DEF n

LEMMA PurgeStep ==
  ASSUME LikeIsExact, Settled, NEW r \in Requests, Step(r), ~faults',
         req[r].op = "purge", Sound(base), PurgeAt(base, store, req[r])
  PROVE  /\ InFlight(r)' => PurgeAt(base, store', req'[r])
         /\ ~InFlight(r)' => \/ Tables(store', base.rows, base.versions)
                             \/ PurgedTo(base, store', req[r])
<1> DEFINE x == req[r]
           y == req'[r]
           p == x.path
           n == x.pc
           rows == {w \in base.rows : ~Covers(p, w.path)}
           versions == {v \in base.versions : ~Covers(p, v.path)}
           rooted == \E t \in TrashRoots(base) : t.path = p
<1>1. /\ IInv /\ RequestsInv /\ InFlight(r) /\ n \in 1 .. 6
  BY StepLabel, PurgeLabels DEF Settled, Calm, MarksIInv, IInv
<1>2. /\ n \in 1 .. 3 => Tables(store, base.rows, base.versions)
      /\ n \in 2 .. 6 => rooted
      /\ n \in 4 .. 5 => Tables(store, base.rows, versions)
      /\ n = 6 => Tables(store, rows, versions)
  BY DEF PurgeAt, PurgedTo
<1>3. CASE y.status = "failed"
  <2>1. n \in {1, 2} /\ store' = store
    <3>1. store' = store /\ \E L \in Readers \cup {"insert_first", "rename_on_disk"} : At(r, L)
      BY <1>3, Refused
    <3> QED
      BY <1>1, <3>1, PurgeLabels
  <2>2. Tables(store', base.rows, base.versions)
    BY <1>2, <2>1 DEF Tables
  <2> QED
    BY <1>3, <2>2 DEF InFlight
<1>4. CASE y.status # "failed"
  <2>1. /\ n = 1 <=> At(r, "find_root")
        /\ n = 3 <=> At(r, "delete_versions")
        /\ n = 5 <=> At(r, "delete_row")
        /\ n = 6 <=> At(r, "remove_tree")
        /\ \A L \in {"insert_row", "insert_first", "update_checksum", "commit",
                     "insert_version"} : ~At(r, L)
    BY <1>1, PurgeLabels
  <2>2. /\ n = 3 => store'.versions = {v \in store.versions : ~Covers(p, v.path)}
        /\ n = 5 => store'.rows = {w \in store.rows : ~Covers(p, w.path)}
        /\ n # 3 => store'.versions = store.versions
        /\ n # 5 => store'.rows = store.rows
    <3>1. /\ (\A L \in RowWriters : ~At(r, L)) => store'.rows = store.rows
          /\ (\A L \in VersionWriters : ~At(r, L)) => store'.versions = store.versions
          /\ At(r, "delete_versions") =>
               store'.versions = {v \in store.versions : ~Covers(p, v.path)}
      BY <1>1, <1>4, TablesBecome
    <3>2. Did(r)
      BY <1>1, <1>4, Outcome
    <3>3. At(r, "delete_row") => store'.rows = {w \in store.rows : ~Covers(p, w.path)}
      BY <3>2 DEF Did
    <3> QED
      BY <2>1, <3>1, <3>3 DEF RowWriters, VersionWriters
  <2>3. /\ y.op = x.op /\ y.path = p /\ y.status \in {"run", "ok"} /\ y.pc = n + 1
    BY <1>1, <1>4, GoneOn
  <2>4. rooted
    <3>1. ASSUME n = 1 PROVE rooted
      <4>1. \E t \in TrashRoots(store) : t.path = p
        BY <1>1, <1>4, <2>1, <3>1, Learned
      <4>2. store.rows = base.rows
        BY <1>2, <3>1 DEF Tables
      <4> QED
        BY <4>1, <4>2 DEF TrashRoots
    <3> QED
      BY <1>1, <1>2, <3>1
  <2> HIDE DEF rooted, rows, versions
  <2>5. /\ n \in 1 .. 2 => Tables(store', base.rows, base.versions)
        /\ n \in 3 .. 4 => Tables(store', base.rows, versions)
        /\ n \in 5 .. 6 => Tables(store', rows, versions)
    <3>1. n \in 1 .. 2 => Tables(store', base.rows, base.versions)
      BY <1>2, <2>2 DEF Tables
    <3>2. n \in 3 .. 4 => Tables(store', base.rows, versions)
      BY <1>2, <2>2 DEF Tables, versions
    <3>3. n \in 5 .. 6 => Tables(store', rows, versions)
      BY <1>2, <2>2 DEF Tables, rows
    <3> QED
      BY <3>1, <3>2, <3>3
  <2>6. CASE n \in 1 .. 5
    <3>1. n = 5 => PurgedTo(base, store', y)
      BY <2>3, <2>4, <2>5 DEF PurgedTo, rooted, rows, versions
    <3>2. y.pc \in 2 .. 6
      BY <2>3, <2>6
    <3>3. PurgeAt(base, store', y)
      BY <2>3, <2>4, <2>5, <2>6, <3>1, <3>2 DEF PurgeAt, rooted, versions
    <3>4. y.status # "ok"
      BY <1>1, <2>1, <2>6, LastStep
    <3> QED
      BY <2>3, <3>3, <3>4 DEF InFlight
  <2>7. CASE n = 6
    <3>1. PurgedTo(base, store', x)
      BY <2>4, <2>5, <2>7 DEF PurgedTo, rooted, rows, versions
    <3>2. ~InFlight(r)'
      <4>1. Len(Plan(x.op)) = 6
        <5>1. n \in 1 .. Len(Plan(x.op)) /\ x.op \in Ops
          BY <1>1, <1>4, GoneOn
        <5> QED
          BY <5>1, Positions
      <4>2. y.pc > 6
        BY <2>3, <2>7
      <4> QED
        BY <1>1, <4>1, <4>2, Ends
    <3> QED
      BY <3>1, <3>2
  <2> QED
    BY <1>1, <2>6, <2>7
<1> QED
  BY <1>3, <1>4

(* What moves: rename, move, delete and restore.  By then the entry was    *)
(* found, the place free, and the folder there, when the handler asks.     *)
Movers == {"rename", "move", "delete", "restore"}
Freed(op, n) == \/ op \in {"rename", "restore"} /\ n >= 3
                \/ op = "move" /\ n >= 4
Housed(op, n) == \/ op = "move" /\ n >= 3
                 \/ op = "restore" /\ n >= 4

Saw(b, x, n) ==
  /\ n > 1 => IF x.op = "restore"
              THEN \E t \in TrashRoots(b) : t.path = x.path /\ t.orig = x.dest /\ t.dir = x.dir
              ELSE Live(b, x.path) /\ x.dir = RowAt(b, x.path).dir
  /\ Freed(x.op, n) => ~Live(b, x.dest)
  /\ Housed(x.op, n) => /\ IsFolder(b, ParentOf(x.dest))
                        /\ x.op = "move" =>
                             ~(x.dir /\ FP!AtOrBelow(x.path, ParentOf(x.dest)))
Relocatable(b, x) == Saw(b, x, 6) /\ ~RelocateFails(b, x.path, x.dest, x.dir)
MoverDone(b, s, x) == Relocatable(b, x) /\ HasMoved(b, s, x)
MoverAt(b, s, x) ==
  LET L == Plan(x.op)[x.pc]
  IN  /\ Saw(b, x, x.pc)
      /\ L \notin {"commit", "read_back"} => s = b
      /\ L = "commit" => Relocatable(b, x) /\ Tables(s, b.rows, b.versions)
      /\ L = "read_back" => MoverDone(b, s, x)

\* Where the steps of the four lie.
LEMMA MoverLabels ==
  ASSUME NEW op \in Movers, NEW n \in 1 .. Len(Plan(op))
  PROVE  LET L == Plan(op)[n]
         IN  /\ n \in 1 .. 6
             /\ L \in {"find_source", "find_root", "find_parent", "find_none", "rename_on_disk",
                       "commit", "read_back"}
             /\ n = 1 <=> L \in {"find_source", "find_root"}
             /\ L = "find_root" <=> n = 1 /\ op = "restore"
             /\ Freed(op, n + 1) => L = "find_none" \/ Freed(op, n)
             /\ Housed(op, n + 1) => L = "find_parent" \/ Housed(op, n)
             /\ L \in {"rename_on_disk", "commit", "read_back"} =>
                  n > 1 /\ (Freed(op, 6) => Freed(op, n)) /\ (Housed(op, 6) => Housed(op, n))
             /\ n + 1 \in 1 .. Len(Plan(op)) =>
                  /\ Plan(op)[n + 1] = "commit" <=> L = "rename_on_disk"
                  /\ Plan(op)[n + 1] = "read_back" <=> L = "commit"
             /\ n + 1 \in 1 .. Len(Plan(op)) => L # "read_back"
<1> DEFINE len == Len(Plan(op))
<1>0. op \in Ops
  BY DEF Movers, Ops
<1>1. /\ op \in {"move", "restore"} => len = 6
      /\ op = "rename" => len = 5
      /\ op = "delete" => len = 3
  BY <1>0, Positions
<1>2. op \in {"rename", "move", "delete", "restore"} /\ n \in 1 .. len
  BY DEF Movers
<1>3. /\ Plan(op)[n] = "find_source" <=> op \in {"rename", "move", "delete"} /\ n = 1
      /\ Plan(op)[n] = "find_root" <=> op \in {"restore", "purge"} /\ n = 1
      /\ Plan(op)[n] = "find_none" <=>
           \/ op = "folder" /\ n = 1
           \/ op \in {"rename", "restore"} /\ n = 2
           \/ op = "move" /\ n = 3
      /\ Plan(op)[n] = "find_parent" <=>
           \/ op \in {"upload", "chunked"} /\ n = 1
           \/ op \in {"folder", "move"} /\ n = 2
           \/ op = "restore" /\ n = 3
      /\ Plan(op)[n] = "rename_on_disk" <=>
           \/ op = "delete" /\ n = 2
           \/ op = "rename" /\ n = 3
           \/ op \in {"move", "restore"} /\ n = 4
      /\ Plan(op)[n] = "commit" <=>
           \/ op = "delete" /\ n = 3
           \/ op = "rename" /\ n = 4
           \/ op \in {"move", "restore"} /\ n = 5
      /\ Plan(op)[n] = "read_back" <=>
           \/ op = "rename" /\ n = 5
           \/ op \in {"move", "restore"} /\ n = 6
           \/ op = "version" /\ n = 9
  BY <1>0, Positions
<1>4. n + 1 \in 1 .. len =>
        /\ Plan(op)[n + 1] = "commit" <=>
             \/ op = "delete" /\ n + 1 = 3
             \/ op = "rename" /\ n + 1 = 4
             \/ op \in {"move", "restore"} /\ n + 1 = 5
        /\ Plan(op)[n + 1] = "read_back" <=>
             \/ op = "rename" /\ n + 1 = 5
             \/ op \in {"move", "restore"} /\ n + 1 = 6
             \/ op = "version" /\ n + 1 = 9
  BY <1>0, Positions
<1> DEFINE L == Plan(op)[n]
           M == Plan(op)[n + 1]
<1> HIDE DEF len, L, M
<1>5. n \in 1 .. 6
  BY <1>1, <1>2
<1>6. L \in {"find_source", "find_root", "find_parent", "find_none", "rename_on_disk", "commit", "read_back"}
  BY <1>1, <1>2, <1>3 DEF L
<1>7. /\ n = 1 <=> L \in {"find_source", "find_root"}
      /\ L = "find_root" <=> n = 1 /\ op = "restore"
  BY <1>2, <1>3 DEF L
<1>8. /\ Freed(op, n + 1) => L = "find_none" \/ Freed(op, n)
      /\ Housed(op, n + 1) => L = "find_parent" \/ Housed(op, n)
  BY <1>2, <1>3, <1>5 DEF L, Freed, Housed
<1>9. L \in {"rename_on_disk", "commit", "read_back"} =>
        n > 1 /\ (Freed(op, 6) => Freed(op, n)) /\ (Housed(op, 6) => Housed(op, n))
  BY <1>2, <1>3, <1>5 DEF L, Freed, Housed
<1>10. n + 1 \in 1 .. len => /\ M = "commit" <=> L = "rename_on_disk"
                             /\ M = "read_back" <=> L = "commit"
                             /\ L # "read_back"
  BY <1>1, <1>2, <1>3, <1>4, <1>5 DEF L, M
<1> QED
  BY <1>5, <1>6, <1>7, <1>8, <1>9, <1>10 DEF len, L, M

\* What the first step of the four learns.
LEMMA Source ==
  ASSUME IInv, NEW r \in Requests, Step(r), req'[r].status # "failed"
  PROVE  LET x == req[r]
             y == req'[r]
         IN  /\ At(r, "find_root") /\ x.op = "restore" =>
                  \E t \in TrashRoots(store) : t.path = x.path /\ t.orig = y.dest /\ t.dir = y.dir
             /\ At(r, "find_source") =>
                  Live(store, x.path) /\ y.dir = RowAt(store, x.path).dir
<1> DEFINE x == req[r]
           y == req'[r]
<1>1. /\ FP!StoreInv(store) /\ x \in RequestType /\ req \in [Requests -> RequestType] /\ ~Fails(r)
      /\ store.rows \subseteq RowType /\ \A u, w \in store.rows : u.path = w.path => u = w
  BY SameTypes, Failed DEF IInv, RequestsInv, FP!StoreInv, FP!RowsInv, FP!KeysUnique
<1>2. ASSUME At(r, "find_root"), x.op = "restore"
      PROVE  \E t \in TrashRoots(store) : t.path = x.path /\ t.orig = y.dest /\ t.dir = y.dir
  <2>1. FindRoot(r)
    BY <1>2, StepLabel
  <2>2. PICK t \in {t \in TrashRoots(store) : t.path = x.path} :
           Learns(r, [x EXCEPT !.dir = t.dir,
                               !.dest = IF x.op = "restore" THEN t.orig ELSE x.dest])
    BY <1>1, <2>1 DEF FindRoot
  <2> DEFINE z == [x EXCEPT !.dir = t.dir, !.dest = t.orig]
  <2>3. Resume(r, z, 1)
    BY <1>2, <2>2 DEF Learns
  <2>4. t.dir \in BOOLEAN /\ t.orig \in Path
    BY <1>1, <2>2 DEF TrashRoots, RowType
  <2>5. z \in RequestType /\ z.dir = t.dir /\ z.dest = t.orig
    BY <1>1, <2>4 DEF RequestType
  <2> HIDE DEF z
  <2>6. y.dir = t.dir /\ y.dest = t.orig
    BY <1>1, <2>3, <2>5, Resumed
  <2> QED
    BY <2>2, <2>6
<1>3. ASSUME At(r, "find_source")
      PROVE  Live(store, x.path) /\ y.dir = RowAt(store, x.path).dir
  <2>1. FindSource(r)
    BY <1>3, StepLabel
  <2>2. Live(store, x.path) /\ Learns(r, [x EXCEPT !.dir = RowAt(store, x.path).dir])
    BY <1>1, <2>1 DEF FindSource
  <2> DEFINE d == RowAt(store, x.path).dir
             z == [x EXCEPT !.dir = d]
  <2>3. Resume(r, z, 1)
    BY <2>2 DEF Learns
  <2>4. d \in BOOLEAN
    BY <1>1, <2>2 DEF Live, RowAt, RowType
  <2> HIDE DEF d
  <2>5. z \in RequestType /\ z.dir = d
    BY <1>1, <2>4 DEF RequestType
  <2> HIDE DEF z
  <2>6. y.dir = d
    BY <1>1, <2>3, <2>5, Resumed
  <2> QED
    BY <2>2, <2>6 DEF d
<1> QED
  BY <1>2, <1>3

LEMMA MoverStep ==
  ASSUME LikeIsExact, Settled, NEW r \in Requests, Step(r), ~faults',
         req[r].op \in Movers, Sound(base), MoverAt(base, store, req[r])
  PROVE  /\ InFlight(r)' => MoverAt(base, store', req'[r])
         /\ ~InFlight(r)' => \/ Tables(store', base.rows, base.versions)
                             \/ MoverDone(base, store', req[r])
<1> DEFINE x == req[r]
           y == req'[r]
           p == x.path
           n == x.pc
           op == x.op
           L == Plan(op)[n]
<1>1. /\ IInv /\ RequestsInv /\ InFlight(r) /\ op \in Movers /\ n \in 1 .. Len(Plan(op))
  BY StepLabel DEF Settled, Calm, MarksIInv, IInv, RequestsInv
<1>2. /\ Saw(base, x, n)
      /\ L \notin {"commit", "read_back"} => store = base
      /\ L = "commit" => Relocatable(base, x) /\ Tables(store, base.rows, base.versions)
      /\ L = "read_back" => MoverDone(base, store, x)
  BY DEF MoverAt
<1>3. \A label : At(r, label) <=> L = label
  BY <1>1 DEF At
<1>4. /\ n \in 1 .. 6
      /\ L \in {"find_source", "find_root", "find_parent", "find_none", "rename_on_disk",
                "commit", "read_back"}
      /\ n = 1 <=> L \in {"find_source", "find_root"}
      /\ L = "find_root" <=> n = 1 /\ op = "restore"
      /\ Freed(op, n + 1) => L = "find_none" \/ Freed(op, n)
      /\ Housed(op, n + 1) => L = "find_parent" \/ Housed(op, n)
      /\ L \in {"rename_on_disk", "commit", "read_back"} =>
           n > 1 /\ (Freed(op, 6) => Freed(op, n)) /\ (Housed(op, 6) => Housed(op, n))
      /\ n + 1 \in 1 .. Len(Plan(op)) =>
           /\ Plan(op)[n + 1] = "commit" <=> L = "rename_on_disk"
           /\ Plan(op)[n + 1] = "read_back" <=> L = "commit"
           /\ L # "read_back"
  BY <1>1, MoverLabels
<1> HIDE DEF L
<1>5. CASE y.status = "failed"
  <2>1. store' = store /\ \E label \in Readers \cup {"insert_first", "rename_on_disk"} : At(r, label)
    BY <1>5, Refused
  <2>2. L # "commit"
    BY <1>3, <2>1 DEF Readers
  <2>3. CASE L = "read_back"
    <3>1. MoverDone(base, store', x)
      BY <1>2, <2>1, <2>3
    <3> QED
      BY <1>5, <3>1 DEF InFlight
  <2>4. CASE L # "read_back"
    <3>1. Tables(store', base.rows, base.versions)
      BY <1>2, <2>1, <2>2, <2>4 DEF Tables
    <3> QED
      BY <1>5, <3>1 DEF InFlight
  <2> QED
    BY <2>3, <2>4
<1>6. CASE y.status # "failed"
  <2>1. /\ y.op = op /\ y.path = p /\ y.status \in {"run", "ok"} /\ y.pc = n + 1
        /\ n # 1 => y.dir = x.dir
        /\ n # 1 \/ op # "restore" => y.dest = x.dest
    BY <1>1, <1>6, GoneOn DEF Movers
  <2>2. /\ L # "commit" => store'.rows = store.rows /\ store'.versions = store.versions
        /\ L \notin {"commit", "rename_on_disk"} => store' = store
        /\ L = "commit" => HasMoved(store, store', x)
    <3>1. /\ (\A label \in RowWriters : ~At(r, label)) => store'.rows = store.rows
          /\ (\A label \in VersionWriters : ~At(r, label)) => store'.versions = store.versions
          /\ At(r, "commit") => HasMoved(store, store', x)
      BY <1>1, <1>6, TablesBecome
    <3>2. \A label \in Readers : At(r, label) => store' = store
      BY ReadsOnly
    <3>3. L \notin {"commit", "rename_on_disk"} => store' = store
      BY <1>3, <1>4, <3>2 DEF Readers
    <3>4. L # "commit" => store'.rows = store.rows /\ store'.versions = store.versions
      BY <1>3, <1>4, <3>1 DEF RowWriters, VersionWriters
    <3> QED
      BY <1>3, <3>1, <3>3, <3>4
  <2>3. L \in {"find_source", "find_root", "find_parent", "find_none"} => Saw(base, y, n + 1)
    <3> SUFFICES ASSUME L \in {"find_source", "find_root", "find_parent", "find_none"}
                 PROVE  Saw(base, y, n + 1)
      OBVIOUS
    <3>0. store = base
      BY <1>2
    <3>1. IF op = "restore"
          THEN \E t \in TrashRoots(base) : t.path = p /\ t.orig = y.dest /\ t.dir = y.dir
          ELSE Live(base, p) /\ y.dir = RowAt(base, p).dir
      <4>1. CASE n = 1 /\ op = "restore"
        <5>1. At(r, "find_root")
          BY <1>3, <1>4, <4>1
        <5> QED
          BY <1>1, <1>6, <3>0, <4>1, <5>1, Source
      <4>2. CASE n = 1 /\ op # "restore"
        <5>1. At(r, "find_source")
          BY <1>3, <1>4, <4>2
        <5> QED
          BY <1>1, <1>6, <3>0, <4>2, <5>1, Source
      <4>3. CASE n # 1
        <5>1. n > 1 /\ y.dest = x.dest /\ y.dir = x.dir
          BY <1>4, <2>1, <4>3
        <5> QED
          BY <1>2, <5>1 DEF Saw
      <4> QED
        BY <4>1, <4>2, <4>3
    <3>2. Freed(op, n + 1) => ~Live(base, y.dest)
      <4>1. ASSUME L = "find_none" PROVE ~Live(base, y.dest)
        <5>1. Did(r) /\ At(r, "find_none")
          BY <1>1, <1>3, <1>6, <4>1, Outcome
        <5>2. ~Live(store, x.dest)
          BY <5>1 DEF Did
        <5> QED
          BY <1>4, <2>1, <3>0, <4>1, <5>2
      <4>2. ASSUME Freed(op, n) PROVE ~Live(base, y.dest)
        <5>1. n # 1
          BY <4>2 DEF Freed
        <5> QED
          BY <1>2, <2>1, <4>2, <5>1 DEF Saw
      <4> QED
        BY <1>4, <4>1, <4>2
    <3>3. Housed(op, n + 1) => /\ IsFolder(base, ParentOf(y.dest))
                               /\ op = "move" => ~(y.dir /\ FP!AtOrBelow(p, ParentOf(y.dest)))
      <4>1. ASSUME L = "find_parent"
            PROVE  /\ IsFolder(base, ParentOf(y.dest))
                   /\ op = "move" => ~(y.dir /\ FP!AtOrBelow(p, ParentOf(y.dest)))
        <5>1. At(r, "find_parent") /\ n # 1
          BY <1>3, <1>4, <4>1
        <5>2. ~At(r, "commit") /\ ~At(r, "read_back")
          BY <1>3, <4>1
        <5>3. InFlight(r)'
          BY <1>1, <2>1, <5>2, LastStep DEF InFlight, Movers
        <5>4. /\ FP!FolderAt(store.rows, ParentOf(x.dest))
              /\ op = "move" => ~(x.dir /\ FP!AtOrBelow(p, ParentOf(x.dest)))
          BY <1>1, <5>1, <5>3, FoundParent
        <5>5. IsFolder(base, ParentOf(x.dest))
          BY <3>0, <5>4, SameTypes DEF FP!FolderAt, IsFolder
        <5> QED
          BY <2>1, <5>1, <5>4, <5>5
      <4>2. ASSUME Housed(op, n)
            PROVE  /\ IsFolder(base, ParentOf(y.dest))
                   /\ op = "move" => ~(y.dir /\ FP!AtOrBelow(p, ParentOf(y.dest)))
        <5>1. n # 1
          BY <4>2 DEF Housed
        <5> QED
          BY <1>2, <2>1, <4>2, <5>1 DEF Saw
      <4> QED
        BY <1>4, <4>1, <4>2
    <3> QED
      BY <2>1, <3>1, <3>2, <3>3 DEF Saw
  <2>4. CASE L \in {"find_source", "find_root", "find_parent", "find_none"}
    <3>1. ~At(r, "commit") /\ ~At(r, "read_back")
      BY <1>3, <2>4
    <3>2. InFlight(r)'
      BY <1>1, <2>1, <3>1, LastStep DEF InFlight, Movers
    <3>3. n + 1 \in 1 .. Len(Plan(op))
      BY <1>1, <2>1, <3>2, RequestsStep DEF RequestsInv
    <3>4. Plan(y.op)[y.pc] \notin {"commit", "read_back"} /\ store' = base
      BY <1>2, <1>4, <2>1, <2>2, <2>4, <3>3
    <3> QED
      BY <2>1, <2>3, <2>4, <3>2, <3>4 DEF MoverAt
  <2>5. CASE L = "rename_on_disk"
    <3>1. ~At(r, "commit") /\ ~At(r, "read_back")
      BY <1>3, <2>5
    <3>2. InFlight(r)'
      BY <1>1, <2>1, <3>1, LastStep DEF InFlight, Movers
    <3>3. n + 1 \in 1 .. Len(Plan(op))
      BY <1>1, <2>1, <3>2, RequestsStep DEF RequestsInv
    <3>4. Plan(y.op)[y.pc] = "commit" /\ store = base /\ n > 1 /\ y.dest = x.dest /\ y.dir = x.dir
      BY <1>2, <1>4, <2>1, <2>5, <3>3
    <3>5. ~RelocateFails(base, y.path, y.dest, y.dir)
      <4>1. Did(r) /\ At(r, "rename_on_disk")
        BY <1>1, <1>3, <1>6, <2>5, Outcome
      <4>2. ~RelocateFails(store, p, x.dest, x.dir)
        BY <4>1 DEF Did
      <4> QED
        BY <2>1, <3>4, <4>2
    <3>6. Saw(base, y, n + 1) /\ Saw(base, y, 6)
      <4>1. /\ Freed(op, n + 1) \/ Freed(op, 6) => Freed(op, n)
            /\ Housed(op, n + 1) \/ Housed(op, 6) => Housed(op, n)
        BY <1>4, <2>5
      <4> QED
        BY <1>2, <2>1, <3>4, <4>1 DEF Saw
    <3>7. Tables(store', base.rows, base.versions)
      BY <2>2, <2>5, <3>4 DEF Tables
    <3> QED
      BY <2>1, <3>2, <3>4, <3>5, <3>6, <3>7 DEF MoverAt, Relocatable
  <2>6. CASE L = "commit"
    <3>1. HasMoved(base, store', x)
      BY <1>2, <2>2, <2>6 DEF HasMoved, Tables
    <3>2. MoverDone(base, store', x)
      BY <1>2, <2>6, <3>1 DEF MoverDone
    <3>3. ASSUME InFlight(r)' PROVE MoverAt(base, store', y)
      <4>1. n + 1 \in 1 .. Len(Plan(op))
        BY <1>1, <2>1, <3>3, RequestsStep DEF RequestsInv
      <4>2. Plan(y.op)[y.pc] = "read_back" /\ n > 1 /\ y.dest = x.dest /\ y.dir = x.dir
        BY <1>4, <2>1, <2>6, <4>1
      <4>3. MoverDone(base, store', y)
        BY <2>1, <3>2, <4>2 DEF MoverDone, Relocatable, HasMoved, Saw
      <4>4. Saw(base, y, n + 1)
        <5>1. /\ Freed(op, n + 1) => Freed(op, n)
              /\ Housed(op, n + 1) => Housed(op, n)
          BY <1>4, <2>6
        <5> QED
          BY <1>2, <2>1, <4>2, <5>1 DEF Saw
      <4> QED
        BY <2>1, <4>2, <4>3, <4>4 DEF MoverAt
    <3> QED
      BY <3>2, <3>3
  <2>7. CASE L = "read_back"
    <3>1. MoverDone(base, store', x)
      BY <1>2, <2>2, <2>7
    <3>2. ~InFlight(r)'
      <4> SUFFICES ASSUME InFlight(r)' PROVE FALSE
        OBVIOUS
      <4>1. n + 1 \in 1 .. Len(Plan(op))
        BY <1>1, <2>1, RequestsStep DEF RequestsInv
      <4> QED
        BY <1>4, <2>7, <4>1
    <3> QED
      BY <3>1, <3>2
  <2> QED
    BY <1>4, <2>4, <2>5, <2>6, <2>7
<1> QED
  BY <1>5, <1>6

(***************************************************************************)
(* What a handler has done in the end is a step of the sequential module.  *)
(***************************************************************************)

\* What r has drawn is not in use yet.
Unused(b, r) ==
  /\ \A e \in b.disk : e.path # Blob(r)
  /\ \A w \in b.rows : w.node # r
  /\ FP!NothingUnder(b.rows, r)

LEMMA SameFails ==
  \A s, p, q, d : FP!RelocateFails(s, p, q, d) = RelocateFails(s, p, q, d)
  BY DEF FP!RelocateFails, FP!KeyClash, FP!RenameFails, FP!MovedPath, FP!Rebase, FP!LikeBelow,
         FP!OnDisk, FP!Below, FP!ParentIsFile, FP!FileOn, FP!IsDirOn,
         RelocateFails, KeyClash, RenameFails, MovedPath, Rebase, LikeBelow, OnDisk, Below,
         ParentIsFile, FileOn, IsDirOn

\* The sequential module's sets of paths, and a path as an entry of its folder.
LEMMA LiveIn ==
  ASSUME NEW p, Live(base, p)
  PROVE  p \in Atomic!LivePaths
  BY DEF Live, Atomic!LivePaths

LEMMA InFolder ==
  ASSUME NEW p \in Path, p # Root, IsFolder(base, ParentOf(p))
  PROVE  /\ ParentOf(p) \in Atomic!Folders /\ NameOf(p) \in Segments
         /\ Append(ParentOf(p), NameOf(p)) = p
<1>1. Len(p) >= 1
  BY LongPath
<1>2. NameOf(p) \in Segments
  BY <1>1 DEF NameOf, Path
<1>3. Append(ParentOf(p), NameOf(p)) = p
  <2>1. p \in Seq(Segments) /\ Len(p) \in Nat /\ Len(p) >= 1
    BY <1>1 DEF Path
  <2> QED
    BY <2>1 DEF ParentOf, NameOf
<1>4. ParentOf(p) \in Atomic!Folders
  <2>1. CASE ParentOf(p) = Root
    BY <2>1, AtomicPaths DEF Atomic!Folders
  <2>2. CASE ParentOf(p) # Root
    <3>1. Live(base, ParentOf(p))
      BY <2>2 DEF IsFolder, Live
    <3> QED
      BY <3>1, LiveIn, AtomicQueries DEF Atomic!Folders
  <2> QED
    BY <2>1, <2>2
<1> QED
  BY <1>2, <1>3, <1>4

\* The row at a live path.
LEMMA LiveRow ==
  ASSUME NEW b, Sound(b), NEW p, Live(b, p)
  PROVE  LET w == RowAt(b, p)
         IN  /\ w \in b.rows /\ w.path = p /\ p \in Path /\ p # Root
             /\ w.name = NameOf(p) /\ w.node \in Nodes /\ w.dir \in BOOLEAN
             /\ IsFolder(b, ParentOf(p))
<1> DEFINE w == RowAt(b, p)
<1>1. /\ b.rows \subseteq RowType /\ \A u, v \in b.rows : u.path = v.path => u = v
      /\ \A u \in b.rows : Len(u.path) >= 1
  BY SameTypes DEF Sound, FP!StoreInv, FP!RowsInv, FP!KeysUnique
<1>2. w \in b.rows /\ w.path = p
  BY DEF Live, RowAt
<1>3. w.deleted = FALSE
  BY <1>1, <1>2 DEF Live, RowType
<1>4. p \in Path /\ p # Root /\ w.node \in Nodes /\ w.dir \in BOOLEAN
  BY <1>1, <1>2, LongPath DEF RowType
<1>5. w.orig = NoPath
  BY <1>2, <1>3 DEF Sound, MarksInv, FP!TrashInv
<1>6. w.name = NameOf(p) /\ w.parent = ParentOf(p) /\ FP!Placed(b.rows, w)
  BY <1>2, SamePaths DEF Sound, FP!TreeInv, FP!Columns
<1>7. IsFolder(b, ParentOf(p))
  BY <1>3, <1>5, <1>6, SameTypes DEF FP!Placed, IsFolder
<1> QED
  BY <1>2, <1>4, <1>6, <1>7

LEMMA UploadIsAtomic ==
  ASSUME LikeIsExact, IInv, SidesInv, NEW r \in Requests, InFlight(r), Sound(base), Sound(base'),
         Atomic!InBounds(base'), Unused(base, r), req[r].op \in {"upload", "chunked"},
         Uploaded(base, base', req[r], r)
  PROVE  Atomic!Next
<1> DEFINE p == req[r].path
<1>1. /\ p \in Path /\ p # Root /\ UserPath(p)
      /\ r \in Contents /\ r \in Refs /\ r \in Nodes
  BY RequestPaths, LongPath DEF IInv, SidesInv, Sided, UserPath
<1>2. CASE IsFile(base, p) /\ Tables(base', Rest(base, p) \cup {NewRow(p, FALSE, r, RowAt(base, p).node)},
                                     FP!Snapshot(base, p, r).versions)
  <2> DEFINE node == RowAt(base, p).node
  <2>1. Live(base, p)
    BY <1>2 DEF IsFile, Live
  <2>2. node \in Nodes
    BY <2>1, LiveRow
  <2>3. \A e \in base.disk : e.path # Blob(r)
    BY DEF Unused
  <2>4. Tables(base', Rest(base, p) \cup {NewRow(p, FALSE, r, node)}, FP!Snapshot(base, p, r).versions)
    BY <1>2
  <2>5. base' = FP!AddStream(FP!Overwritten(base, p, r), p, r, node)
    <3> HIDE DEF node, p
    <3> QED
      BY <1>1, <1>2, <2>2, <2>3, <2>4, Overwrote
  <2>6. Atomic!UploadOver(p, r, r)
    BY <1>2, <2>3, <2>5, AtomicAdds, AtomicQueries, AtomicPaths
       DEF Atomic!UploadOver, Atomic!FreshRef, Atomic!Become
  <2>7. p \in Atomic!LivePaths
    BY <2>1, LiveIn
  <2> QED
    BY <1>1, <2>6, <2>7 DEF Atomic!Next
<1>3. CASE ~Live(base, p) /\ IsFolder(base, ParentOf(p))
           /\ Tables(base', base.rows \cup {NewRow(p, FALSE, r, r)}, base.versions)
  <2>1. base' = FP!AddStream(base, p, r, r)
    <3>1. /\ Sound(base) /\ Sound(base') /\ p \in Path /\ p # Root /\ UserPath(p)
          /\ ~Live(base, p) /\ IsFolder(base, ParentOf(p)) /\ r \in Contents /\ r \in Nodes
          /\ Tables(base', base.rows \cup {NewRow(p, FALSE, r, r)}, base.versions)
      BY <1>1, <1>3
    <3> HIDE DEF p
    <3> QED
      BY <3>1, Made
  <2>2. /\ ParentOf(p) \in Atomic!Folders /\ NameOf(p) \in Segments
        /\ Append(ParentOf(p), NameOf(p)) = p
    BY <1>1, <1>3, InFolder
  <2>3. Atomic!Upload(ParentOf(p), NameOf(p), r, r)
    BY <1>3, <2>1, <2>2, AtomicAdds, AtomicQueries, AtomicPaths
       DEF Unused, Atomic!Upload, Atomic!FreshNode, Atomic!Become
  <2> QED
    BY <1>1, <2>2, <2>3 DEF Atomic!Next
<1> QED
  BY <1>2, <1>3 DEF Uploaded

LEMMA SaveIsAtomic ==
  ASSUME LikeIsExact, IInv, SidesInv, NEW r \in Requests, InFlight(r), Sound(base), Sound(base'),
         Atomic!InBounds(base'), Unused(base, r), req[r].op = "save",
         Saved(base, base', req[r], r)
  PROVE  Atomic!Next
<1> DEFINE p == req[r].path
           node == RowAt(base, p).node
<1>1. /\ p \in Path /\ p # Root /\ UserPath(p)
      /\ r \in Contents /\ r \in Refs /\ r \in Nodes
  BY RequestPaths, LongPath DEF IInv, SidesInv, Sided, UserPath
<1>2. /\ IsFile(base, p)
      /\ Tables(base', Rest(base, p) \cup {NewRow(p, FALSE, r, node)}, FP!Snapshot(base, p, r).versions)
  BY DEF Saved
<1>3. Live(base, p)
  BY <1>2 DEF IsFile, Live
<1>4. node \in Nodes
  BY <1>3, LiveRow
<1>5. \A e \in base.disk : e.path # Blob(r)
  BY DEF Unused
<1>6. base' = FP!AddBytes(FP!Overwritten(base, p, r), p, r, node)
  <2> HIDE DEF node, p
  <2> QED
    BY <1>1, <1>2, <1>4, <1>5, Overwrote
<1>7. Atomic!SaveContent(p, r, r)
  BY <1>2, <1>5, <1>6, AtomicAdds, AtomicQueries, AtomicPaths
     DEF Atomic!SaveContent, Atomic!FreshRef, Atomic!Become
<1>8. p \in Atomic!LivePaths
  BY <1>3, LiveIn
<1> QED
  BY <1>1, <1>7, <1>8 DEF Atomic!Next

LEMMA FolderIsAtomic ==
  ASSUME LikeIsExact, IInv, SidesInv, NEW r \in Requests, InFlight(r), Sound(base), Sound(base'),
         Atomic!InBounds(base'), Unused(base, r), req[r].op = "folder",
         FolderMade(base, base', req[r], r)
  PROVE  Atomic!Next
<1> DEFINE p == req[r].path
<1>1. /\ p \in Path /\ p # Root /\ UserPath(p)
      /\ r \in Contents /\ r \in Nodes
  BY RequestPaths, LongPath DEF IInv, SidesInv, Sided, UserPath
<1>2. /\ ~Live(base, p) /\ IsFolder(base, ParentOf(p))
      /\ Tables(base', base.rows \cup {NewRow(p, TRUE, NoSum, r)}, base.versions)
  BY DEF FolderMade
<1>3. base' = FP!AddFolder(base, p, r)
  <2> HIDE DEF p
  <2> QED
    BY <1>1, <1>2, Made
<1>4. /\ ParentOf(p) \in Atomic!Folders /\ NameOf(p) \in Segments
      /\ Append(ParentOf(p), NameOf(p)) = p
  BY <1>1, <1>2, InFolder
<1>5. Atomic!CreateFolder(ParentOf(p), NameOf(p), r)
  BY <1>2, <1>3, <1>4, AtomicAdds, AtomicQueries, AtomicPaths
     DEF Unused, Atomic!CreateFolder, Atomic!FreshNode, Atomic!Become
<1> QED
  BY <1>1, <1>4, <1>5 DEF Atomic!Next

LEMMA VersionIsAtomic ==
  ASSUME LikeIsExact, IInv, NEW r \in Requests, InFlight(r), Sound(base), Sound(base'),
         Atomic!InBounds(base'), Unused(base, r),
         RolledBackTo(base, base', req[r], r)
  PROVE  Atomic!Next
<1> DEFINE p == req[r].path
<1>1. IsFile(base, p) /\ r \in Refs
  BY RequestPaths DEF IInv, RolledBackTo
<1>2. PICK v \in VersionsAt(base, p) :
         Tables(base', Rehashed(base.rows, p, v.sum), FP!Snapshot(base, p, r).versions)
  BY DEF RolledBackTo
<1>3. Live(base, p)
  BY <1>1 DEF IsFile, Live
<1>5. \A e \in base.disk : e.path # Blob(r)
  BY DEF Unused
<1>6. base' = FP!RolledBack(FP!Snapshot(base, p, r), p, v)
  <2> HIDE DEF p
  <2> QED
    BY <1>1, <1>2, <1>5, RollsBack
<1>7. v \in base.versions /\ FileOn(base.disk, Blob(v.ref)) # {}
  <2>1. v \in base.versions
    BY <1>2 DEF VersionsAt
  <2>2. FP!BlobOf(v) \in base.disk /\ v.sum \in Contents
    BY <2>1, SameTypes DEF Sound, FP!Stored, FP!Blobs, FP!StoreInv, FP!VersionsInv, VersionType
  <2>3. FP!BlobOf(v).path = Blob(v.ref) /\ FP!BlobOf(v).data # DIR
    BY <2>2, SameDisk, StorageAssumption DEF FP!BlobOf
  <2> QED
    BY <2>1, <2>2, <2>3 DEF FileOn
<1>8. Atomic!RestoreVersion(p, v, r)
  BY <1>1, <1>2, <1>5, <1>6, <1>7, AtomicMoves, AtomicQueries, AtomicPaths
     DEF Atomic!RestoreVersion, Atomic!FreshRef, Atomic!Become
<1>9. p \in Atomic!LivePaths
  BY <1>3, LiveIn
<1> QED
  BY <1>1, <1>7, <1>8, <1>9 DEF Atomic!Next

LEMMA PurgeIsAtomic ==
  ASSUME LikeIsExact, Sound(base), Sound(base'), NEW r \in Requests,
         Atomic!InBounds(base'), PurgedTo(base, base', req[r])
  PROVE  Atomic!Next
<1>1. PICK t \in TrashRoots(base) : t.path = req[r].path
  BY DEF PurgedTo
<1>2. Tables(base', {w \in base.rows : ~Covers(t.path, w.path)},
             {v \in base.versions : ~Covers(t.path, v.path)})
  BY <1>1 DEF PurgedTo
<1>3. base' = FP!Purged(base, {t})
  BY <1>2, Purges
<1>4. t.path[1] = TRASH
  BY DEF TrashRoots, Sound, MarksInv, FP!TrashInv
<1>5. Atomic!Purge(t)
  BY <1>3, <1>4, AtomicMoves, AtomicQueries DEF Atomic!Purge, Atomic!Addressable, Atomic!Become
<1> QED
  BY <1>5, AtomicQueries DEF Atomic!Next

LEMMA RenameIsAtomic ==
  ASSUME LikeIsExact, IInv, SidesInv, NEW r \in Requests, InFlight(r), Sound(base), Sound(base'),
         Atomic!InBounds(base'), req[r].op \in {"rename", "move"},
         req[r].op = "move" => NameOf(req[r].dest) = NameOf(req[r].path),
         MoverDone(base, base', req[r])
  PROVE  Atomic!Next
<1> DEFINE x == req[r]
           p == x.path
           q == x.dest
           dir == RowAt(base, p).dir
<1>1. /\ q \in Path /\ q # Root /\ UserPath(q)
      /\ x.op = "rename" => ParentOf(q) = ParentOf(p)
  BY RequestPaths, LongPath DEF IInv, SidesInv, Sided
<1>2. /\ Live(base, p) /\ x.dir = dir /\ ~Live(base, q) /\ ~RelocateFails(base, p, q, dir)
      /\ x.op = "move" => IsFolder(base, ParentOf(q)) /\ ~(dir /\ FP!AtOrBelow(p, ParentOf(q)))
  BY DEF MoverDone, Relocatable, Saw, Freed, Housed
<1>3. Tables(base', RelocateRows(base.rows, p, q, dir), RelocateVersions(base.versions, p, q, dir))
  BY <1>2 DEF MoverDone, HasMoved, Tables
<1>4. IsFolder(base, ParentOf(p)) /\ RowAt(base, p).name = NameOf(p)
  BY <1>2, LiveRow
<1>5. IsFolder(base, ParentOf(q))
  BY <1>1, <1>2, <1>4
<1>6. base' = FP!Relocate(base, p, q, dir)
  <2>1. ~FP!RelocateFails(base, p, q, RowAt(base, p).dir)
    BY <1>2, SameFails
  <2> HIDE DEF p, q
  <2> QED
    BY <1>1, <1>2, <1>3, <1>5, <2>1, Relocates
<1>7. /\ ParentOf(q) \in Atomic!Folders /\ NameOf(q) \in Segments
      /\ Append(ParentOf(q), NameOf(q)) = q
  BY <1>1, <1>5, InFolder
<1>8. p \in Atomic!LivePaths /\ q # p
  BY <1>2, LiveIn
<1>9. Atomic!Live(base, p) /\ ~Atomic!Live(base, q) /\ Atomic!CanRelocate(p, q)
      /\ Atomic!Become(Atomic!Relocated(p, q))
  BY <1>2, <1>6, AtomicQueries, AtomicMoves, SameFails
     DEF Atomic!CanRelocate, Atomic!Relocated, Atomic!Become
<1>10. CASE x.op = "rename"
  <2>1. Atomic!Child(Atomic!ParentOf(p), NameOf(q)) = q
    BY <1>1, <1>7, <1>10, AtomicPaths
  <2>2. Atomic!Rename(p, NameOf(q))
    BY <1>8, <1>9, <2>1 DEF Atomic!Rename
  <2> QED
    BY <1>7, <1>8, <2>2 DEF Atomic!Next
<1>11. CASE x.op = "move"
  <2>1. Atomic!Child(ParentOf(q), Atomic!RowAt(base, p).name) = q
    BY <1>4, <1>7, <1>11, AtomicPaths, AtomicQueries
  <2>2. ~(Atomic!RowAt(base, p).dir /\ (ParentOf(q) = p \/ Atomic!Below(p, ParentOf(q))))
    BY <1>2, <1>11, AtomicQueries, AtomicPaths, SamePaths DEF FP!AtOrBelow
  <2>3. Atomic!Move(p, ParentOf(q))
    BY <1>7, <1>8, <1>9, <2>1, <2>2 DEF Atomic!Move
  <2> QED
    BY <1>7, <1>8, <2>3 DEF Atomic!Next
<1> QED
  BY <1>10, <1>11

LEMMA DeleteIsAtomic ==
  ASSUME LikeIsExact, IInv, SidesInv, NEW r \in Requests, InFlight(r), Sound(base), Sound(base'),
         Atomic!InBounds(base'), Unused(base, r), req[r].op = "delete", MoverDone(base, base', req[r])
  PROVE  Atomic!Next
<1> DEFINE x == req[r]
           p == x.path
           dir == RowAt(base, p).dir
           q == TrashPath(r, RowAt(base, p).name)
<1>1. x.dest = TrashPath(r, NameOf(p))
  BY DEF SidesInv, Sided
<1>2. Live(base, p) /\ x.dir = dir
  BY DEF MoverDone, Relocatable, Saw
<1>3. x.dest = q
  BY <1>1, <1>2, LiveRow
<1>4. ~RelocateFails(base, p, q, dir)
  BY <1>2, <1>3 DEF MoverDone, Relocatable
<1>5. Tables(base', Stamped(RelocateRows(base.rows, p, q, dir), q, p),
             RelocateVersions(base.versions, p, q, dir))
  BY <1>2, <1>3 DEF MoverDone, HasMoved, Tables
<1>6. r \in Segments /\ r # VERSIONS /\ FP!NothingUnder(base.rows, r)
  BY AsyncAssumption DEF Unused
<1>7. base' = FP!SoftDelete(base, p, r)
  <2>1. ~FP!RelocateFails(base, p, TrashPath(r, RowAt(base, p).name), RowAt(base, p).dir)
    BY <1>4, SameFails
  <2> HIDE DEF p
  <2> QED
    BY <1>2, <1>5, <1>6, <2>1, Trashes
<1>8. Atomic!FreshTrash(r)
  BY <1>6, AtomicPaths, SamePaths DEF Atomic!FreshTrash, FP!NothingUnder
<1>9. Atomic!Delete(p, r)
  BY <1>2, <1>4, <1>7, <1>8, AtomicQueries, AtomicMoves, AtomicPaths, SameFails
     DEF Atomic!Delete, Atomic!CanRelocate, Atomic!Become
<1>10. p \in Atomic!LivePaths
  BY <1>2, LiveIn
<1> QED
  BY <1>9, <1>10 DEF Atomic!Next

LEMMA RestoreIsAtomic ==
  ASSUME LikeIsExact, IInv, NEW r \in Requests, InFlight(r), Sound(base), Sound(base'),
         Atomic!InBounds(base'), req[r].op = "restore", MoverDone(base, base', req[r])
  PROVE  Atomic!Next
<1> DEFINE x == req[r]
<1>1. PICK t \in TrashRoots(base) : t.path = x.path /\ t.orig = x.dest /\ t.dir = x.dir
  BY DEF MoverDone, Relocatable, Saw
<1>2. /\ ~Live(base, t.orig) /\ IsFolder(base, ParentOf(t.orig))
      /\ ~RelocateFails(base, t.path, t.orig, t.dir)
  BY <1>1 DEF MoverDone, Relocatable, Saw, Freed, Housed
<1>3. Tables(base', Unstamped(RelocateRows(base.rows, t.path, t.orig, t.dir), t.orig),
             RelocateVersions(base.versions, t.path, t.orig, t.dir))
  BY <1>1 DEF MoverDone, HasMoved, Tables
<1>4. base' = FP!Restored(base, t)
  <2>1. ~FP!RelocateFails(base, t.path, t.orig, t.dir)
    BY <1>2, SameFails
  <2> QED
    BY <1>2, <1>3, <2>1, Restores
<1>5. t.path[1] = TRASH
  BY DEF TrashRoots, Sound, MarksInv, FP!TrashInv
<1>6. Atomic!Restore(t)
  BY <1>2, <1>4, <1>5, AtomicMoves, AtomicQueries, AtomicPaths, SameFails
     DEF Atomic!Restore, Atomic!Addressable, Atomic!Become
<1> QED
  BY <1>6, AtomicQueries DEF Atomic!Next

(***************************************************************************)
(* Any handler.                                                            *)
(***************************************************************************)

\* The request is served from b, has come to x, and the store to s.
HandlerAt(b, s, x, r) ==
  /\ x.op \in {"upload", "chunked"} => UploadAt(b, s, x, r)
  /\ x.op = "save" => SaveAt(b, s, x, r)
  /\ x.op = "version" => VersionAt(b, s, x, r)
  /\ x.op = "folder" => FolderGoes(b, s, x, r)
  /\ x.op = "purge" => PurgeAt(b, s, x)
  /\ x.op \in Movers => MoverAt(b, s, x)

\* It was served, from b, and left s.
HandlerDone(b, s, x, r) ==
  /\ x.op \in {"upload", "chunked"} => Uploaded(b, s, x, r)
  /\ x.op = "save" => Saved(b, s, x, r)
  /\ x.op = "version" => RolledBackTo(b, s, x, r)
  /\ x.op = "folder" => FolderMade(b, s, x, r)
  /\ x.op = "purge" => PurgedTo(b, s, x)
  /\ x.op \in Movers => MoverDone(b, s, x)

LEMMA OpKinds ==
  \A op \in Ops : \/ op \in {"upload", "chunked"} \/ op \in Movers
                  \/ op = "save" \/ op = "version" \/ op = "folder" \/ op = "purge"
  BY DEF Ops, Movers

\* A step takes it on, or ends it: with nothing done or with all.
LEMMA HandlerStep ==
  ASSUME LikeIsExact, Settled, NEW r \in Requests, Step(r), ~faults',
         Sound(base), HandlerAt(base, store, req[r], r)
  PROVE  /\ InFlight(r)' => HandlerAt(base, store', req'[r], r)
         /\ ~InFlight(r)' => \/ Tables(store', base.rows, base.versions)
                             \/ HandlerDone(base, store', req[r], r)
<1>1. req'[r].op = req[r].op /\ req[r].op \in Ops
  BY StepFields DEF Settled, Calm, MarksIInv
<1>2. CASE req[r].op \in {"upload", "chunked"}
  <2>1. UploadAt(base, store, req[r], r)
    BY <1>2 DEF HandlerAt
  <2>2. /\ InFlight(r)' => UploadAt(base, store', req'[r], r)
        /\ ~InFlight(r)' => \/ Tables(store', base.rows, base.versions)
                            \/ Uploaded(base, store', req[r], r)
    BY <1>2, <2>1, UploadStep
  <2> QED
    BY <1>1, <1>2, <2>2 DEF HandlerAt, HandlerDone, Movers
<1>3. CASE req[r].op = "save"
  <2>1. SaveAt(base, store, req[r], r)
    BY <1>3 DEF HandlerAt
  <2>2. /\ InFlight(r)' => SaveAt(base, store', req'[r], r)
        /\ ~InFlight(r)' => \/ Tables(store', base.rows, base.versions)
                            \/ Saved(base, store', req[r], r)
    BY <1>3, <2>1, SaveStep
  <2> QED
    BY <1>1, <1>3, <2>2 DEF HandlerAt, HandlerDone, Movers
<1>4. CASE req[r].op = "version"
  <2>1. VersionAt(base, store, req[r], r)
    BY <1>4 DEF HandlerAt
  <2>2. /\ InFlight(r)' => VersionAt(base, store', req'[r], r)
        /\ ~InFlight(r)' => \/ Tables(store', base.rows, base.versions)
                            \/ RolledBackTo(base, store', req[r], r)
    BY <1>4, <2>1, VersionStep
  <2> QED
    BY <1>1, <1>4, <2>2 DEF HandlerAt, HandlerDone, Movers
<1>5. CASE req[r].op = "folder"
  <2>1. FolderGoes(base, store, req[r], r)
    BY <1>5 DEF HandlerAt
  <2>2. /\ InFlight(r)' => FolderGoes(base, store', req'[r], r)
        /\ ~InFlight(r)' => \/ Tables(store', base.rows, base.versions)
                            \/ FolderMade(base, store', req[r], r)
    BY <1>5, <2>1, FolderStep
  <2> QED
    BY <1>1, <1>5, <2>2 DEF HandlerAt, HandlerDone, Movers
<1>6. CASE req[r].op = "purge"
  <2>1. PurgeAt(base, store, req[r])
    BY <1>6 DEF HandlerAt
  <2>2. /\ InFlight(r)' => PurgeAt(base, store', req'[r])
        /\ ~InFlight(r)' => \/ Tables(store', base.rows, base.versions)
                            \/ PurgedTo(base, store', req[r])
    BY <1>6, <2>1, PurgeStep
  <2> QED
    BY <1>1, <1>6, <2>2 DEF HandlerAt, HandlerDone, Movers
<1>7. CASE req[r].op \in Movers
  <2>1. MoverAt(base, store, req[r])
    BY <1>7 DEF HandlerAt
  <2>2. /\ InFlight(r)' => MoverAt(base, store', req'[r])
        /\ ~InFlight(r)' => \/ Tables(store', base.rows, base.versions)
                            \/ MoverDone(base, store', req[r])
    BY <1>7, <2>1, MoverStep
  <2>3. req[r].op \notin {"upload", "chunked", "save", "version", "folder", "purge"}
    BY <1>7 DEF Movers
  <2> QED
    BY <1>1, <2>2, <2>3 DEF HandlerAt, HandlerDone
<1> QED
  BY <1>1, <1>2, <1>3, <1>4, <1>5, <1>6, <1>7, OpKinds

\* All of it is one step of the sequential module.
LEMMA HandlerIsAtomic ==
  ASSUME LikeIsExact, IInv, SidesInv, NEW r \in Requests, InFlight(r), Sound(base), Sound(base'),
         Atomic!InBounds(base'), Unused(base, r),
         req[r].op = "move" => NameOf(req[r].dest) = NameOf(req[r].path),
         HandlerDone(base, base', req[r], r)
  PROVE  Atomic!Next
<1>1. req[r].op \in Ops
  BY DEF IInv, RequestsInv, Knows
<1>2. CASE req[r].op \in {"upload", "chunked"}
  <2>1. Uploaded(base, base', req[r], r)
    BY <1>2 DEF HandlerDone
  <2> QED
    BY <1>2, <2>1, UploadIsAtomic
<1>3. CASE req[r].op = "save"
  <2>1. Saved(base, base', req[r], r)
    BY <1>3 DEF HandlerDone
  <2> QED
    BY <1>3, <2>1, SaveIsAtomic
<1>4. CASE req[r].op = "version"
  <2>1. RolledBackTo(base, base', req[r], r)
    BY <1>4 DEF HandlerDone
  <2> QED
    BY <2>1, VersionIsAtomic
<1>5. CASE req[r].op = "folder"
  <2>1. FolderMade(base, base', req[r], r)
    BY <1>5 DEF HandlerDone
  <2> QED
    BY <1>5, <2>1, FolderIsAtomic
<1>6. CASE req[r].op = "purge"
  <2>1. PurgedTo(base, base', req[r])
    BY <1>6 DEF HandlerDone
  <2> QED
    BY <2>1, PurgeIsAtomic
<1>7. CASE req[r].op \in Movers
  <2>1. MoverDone(base, base', req[r])
    BY <1>7 DEF HandlerDone
  <2>2. req[r].op \in {"rename", "move"} \/ req[r].op = "delete" \/ req[r].op = "restore"
    BY <1>7 DEF Movers
  <2>3. CASE req[r].op \in {"rename", "move"}
    BY <2>1, <2>3, RenameIsAtomic
  <2>4. CASE req[r].op = "delete"
    BY <2>1, <2>4, DeleteIsAtomic
  <2>5. CASE req[r].op = "restore"
    BY <2>1, <2>5, RestoreIsAtomic
  <2> QED
    BY <2>2, <2>3, <2>4, <2>5
<1> QED
  BY <1>1, <1>2, <1>3, <1>4, <1>5, <1>6, <1>7, OpKinds

\* A request that was not made yet has no entry of its making.
NodesFresh ==
  \A q \in Requests : req[q].status = "idle" =>
    /\ \A w \in store.rows : w.node # q
    /\ \A o \in Requests : InFlight(o) => req[o].node # q

\* Setting or clearing a row's original path keeps what its entry is.
LEMMA StampedNodes ==
  ASSUME NEW rows, NEW p, NEW orig, \A t \in rows : "node" \in DOMAIN t,
         NEW w \in Stamped(rows, p, orig)
  PROVE  \E t \in rows : w.node = t.node
BY DEF Stamped

LEMMA UnstampedNodes ==
  ASSUME NEW rows, NEW p, \A t \in rows : "node" \in DOMAIN t,
         NEW w \in Unstamped(rows, p)
  PROVE  \E t \in rows : w.node = t.node
BY DEF Unstamped

\* Rows are only made by insert steps; all else keeps what the entry is.
LEMMA NodesFrom ==
  ASSUME IInv, NEW r \in Requests, Step(r), NEW w \in store'.rows
  PROVE  (\E u \in store.rows : w.node = u.node) \/ w.node = req[r].node
<1> DEFINE x == req[r]
           p == x.path
           rows == RelocateRows(store.rows, x.path, x.dest, x.dir)
<1>1. store \in StoreType /\ store.rows \subseteq RowType /\ InFlight(r)
  BY StepLabel, SameTypes DEF IInv, FP!StoreInv, FP!RowsInv
<1>2. CASE store'.rows = store.rows
  BY <1>2
<1>3. CASE \E dir, sum : store'.rows = store.rows \cup {NewRow(p, dir, sum, x.node)}
  BY <1>3 DEF NewRow
<1>4. CASE store'.rows \subseteq store.rows
  BY <1>4
<1>5. CASE \E sum : store'.rows = Rehashed(store.rows, p, sum)
  <2>1. PICK sum : store'.rows = Rehashed(store.rows, p, sum)
    BY <1>5
  <2>2. PICK u \in store.rows : w = IF u.path = p THEN [u EXCEPT !.sum = sum] ELSE u
    BY <2>1 DEF Rehashed
  <2> QED
    BY <1>1, <2>2 DEF RowType
<1>6. CASE store'.rows \in {Stamped(rows, x.dest, x.path), Unstamped(rows, x.dest), rows}
  <2> DEFINE from(t) == "node" \in DOMAIN t /\ \E u \in store.rows : t.node = u.node
  <2>1. ASSUME NEW t \in rows PROVE from(t)
    <3>1. PICK u \in store.rows : t = MovedRow(x.path, x.dest, x.dir, u)
      BY <2>1 DEF RelocateRows
    <3>2. "node" \in DOMAIN u
      BY <1>1 DEF RowType
    <3>3. "node" \in DOMAIN t /\ t.node = u.node
      BY <3>1, <3>2 DEF MovedRow
    <3> QED
      BY <3>3
  <2> HIDE DEF rows
  <2>3. \E t \in rows : w.node = t.node
    <3>1. \A t \in rows : "node" \in DOMAIN t
      BY <2>1
    <3>2. CASE store'.rows = Stamped(rows, x.dest, x.path)
      BY <3>1, <3>2, StampedNodes
    <3>3. CASE store'.rows = Unstamped(rows, x.dest)
      BY <3>1, <3>3, UnstampedNodes
    <3>4. CASE store'.rows = rows
      BY <3>4
    <3> QED
      BY <1>6, <3>2, <3>3, <3>4
  <2> QED
    BY <2>1, <2>3
<1>7. \/ store'.rows = store.rows
      \/ \E dir, sum : store'.rows = store.rows \cup {NewRow(p, dir, sum, x.node)}
      \/ store'.rows \subseteq store.rows
      \/ \E sum : store'.rows = Rehashed(store.rows, p, sum)
      \/ store'.rows \in {Stamped(rows, x.dest, x.path), Unstamped(rows, x.dest), rows}
  <2>1. RowsChange(r)
    BY StepTables
  <2> HIDE DEF rows
  <2> QED
    BY <2>1 DEF RowsChange, rows
<1> QED
  BY <1>2, <1>3, <1>4, <1>5, <1>6, <1>7

LEMMA NodesStep ==
  ASSUME IInv, NodesFresh, NEW r \in Requests, Step(r)
  PROVE  NodesFresh'
<1>1. /\ InFlight(r) /\ req'[r].status # "idle"
      /\ \A o \in Requests \ {r} : req'[o] = req[o]
  BY StepFields
<1>2. SUFFICES ASSUME NEW q \in Requests, req'[q].status = "idle"
               PROVE  /\ \A w \in store'.rows : w.node # q
                      /\ \A o \in Requests : InFlight(o)' => req'[o].node # q
  BY DEF NodesFresh
<1>3. /\ req[q].status = "idle" /\ \A w \in store.rows : w.node # q
      /\ \A o \in Requests : InFlight(o) => req[o].node # q
  BY <1>1, <1>2 DEF NodesFresh
<1>4. \A w \in store'.rows : w.node # q
  BY <1>1, <1>3, NodesFrom
<1>5. InFlight(r)' => req'[r].node # q
  <2> SUFFICES ASSUME InFlight(r)' PROVE req'[r].node # q
    OBVIOUS
  <2>1. req'[r].status # "failed"
    BY DEF InFlight
  <2>2. \/ IsFile(store, req[r].path) /\ req'[r].node = RowAt(store, req[r].path).node
        \/ req'[r].node = req[r].node
    BY <2>1, NodeKept
  <2>3. IsFile(store, req[r].path) => RowAt(store, req[r].path) \in store.rows
    BY DEF IsFile, RowAt
  <2> QED
    BY <1>1, <1>3, <2>2, <2>3
<1>6. \A o \in Requests \ {r} : InFlight(o)' => req'[o].node # q
  BY <1>1, <1>3 DEF InFlight
<1> QED
  BY <1>4, <1>5, <1>6

\* What a request draws when it is made is not in use.
LEMMA DrawnUnused ==
  ASSUME Settled, Sound(store), NodesFresh, NEW r \in Requests, req[r].status = "idle"
  PROVE  Unused(store, r)
<1>1. FP!NothingUnder(store.rows, r) /\ \A v \in store.versions : v.ref # r
  BY DEF Settled, Calm, MarksIInv, DrawsInv, Spent
<1>2. \A w \in store.rows : w.node # r
  BY DEF NodesFresh
<1>3. ASSUME NEW e \in store.disk PROVE e.path # Blob(r)
  <2>1. e \in FP!Bytes(store.rows) \/ e \in FP!Blobs(store.versions)
    BY DEF Sound, FP!Stored
  <2>2. CASE e \in FP!Bytes(store.rows)
    <3>1. e.path[1] # VERSIONS
      BY <2>2 DEF Sound, FP!Apart, FP!Bytes, FP!Entry
    <3> QED
      BY <3>1 DEF Blob
  <2>3. CASE e \in FP!Blobs(store.versions)
    <3>1. PICK v \in store.versions : e.path = FP!Blob(v.ref)
      BY <2>3 DEF FP!Blobs, FP!BlobOf
    <3> QED
      BY <1>1, <3>1 DEF FP!Blob, Blob
  <2> QED
    BY <2>1, <2>2, <2>3
<1> QED
  BY <1>1, <1>2, <1>3 DEF Unused

LEMMA HandlerBegins ==
  ASSUME NEW b, NEW r \in Requests, NEW in \in Inputs
  PROVE  HandlerAt(b, b, Started(r, in), r)
<1> DEFINE x == Started(r, in)
<1>1. x.op \in Ops /\ x.op = in.op /\ x.pc = 1 /\ x.node = r
  BY InputAssumption DEF Started
<1> HIDE DEF x
<1>2. /\ UploadAt(b, b, x, r) /\ SaveAt(b, b, x, r) /\ VersionAt(b, b, x, r)
      /\ FolderGoes(b, b, x, r) /\ PurgeAt(b, b, x)
  BY <1>1 DEF UploadAt, SaveAt, VersionAt, FolderGoes, PurgeAt, Tables
<1>3. ASSUME x.op \in Movers PROVE MoverAt(b, b, x)
  <2>1. Plan(x.op)[1] \notin {"commit", "read_back"}
    BY <1>3 DEF Movers, Plan, RenamePlan, MovePlan, DeletePlan, RestorePlan
  <2>2. Saw(b, x, 1)
    BY DEF Saw, Freed, Housed
  <2> QED
    BY <1>1, <2>1, <2>2 DEF MoverAt
<1> QED
  BY <1>2, <1>3 DEF HandlerAt, x

(* At rest the store is sound, in any state and so in the next one.        *)
AtRest == Settled /\ Quiet => Sound(store)
LEMMA SoundWhenAtRest == AtRest
  BY SoundAtRest DEF AtRest
LEMMA SoundAtRestNext == AtRest'
  BY SoundWhenAtRest, PTL

(* The invariant of the requests served one at a time.                     *)
SerialIInv ==
  /\ SettledIInv /\ ~overlap /\ ~faults /\ NodesFresh /\ Sound(base)
  /\ Quiet => store = base
  /\ \A r \in Requests : InFlight(r) =>
       /\ Alone(r) /\ HandlerAt(base, store, req[r], r) /\ Unused(base, r)
       /\ req[r].op = "move" => NameOf(req[r].dest) = NameOf(req[r].path)

LEMMA SerialInitially ==
  ASSUME LikeIsExact, OnlyUserPaths, SerialInit
  PROVE  SerialIInv
<1>1. SettledIInv /\ ~overlap /\ ~faults
  BY BytesInit, SettledInit DEF SettledIInv, SerialInit, Init
<1>2. /\ store = base /\ store = Initial
      /\ \A r \in Requests : ~InFlight(r)
  BY DEF SerialInit, Init, InFlight, Idle
<1>3. Sound(base)
  BY <1>1, <1>2, SoundAtRest DEF SettledIInv, Quiet
<1>4. NodesFresh
  BY <1>2, StartAssumption DEF NodesFresh
<1> QED
  BY <1>1, <1>2, <1>3, <1>4 DEF SerialIInv

LEMMA SerialBegin ==
  ASSUME LikeIsExact, OnlyUserPaths, SerialIInv, Quiet, NEW r \in Requests, NEW in \in Inputs,
         Begin(r, in), Remembered
  PROVE  SerialIInv' /\ base' = base
<1>1. IInv /\ Settled /\ store = base /\ Sound(base) /\ NodesFresh
  BY DEF SerialIInv, SettledIInv, Settled, Calm, MarksIInv
<1>2. /\ req[r].status = "idle" /\ req'[r] = Started(r, in)
      /\ \A o \in Requests \ {r} : req'[o] = req[o]
      /\ store' = store /\ faults' = faults
  BY <1>1, BeginRequests
<1>3. InFlight(r)' /\ \A o \in Requests \ {r} : ~InFlight(o)'
  BY <1>2 DEF InFlight, Quiet, Started
<1>4. ~Quiet'
  BY <1>3 DEF Quiet
<1>5. base' = base
  BY <1>4 DEF Remembered
<1>6. SettledIInv'
  BY SettledNext DEF SerialIInv, Next
<1>7. ~overlap' /\ ~faults'
  <2>1. \A x : ~Crosses(r, x)
    BY DEF Crosses, Quiet
  <2>2. overlap' = (overlap \/ Crosses(r, Started(r, in)))
    BY DEF Begin
  <2>3. ~overlap /\ ~faults
    BY DEF SerialIInv
  <2>4. ~Crosses(r, Started(r, in))
    BY <2>1
  <2> QED
    BY <1>2, <2>2, <2>3, <2>4
<1>8. NodesFresh'
  <2> SUFFICES ASSUME NEW q \in Requests, req'[q].status = "idle"
               PROVE  /\ \A w \in store'.rows : w.node # q
                      /\ \A o \in Requests : InFlight(o)' => req'[o].node # q
    BY DEF NodesFresh
  <2>1. q # r /\ req[q].status = "idle"
    BY <1>2, <1>3 DEF InFlight
  <2>2. \A w \in store'.rows : w.node # q
    BY <1>1, <1>2, <2>1 DEF NodesFresh
  <2>3. req'[r].node = r
    BY <1>2 DEF Started
  <2> QED
    BY <1>3, <2>1, <2>2, <2>3
<1>9. ASSUME NEW o \in Requests, InFlight(o)'
      PROVE  /\ Alone(o)' /\ HandlerAt(base', store', req'[o], o) /\ Unused(base', o)
             /\ req'[o].op = "move" => NameOf(req'[o].dest) = NameOf(req'[o].path)
  <2>1. o = r
    BY <1>3, <1>9
  <2>2. Alone(o)'
    BY <1>3, <2>1 DEF Alone
  <2>3. HandlerAt(base', store', req'[o], o)
    BY <1>1, <1>2, <1>5, <2>1, HandlerBegins
  <2>4. Unused(base', o)
    BY <1>1, <1>2, <1>5, <2>1, DrawnUnused
  <2>5. req'[o].op = "move" => NameOf(req'[o].dest) = NameOf(req'[o].path)
    BY <1>2, <2>1, InputAssumption DEF Started, Destination
  <2> QED
    BY <2>2, <2>3, <2>4, <2>5
<1>10. Sound(base')
  BY <1>1, <1>5
<1> QED
  BY <1>4, <1>5, <1>6, <1>7, <1>8, <1>9, <1>10 DEF SerialIInv

LEMMA SerialStep ==
  ASSUME LikeIsExact, OnlyUserPaths, SerialIInv, NEW r \in Requests, Step(r), Remembered
  PROVE  SerialIInv' /\ (Atomic!InBounds(base') => [Atomic!Next]_base)
<1> DEFINE x == req[r]
           y == req'[r]
<1>1. IInv /\ SidesInv /\ Settled /\ Sound(base) /\ NodesFresh /\ ~overlap /\ ~faults
  BY DEF SerialIInv, SettledIInv, Settled, Calm, MarksIInv
<1>2. /\ InFlight(r) /\ Alone(r) /\ HandlerAt(base, store, x, r) /\ Unused(base, r)
      /\ x.op = "move" => NameOf(x.dest) = NameOf(x.path)
  BY StepLabel DEF SerialIInv
<1>3. ~overlap' /\ ~faults'
  BY <1>1, <1>2, NoWaiting
<1>4. SettledIInv' /\ Settled'
  <2>1. SettledIInv'
    BY SettledNext DEF SerialIInv, Next
  <2> QED
    BY <1>3, <2>1 DEF SettledIInv
<1>5. NodesFresh'
  BY <1>1, NodesStep
<1>6. /\ InFlight(r)' => HandlerAt(base, store', y, r)
      /\ ~InFlight(r)' => Tables(store', base.rows, base.versions) \/ HandlerDone(base, store', x, r)
  BY <1>1, <1>2, <1>3, HandlerStep
<1>7. \A o \in Requests \ {r} : ~InFlight(o)'
  BY <1>1, <1>2, StepFields DEF Alone, InFlight
<1>8. CASE InFlight(r)'
  <2>1. ~Quiet' /\ base' = base
    BY <1>8 DEF Quiet, Remembered
  <2>2. Alone(r)'
    BY <1>7 DEF Alone
  <2>3. HandlerAt(base', store', y, r) /\ Unused(base', r) /\ Sound(base')
    BY <1>1, <1>2, <1>6, <1>8, <2>1
  <2>4. y.op = "move" => NameOf(y.dest) = NameOf(y.path)
    BY <1>1, <1>2, StepFields
  <2>5. SerialIInv'
    BY <1>3, <1>4, <1>5, <1>7, <2>1, <2>2, <2>3, <2>4 DEF SerialIInv
  <2> QED
    BY <2>1, <2>5
<1>9. CASE ~InFlight(r)'
  <2>1. Quiet' /\ base' = store'
    BY <1>7, <1>9 DEF Quiet, Remembered
  <2>2. Sound(base')
    <3>1. Sound(store')
      BY <1>4, <2>1, SoundAtRestNext DEF AtRest
    <3> QED
      BY <2>1, <3>1
  <2>3. SerialIInv'
    BY <1>3, <1>4, <1>5, <1>7, <1>9, <2>1, <2>2 DEF SerialIInv
  <2>4. CASE Tables(store', base.rows, base.versions)
    <3>1. /\ FP!StoreInv(base) /\ FP!Stored(base) /\ FP!StoreInv(base') /\ FP!Stored(base')
          /\ base'.rows = base.rows /\ base'.versions = base.versions
      BY <1>1, <2>1, <2>2, <2>4 DEF Sound, Tables
    <3>2. base' = base
      BY <3>1, SameTables
    <3> QED
      BY <2>3, <3>2
  <2>5. CASE HandlerDone(base, store', x, r)
    <3>1. HandlerDone(base, base', x, r)
      BY <2>1, <2>5
    <3>2. ASSUME Atomic!InBounds(base') PROVE Atomic!Next
      BY <1>1, <1>2, <2>2, <3>1, <3>2, HandlerIsAtomic
    <3> QED
      BY <2>3, <3>2
  <2> QED
    BY <1>6, <1>9, <2>4, <2>5
<1> QED
  BY <1>8, <1>9

LEMMA SerialStays ==
  ASSUME LikeIsExact, OnlyUserPaths, SerialIInv, [SerialNext]_<<vars, base>>
  PROVE  SerialIInv' /\ (Atomic!InBounds(base') => [Atomic!Next]_base)
<1>1. ASSUME NEW r \in Requests, NEW in \in Inputs, Quiet, Begin(r, in), Remembered
      PROVE  SerialIInv' /\ (Atomic!InBounds(base') => [Atomic!Next]_base)
  BY <1>1, SerialBegin
<1>2. ASSUME NEW r \in Requests, Step(r), Remembered
      PROVE  SerialIInv' /\ (Atomic!InBounds(base') => [Atomic!Next]_base)
  BY <1>2, SerialStep
<1>3. CASE UNCHANGED <<vars, base>>
  <2>1. store' = store /\ req' = req /\ overlap' = overlap /\ faults' = faults /\ base' = base
    BY <1>3 DEF vars
  <2>2. SettledIInv'
    BY <1>3, SettledNext DEF SerialIInv
  <2>3. \A r \in Requests : (InFlight(r)' <=> InFlight(r)) /\ (Alone(r)' <=> Alone(r))
    BY <2>1 DEF InFlight, Alone
  <2>4. NodesFresh' /\ (Quiet' <=> Quiet)
    BY <2>1, <2>3 DEF NodesFresh, Quiet, SerialIInv
  <2> QED
    BY <2>1, <2>2, <2>3, <2>4 DEF SerialIInv
<1> QED
  BY <1>1, <1>2, <1>3 DEF SerialNext

(* HandlersAreAtomic: served one at a time, every handler as a whole, from *)
(* its request to its answer, whatever statements and file operations it   *)
(* runs and wherever it fails, comes to one step of the sequential module  *)
(* or to none.  So what is proved of the endpoints as single steps holds   *)
(* of the code as it is written.  The sequential module's bounds on the    *)
(* number of rows are no part of this: they are assumed not to be reached. *)
THEOREM HandlersActAtomically ==
  ASSUME LikeIsExact, OnlyUserPaths
  PROVE  SerialSpec /\ []Atomic!InBounds(base) => HandlersAreAtomic
<1>1. SerialInit => SerialIInv
  BY SerialInitially
<1>2. SerialIInv /\ [SerialNext]_<<vars, base>> => SerialIInv'
  BY SerialStays
<1>3. SerialIInv /\ [SerialNext]_<<vars, base>> /\ Atomic!InBounds(base)' => [Atomic!Next]_base
  <2>1. Atomic!InBounds(base)' <=> Atomic!InBounds(base')
    BY DEF Atomic!InBounds
  <2> QED
    BY <2>1, SerialStays
<1> QED
  BY <1>1, <1>2, <1>3, PTL DEF SerialSpec, HandlersAreAtomic

=============================================================================
