--------------------------- MODULE FilesystemTree --------------------------
(***************************************************************************)
(* The tree of entries a store stands for, and the refinement of FileTree  *)
(* by Filesystem.  An entry hangs from the entry whose path is its         *)
(* parent_path, or from TRASH when the trash lists it; its contents are    *)
(* the bytes on disk, and its history the bytes of its versions' blobs, in *)
(* the order of their numbers.                                             *)
(***************************************************************************)
EXTENDS Filesystem

NodeAt(s, p) == RowAt(s, p).node
ParentEntry(s, r) ==
  CASE r.orig # NoPath -> TRASH
    [] r.orig = NoPath /\ r.parent = Root -> Root
    [] r.orig = NoPath /\ r.parent # Root -> NodeAt(s, r.parent)

BytesAt(s, p) == (CHOOSE e \in FileOn(s.disk, p) : TRUE).data
VersionOf(s, p, i) == CHOOSE v \in VersionsAt(s, p) : v.no = i
HistoryAt(s, p) ==
  [i \in 1 .. Cardinality(VersionsAt(s, p)) |-> BytesAt(s, Blob(VersionOf(s, p, i).ref))]

EntryOf(s, r) ==
  [parent |-> ParentEntry(s, r), name |-> r.name, dir |-> r.dir,
   data |-> IF r.dir THEN NoPath ELSE BytesAt(s, r.path),
   history |-> HistoryAt(s, r.path), orig |-> r.orig, fav |-> r.fav]

EntriesOf(s) ==
  [n \in {r.node : r \in s.rows} |-> EntryOf(s, CHOOSE r \in s.rows : r.node = n)]

Tree == INSTANCE FileTree WITH
  Node <- Nodes, Name <- Names, Content <- Contents, None <- NoPath,
  Top <- Root, Bin <- TRASH, tree <- EntriesOf(store)

\* The three kinds of parents are told apart: an entry, "/", the trash.
EdgesApart == Root \notin Nodes /\ TRASH \notin Nodes /\ TRASH # Root

(* Every request does to the tree of entries what FileTree says it does,   *)
(* although the code rewrites path prefixes row by row: renaming or moving *)
(* a folder is a change of one edge, delete followed by restore is a       *)
(* round trip, an overwrite or roll-back only appends to the history.      *)
ImplementsFileTree == Tree!Spec

============================================================================
