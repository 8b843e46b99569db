------------------------- MODULE MCAsyncFilesystem -------------------------
(***************************************************************************)
(* AsyncFilesystem on one store: a folder /docs with a file /docs/readme   *)
(* that has a version, a file /photo, and in the trash a folder that was   *)
(* /music, with a file that has a version.                                 *)
(***************************************************************************)
EXTENDS SerialFilesystem, TLC

CONSTANTS docs, readme, photo, other, music, t0, v0, v1, cx, cx0, cy, cf, cf0

MCSegments == {docs, readme, photo, other, music, t0, v0, v1, TRASH, VERSIONS} \cup Requests
ExactLike == {<<m, m>> : m \in MCSegments}
MCContents == {cx, cx0, cy, cf, cf0} \cup Requests
MCRefs == {v0, v1} \cup Requests
MCNodes == {docs, readme, photo, music, other} \cup Requests
Symmetry == Permutations(Requests)

Bin == <<TRASH, t0, music>>

MCInitial ==
  [rows |-> {NewRow(<<docs>>, TRUE, NoSum, docs), NewRow(<<docs, readme>>, FALSE, cx, readme),
             NewRow(<<photo>>, FALSE, cy, photo),
             [NewRow(Bin, TRUE, NoSum, music) EXCEPT !.deleted = TRUE, !.orig = <<music>>],
             [NewRow(Append(Bin, readme), FALSE, cf, other) EXCEPT !.deleted = TRUE]},
   versions |-> {[path |-> <<docs, readme>>, no |-> 1, sum |-> cx0, ref |-> v0],
                 [path |-> Append(Bin, readme), no |-> 1, sum |-> cf0, ref |-> v1]},
   disk |-> {[path |-> <<docs>>, data |-> DIR], [path |-> <<docs, readme>>, data |-> cx],
             [path |-> <<photo>>, data |-> cy], [path |-> Bin, data |-> DIR],
             [path |-> Append(Bin, readme), data |-> cf],
             [path |-> Blob(v0), data |-> cx0], [path |-> Blob(v1), data |-> cf0]}]

Ask(op, path, dest, over, no) ==
  [op |-> op, path |-> path, dest |-> dest, over |-> over, no |-> no]
Put(op, path, over) == Ask(op, path, path, over, 0)
To(op, path, dest) == Ask(op, path, dest, FALSE, 0)

MCInputs ==
  {Put("upload", <<docs, other>>, FALSE), Put("upload", <<docs, readme>>, TRUE),
   Put("upload", <<photo>>, FALSE), Put("upload", <<other>>, FALSE),
   Put("chunked", <<docs, other>>, FALSE), Put("chunked", <<photo>>, TRUE),
   Put("save", <<docs, readme>>, TRUE), Put("save", <<photo>>, TRUE), Put("save", <<docs>>, TRUE),
   Put("folder", <<docs, other>>, FALSE), Put("folder", <<music>>, FALSE),
   To("rename", <<docs>>, <<other>>), To("rename", <<photo>>, <<other>>),
   To("move", <<photo>>, <<docs, photo>>), To("move", <<photo>>, <<photo>>),
   To("move", <<docs>>, <<docs, docs>>), To("move", <<docs, readme>>, <<readme>>),
   To("delete", <<docs>>, Root), To("delete", <<photo>>, Root),
   To("restore", Bin, Root), To("purge", Bin, Root),
   Ask("version", <<docs, readme>>, <<docs, readme>>, FALSE, 1), Ask("version", <<docs, readme>>, <<docs, readme>>, FALSE, 2)}
  \cup {To("purge", <<TRASH, r, photo>>, Root) : r \in Requests}

\* The hypotheses of the theorems of AsyncProofs.
ASSUME LikeIsExact /\ OnlyUserPaths

\* bound: two uploads of the same file
SameFile == {Put("upload", <<docs, other>>, FALSE)}

\* bound: a relocation, and an upload to where it goes
Reused == {To("rename", <<photo>>, <<other>>), Put("upload", <<other>>, FALSE)}

(* BytesSurvive without Forfeited: fails after a crash of the relocation.  *)
BytesSurviveCrash ==
  ~overlap => \A c \in Stored : \E e \in store.disk : e.data = c

(* Any two requests at once.                                               *)
MCNext == Next /\ UNCHANGED base
MCSpec == SerialInit /\ [][MCNext]_<<vars, base>>
MCFairSpec == MCSpec /\ \A r \in Requests : WF_<<vars, base>>(Step(r) /\ UNCHANGED base)

============================================================================
